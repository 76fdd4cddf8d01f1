-------------------------- MODULE NameServerProofs --------------------------
(***************************************************************************)
(* The name server keeps its tables exact and answers with the right TID,   *)
(* for any number of clients and names, and any size of its table.          *)
(***************************************************************************)
EXTENDS NameServer, MessagePassingProofs, FiniteSetTheorems

\* "never need more than 1 per task": MAX_TASKS nodes
EnoughNodes == IsFiniteSet(Task) /\ Cardinality(Clients) <= MaxNodes

Tids == [ix : Task \cup {-1}, seq : Nat]

\* The server handles a task that is blocked for it, and does one thing at a time.
ServerInPlace ==
    /\ incarnation \in [Task -> Nat]
    /\ mode[Ns] = "receiving" => serving = Nobody /\ notifying = 0
    /\ \/ serving = Nobody
       \/ /\ serving.ix \in Clients /\ serving = TidOf(serving.ix)
          /\ mode[serving.ix] = "received" /\ notifying = 0

\* A client has a request exactly while it is blocked.
RequestsExact ==
    /\ DOMAIN request = Clients /\ DOMAIN answer = Clients
    /\ \A c \in Clients : IF mode[c] \in {"dead", "running"} THEN request[c] = None
                          ELSE request[c] \in Requests

\* The task of tid waits on the stack of record i.
WaitsIn(tid, i) ==
    /\ tid.ix \in Clients /\ tid = TidOf(tid.ix)
    /\ mode[tid.ix] = "received" /\ tid.ix # serving.ix
    /\ request[tid.ix] = [type |-> "whois", name |-> records[i].name]
    /\ records[i].tid # Unknown => notifying = i

RecordsExact ==
    /\ failed = FALSE
    /\ records \in Seq([name : Names, tid : Tids, waitq : Seq(Tids)])
    /\ \A i, j \in 1 .. Len(records) : records[i].name = records[j].name => i = j
    /\ notifying \in 0 .. Len(records)
    /\ notifying # 0 => records[notifying].waitq # << >> /\ records[notifying].tid # Unknown
    /\ \A i \in 1 .. Len(records) :
          /\ \A k, l \in 1 .. Len(records[i].waitq) :
                records[i].waitq[k] = records[i].waitq[l] => k = l
          /\ \A k \in 1 .. Len(records[i].waitq) : WaitsIn(records[i].waitq[k], i)

NodesExact == free_nodes \in Nat /\ free_nodes + Cardinality(WaitingClients) = MaxNodes

NsInv == /\ InboxExact(Ns) /\ ServerInPlace /\ RequestsExact /\ RecordsExact /\ NodesExact

-----------------------------------------------------------------------------
(* Facts *)

LEMMA Descriptors ==
    /\ Ns \in Task /\ MaxNodes \in Nat /\ MaxNames \in Nat /\ Incarnations \in Nat \ {0}
    /\ \A t \in Task : t \in Nat /\ t # -1
    /\ \A c : c \in Clients <=> c \in Task /\ c # Ns
    /\ Nobody.ix = -1 /\ Unknown = Nobody
    /\ \A t : TidOf(t).ix = t
BY NsAssumption DEF Nobody, Unknown, Clients, TidOf

LEMMA FindFacts ==
    ASSUME RecordsExact, NEW name
    PROVE  /\ Len(records) \in Nat
           /\ \/ ns_find(name) = 0 /\ \A i \in 1 .. Len(records) : records[i].name # name
              \/ /\ ns_find(name) \in 1 .. Len(records) /\ ns_find(name) # 0
                 /\ records[ns_find(name)].name = name
<1>1. Len(records) \in Nat /\ DOMAIN records = 1 .. Len(records)
  BY DEF RecordsExact
<1> DEFINE I == {i \in DOMAIN records : records[i].name = name}
<1>2. CASE I = {}
  BY <1>1, <1>2 DEF ns_find
<1>3. CASE I # {}
  <2>1. (CHOOSE i \in I : TRUE) \in I
    BY <1>3
  <2> QED BY <1>1, <1>3, <2>1 DEF ns_find
<1> QED BY <1>2, <1>3

\* Who waits can be told from the stacks alone.
OnStack(c) == \E i \in 1 .. Len(records) :
                 \E k \in 1 .. Len(records[i].waitq) : records[i].waitq[k].ix = c

WaitingIs == WaitingClients = {c \in Clients : OnStack(c)}

\* A record is one, and its stack a sequence of TIDs.
LEMMA RecordTypes ==
    ASSUME RecordsExact
    PROVE  /\ Len(records) \in Nat /\ DOMAIN records = 1 .. Len(records)
           /\ \A i \in 1 .. Len(records) :
                 /\ records[i] \in [name : Names, tid : Tids, waitq : Seq(Tids)]
                 /\ records[i].waitq \in Seq(Tids)
                 /\ Len(records[i].waitq) \in Nat
                 /\ DOMAIN records[i].waitq = 1 .. Len(records[i].waitq)
<1>1. records \in Seq([name : Names, tid : Tids, waitq : Seq(Tids)])
  BY DEF RecordsExact
<1>2. Len(records) \in Nat /\ DOMAIN records = 1 .. Len(records)
  BY <1>1
<1>3. ASSUME NEW i \in 1 .. Len(records)
      PROVE  /\ records[i] \in [name : Names, tid : Tids, waitq : Seq(Tids)]
             /\ records[i].waitq \in Seq(Tids)
             /\ Len(records[i].waitq) \in Nat
             /\ DOMAIN records[i].waitq = 1 .. Len(records[i].waitq)
  <2>1. records[i] \in [name : Names, tid : Tids, waitq : Seq(Tids)]
    BY <1>1, ElementOfSeq
  <2>2. records[i].waitq \in Seq(Tids)
    BY <2>1
  <2> QED BY <2>1, <2>2
<1> QED BY <1>2, <1>3

LEMMA WaitingIsOnStack == RecordsExact => WaitingIs
<1> SUFFICES ASSUME RecordsExact, NEW c \in Clients
             PROVE  (\E i \in DOMAIN records : TidOf(c) \in ToSet(records[i].waitq)) <=> OnStack(c)
  BY DEF WaitingClients, WaitingIs
<1>1. ASSUME NEW i \in 1 .. Len(records), NEW k \in 1 .. Len(records[i].waitq)
      PROVE  records[i].waitq[k] = TidOf(c) <=> records[i].waitq[k].ix = c
  <2>1. WaitsIn(records[i].waitq[k], i)
    BY DEF RecordsExact
  <2> QED BY <2>1, Descriptors DEF WaitsIn
<1>2. ASSUME NEW i \in 1 .. Len(records)
      PROVE  TidOf(c) \in ToSet(records[i].waitq) <=>
             \E k \in 1 .. Len(records[i].waitq) : records[i].waitq[k].ix = c
  <2>1. DOMAIN records[i].waitq = 1 .. Len(records[i].waitq)
    BY RecordTypes
  <2>2. TidOf(c) \in ToSet(records[i].waitq) <=>
        \E k \in 1 .. Len(records[i].waitq) : records[i].waitq[k] = TidOf(c)
    BY <2>1 DEF ToSet
  <2> QED BY <1>1, <2>2
<1> QED BY <1>2, RecordTypes DEF OnStack

LEMMA WaitingIsOnStackNext == RecordsExact' => WaitingClients' = {c \in Clients : OnStack(c)'}
<1>1. RecordsExact' => WaitingIs'
  BY WaitingIsOnStack, PTL
<1> QED BY <1>1 DEF WaitingIs

\* A step that leaves the stacks, and those who wait on them, alone
LEMMA StacksKept ==
    ASSUME RecordsExact, NodesExact, UNCHANGED dbVars,
           \A c \in Clients : OnStack(c) =>
              /\ TidOf(c)' = TidOf(c) /\ mode'[c] = mode[c] /\ request'[c] = request[c]
              /\ c # serving'.ix
    PROVE  RecordsExact' /\ NodesExact'
<1>1. ASSUME NEW i \in 1 .. Len(records), NEW k \in 1 .. Len(records[i].waitq)
      PROVE  WaitsIn(records[i].waitq[k], i)'
  <2> DEFINE tid == records[i].waitq[k]
  <2>1. WaitsIn(tid, i)
    BY DEF RecordsExact
  <2>2. OnStack(tid.ix)
    BY DEF OnStack
  <2> QED BY <2>1, <2>2 DEF WaitsIn, dbVars
<1>2. RecordsExact'
  BY <1>1 DEF RecordsExact, dbVars
<1>3. \A c : OnStack(c)' <=> OnStack(c)
  BY DEF OnStack, dbVars
<1>4. WaitingClients' = WaitingClients
  BY <1>2, <1>3, WaitingIsOnStack, WaitingIsOnStackNext DEF WaitingIs
<1> QED BY <1>2, <1>4 DEF NodesExact, dbVars

\* Who is on a stack is blocked and not the one served.
LEMMA OnStackFacts ==
    ASSUME RecordsExact, NEW c, OnStack(c)
    PROVE  c \in Clients /\ mode[c] = "received" /\ c # serving.ix /\ request[c].type = "whois"
<1>1. PICK i \in 1 .. Len(records) :
         \E k \in 1 .. Len(records[i].waitq) : records[i].waitq[k].ix = c
  BY DEF OnStack
<1>2. PICK k \in 1 .. Len(records[i].waitq) : records[i].waitq[k].ix = c
  BY <1>1
<1>3. WaitsIn(records[i].waitq[k], i)
  BY DEF RecordsExact
<1> QED BY <1>2, <1>3 DEF WaitsIn

-----------------------------------------------------------------------------
(* Clients *)

LEMMA ComeAndGoStep ==
    ASSUME NsInv, NEW c \in Clients, ComeAndGo(c)
    PROVE  NsInv'
<1> USE Descriptors
<1>1. /\ c \in Task /\ c # Ns /\ UNCHANGED <<request, serving, dbVars>>
      /\ answer' = [answer EXCEPT ![c] = NoAnswer]
  BY DEF ComeAndGo
<1>2. \/ mode[c] = "dead" /\ mode' = [mode EXCEPT ![c] = "running"]
         /\ incarnation' = incarnation /\ inbox' = inbox
      \/ mode[c] = "running" /\ mode' = [mode EXCEPT ![c] = "dead"]
         /\ incarnation' = [incarnation EXCEPT ![c] = (incarnation[c] + 1) % Incarnations]
         /\ inbox' = [inbox EXCEPT ![c] = << >>]
  BY DEF ComeAndGo, Born, Dies, Alive
<1>3. InboxExact(Ns)'
  <2>1. /\ DOMAIN incarnation' = Task /\ DOMAIN inbox' = Task
        /\ inbox'[Ns] = inbox[Ns]
    BY <1>1, <1>2 DEF NsInv, InboxExact
  <2> QED BY <1>1, <1>2, <2>1, ModeKeepsInbox DEF NsInv
<1>4. /\ \A t \in Task \ {c} : mode'[t] = mode[t] /\ TidOf(t)' = TidOf(t)
      /\ mode[c] \in {"dead", "running"} /\ mode'[c] \in {"dead", "running"}
  BY <1>1, <1>2 DEF NsInv, InboxExact, TidOf
<1>5. incarnation' \in [Task -> Nat]
  <2>1. incarnation \in [Task -> Nat] /\ (incarnation[c] + 1) % Incarnations \in Nat
    BY <1>1 DEF NsInv, ServerInPlace
  <2> QED BY <1>1, <1>2, <2>1
<1>6. ServerInPlace'
  BY <1>1, <1>4, <1>5 DEF NsInv, ServerInPlace, dbVars
<1>7. RequestsExact'
  BY <1>1, <1>4 DEF NsInv, RequestsExact
<1>8. RecordsExact' /\ NodesExact'
  <2>1. \A d \in Clients : OnStack(d) => d # c
    BY <1>4, OnStackFacts DEF NsInv
  <2> QED BY <1>1, <1>4, <2>1, OnStackFacts, StacksKept DEF NsInv
<1> QED BY <1>3, <1>6, <1>7, <1>8 DEF NsInv

LEMMA AskStep ==
    ASSUME NsInv, NEW c \in Clients, NEW req \in Requests, Ask(c, req)
    PROVE  NsInv'
<1> USE Descriptors
<1>1. /\ c \in Task \ {Ns}
      /\ \/ SendsToReceiver(c, Ns) /\ serving' = TidOf(c)
         \/ SendsToInbox(c, Ns) /\ serving' = serving
      /\ request' = [request EXCEPT ![c] = req] /\ answer' = [answer EXCEPT ![c] = NoAnswer]
      /\ UNCHANGED dbVars
  BY DEF Ask
<1>2. InboxExact(Ns)'
  BY <1>1, SendKeepsInbox DEF NsInv
<1>3. mode[c] = "running" /\ incarnation' = incarnation
  BY <1>1 DEF SendsToReceiver, SendsToInbox
<1>4. \A t \in Task \ {c, Ns} : mode'[t] = mode[t]
  BY <1>1 DEF NsInv, InboxExact, SendsToReceiver, SendsToInbox
<1>5. \/ /\ mode'[c] = "received" /\ serving' = TidOf(c)
         /\ mode[Ns] = "receiving" /\ mode'[Ns] = "running"
         /\ serving = Nobody /\ notifying = 0
      \/ /\ mode'[c] = "sending" /\ serving' = serving /\ mode'[Ns] = mode[Ns]
  BY <1>1 DEF NsInv, InboxExact, ServerInPlace, SendsToReceiver, SendsToInbox
<1>6. \A t : TidOf(t)' = TidOf(t)
  BY <1>3 DEF TidOf
<1>7. ServerInPlace'
  BY <1>1, <1>3, <1>4, <1>5, <1>6 DEF NsInv, ServerInPlace, dbVars
<1>8. RequestsExact'
  BY <1>1, <1>4, <1>5 DEF NsInv, RequestsExact
<1>9. RecordsExact' /\ NodesExact'
  <2>1. \A d \in Clients : OnStack(d) => d # c /\ d # serving'.ix
    BY <1>3, <1>5, OnStackFacts DEF NsInv
  <2>2. \A d \in Clients : d # c => mode'[d] = mode[d] /\ request'[d] = request[d]
    BY <1>1, <1>4 DEF NsInv, RequestsExact
  <2> QED BY <1>1, <1>6, <2>1, <2>2, StacksKept DEF NsInv
<1> QED BY <1>2, <1>7, <1>8, <1>9 DEF NsInv

-----------------------------------------------------------------------------
(* The server, where its tables stay as they are *)

LEMMA NsReceiveStep == NsInv /\ NsReceive => NsInv'
<1> SUFFICES ASSUME NsInv, NsReceive PROVE NsInv'
  OBVIOUS
<1> USE Descriptors
<1>1. serving = Nobody /\ notifying = 0 /\ UNCHANGED <<request, answer, dbVars>>
  BY DEF NsReceive, Idle, clientVars
<1>2. CASE WaitsForMessage(Ns) /\ UNCHANGED serving
  <2>1. /\ mode' = [mode EXCEPT ![Ns] = "receiving"] /\ mode[Ns] = "running"
        /\ incarnation' = incarnation /\ inbox' = inbox /\ serving' = serving
        /\ inbox[Ns] = << >>
    BY <1>2 DEF WaitsForMessage
  <2>2. /\ \A t \in Task \ {Ns} : mode'[t] = mode[t]
        /\ \A t : TidOf(t)' = TidOf(t)
        /\ mode'[Ns] = "receiving"
    BY <2>1 DEF NsInv, InboxExact, TidOf
  <2>3. InboxExact(Ns)'
    BY <2>1, <2>2 DEF NsInv, InboxExact
  <2>4. ServerInPlace'
    BY <1>1, <2>1, <2>2 DEF NsInv, ServerInPlace, dbVars
  <2>5. RequestsExact'
    BY <1>1, <2>2 DEF NsInv, RequestsExact
  <2>6. RecordsExact' /\ NodesExact'
    BY <1>1, <2>1, <2>2, OnStackFacts, StacksKept DEF NsInv
  <2> QED BY <2>3, <2>4, <2>5, <2>6 DEF NsInv
<1>3. CASE ReceivesMessage(Ns) /\ serving' = TidOf(Head(inbox[Ns]))
  <2>1. PICK h : h = Head(inbox[Ns])
    OBVIOUS
  <2>2. /\ InboxExact(Ns)' /\ h \in Task \ {Ns} /\ mode[h] = "sending"
        /\ mode' = [mode EXCEPT ![h] = "received"] /\ incarnation' = incarnation
        /\ serving' = TidOf(h) /\ mode[Ns] = "running"
    BY <1>3, <2>1, ReceiveKeepsInbox DEF NsInv, ReceivesMessage
  <2>3. /\ \A t \in Task \ {h} : mode'[t] = mode[t]
        /\ \A t : TidOf(t)' = TidOf(t)
        /\ mode'[h] = "received" /\ serving'.ix = h
    BY <2>2 DEF NsInv, InboxExact, TidOf
  <2>4. ServerInPlace'
    BY <1>1, <2>2, <2>3 DEF NsInv, ServerInPlace, dbVars
  <2>5. RequestsExact'
    BY <1>1, <2>2, <2>3 DEF NsInv, RequestsExact
  <2>6. RecordsExact' /\ NodesExact'
    <3>1. \A d \in Clients : OnStack(d) => d # h
      BY <2>2, OnStackFacts DEF NsInv
    <3> QED BY <1>1, <2>3, <3>1, StacksKept DEF NsInv
  <2> QED BY <2>2, <2>4, <2>5, <2>6 DEF NsInv
<1> QED BY <1>2, <1>3 DEF NsReceive

\* A client that waits for an answer gets one.
LEMMA ReplyFacts ==
    ASSUME NsInv, NEW c \in Clients, mode[c] = "received", NEW rply, ns_reply(TidOf(c), rply)
    PROVE  /\ InboxExact(Ns)' /\ failed' = failed /\ incarnation' = incarnation
           /\ \A t \in Task \ {c} : mode'[t] = mode[t]
           /\ \A t : TidOf(t)' = TidOf(t)
           /\ mode'[c] = "running"
           /\ request' = [request EXCEPT ![c] = None]
           /\ answer' = [answer EXCEPT ![c] = rply]
           /\ RequestsExact'
<1> USE Descriptors
<1>1. /\ mode' = [mode EXCEPT ![c] = "running"] /\ failed' = failed
      /\ incarnation' = incarnation /\ inbox' = inbox
      /\ request' = [request EXCEPT ![c] = None]
      /\ answer' = [answer EXCEPT ![c] = rply]
  BY DEF ns_reply, IsAnswered
<1>2. InboxExact(Ns)'
  BY <1>1, ModeKeepsInbox DEF NsInv, InboxExact
<1>3. \A t \in Task \ {c} : mode'[t] = mode[t]
  BY <1>1 DEF NsInv, InboxExact
<1>4. mode'[c] = "running"
  BY <1>1 DEF NsInv, InboxExact
<1>5. \A t : TidOf(t)' = TidOf(t)
  BY <1>1 DEF TidOf
<1>6. RequestsExact'
  BY <1>1, <1>3, <1>4 DEF NsInv, RequestsExact
<1> QED BY <1>1, <1>2, <1>3, <1>4, <1>5, <1>6

LEMMA Served ==
    ASSUME NsInv, serving # Nobody
    PROVE  /\ serving.ix \in Clients /\ serving = TidOf(serving.ix)
           /\ mode[serving.ix] = "received" /\ notifying = 0 /\ CanReply(serving)
           /\ mode[Ns] = "running" /\ request[serving.ix] \in Requests
<1> USE Descriptors
<1>1. /\ serving.ix \in Clients /\ serving = TidOf(serving.ix)
      /\ mode[serving.ix] = "received" /\ notifying = 0 /\ mode[Ns] # "receiving"
  BY DEF NsInv, ServerInPlace
<1>2. CanReply(serving)
  BY <1>1 DEF CanReply, Alive
<1>3. mode[Ns] = "running"
  BY <1>1 DEF NsInv, InboxExact
<1>4. request[serving.ix] \in Requests
  BY <1>1 DEF NsInv, RequestsExact
<1> QED BY <1>1, <1>2, <1>3, <1>4

LEMMA AnswerStep == NsInv /\ (RegisterNoSpace \/ WhoisKnown \/ WhoisNoSpace) => NsInv'
<1> SUFFICES ASSUME NsInv, RegisterNoSpace \/ WhoisKnown \/ WhoisNoSpace PROVE NsInv'
  OBVIOUS
<1> USE Descriptors
<1>1. serving # Nobody /\ serving' = Nobody /\ UNCHANGED <<records, free_nodes, notifying>>
  BY DEF RegisterNoSpace, WhoisKnown, WhoisNoSpace, Whois, dbVars
<1>2. PICK c \in Clients : c = serving.ix
  BY <1>1, Served
<1>3. /\ serving = TidOf(c) /\ mode[c] = "received" /\ notifying = 0 /\ CanReply(serving)
      /\ mode[Ns] = "running" /\ c # Ns /\ c \in Task
  BY <1>1, <1>2, Served
<1>4. CASE WhoisNoSpace
  <2>1. UNCHANGED <<mpVars, clientVars, dbVars>>
    BY <1>4 DEF WhoisNoSpace
  <2>2. \A t : TidOf(t)' = TidOf(t)
    BY <2>1 DEF TidOf, mpVars
  <2>3. InboxExact(Ns)' /\ ServerInPlace' /\ RequestsExact'
    BY <1>1, <1>3, <2>1, <2>2
       DEF NsInv, InboxExact, ServerInPlace, RequestsExact, mpVars, clientVars, dbVars
  <2>4. RecordsExact' /\ NodesExact'
    BY <1>1, <2>1, <2>2, StacksKept DEF NsInv, mpVars, clientVars
  <2> QED BY <2>3, <2>4 DEF NsInv
<1>5. CASE RegisterNoSpace \/ WhoisKnown
  <2>1. PICK rply : ns_reply(TidOf(c), rply)
    BY <1>3, <1>5 DEF RegisterNoSpace, WhoisKnown
  <2>2. /\ InboxExact(Ns)' /\ failed' = failed /\ incarnation' = incarnation
        /\ \A t \in Task \ {c} : mode'[t] = mode[t]
        /\ \A t : TidOf(t)' = TidOf(t)
        /\ request' = [request EXCEPT ![c] = None]
        /\ RequestsExact'
    BY <1>3, <2>1, ReplyFacts
  <2>3. ServerInPlace'
    BY <1>1, <1>3, <2>2 DEF NsInv, ServerInPlace
  <2>4. \A d \in Clients : OnStack(d) => d # c
    BY <1>2, OnStackFacts DEF NsInv
  <2>5. \A d \in Clients : d # c => mode'[d] = mode[d] /\ request'[d] = request[d]
    BY <2>2 DEF NsInv, RequestsExact
  <2>6. RecordsExact' /\ NodesExact'
    BY <1>1, <2>2, <2>4, <2>5, StacksKept DEF NsInv, dbVars
  <2> QED BY <2>2, <2>3, <2>6 DEF NsInv
<1> QED BY <1>4, <1>5

-----------------------------------------------------------------------------
(* The server, where its tables change *)

Record == [name : Names, tid : Tids, waitq : Seq(Tids)]

LEMMA ServedIsTid == NsInv /\ serving # Nobody => serving \in Tids
<1> SUFFICES ASSUME NsInv, serving # Nobody PROVE serving \in Tids
  OBVIOUS
<1>1. serving.ix \in Task /\ serving = TidOf(serving.ix) /\ incarnation \in [Task -> Nat]
  BY Served, Descriptors DEF NsInv, ServerInPlace
<1> QED BY <1>1 DEF TidOf, Tids

\* What Entered(i, tid) is, record by record
LEMMA EnteredFacts ==
    ASSUME RecordsExact, NEW i, i = ns_find(Asked.name), Asked.name \in Names, NEW tid \in Tids,
           records' = Entered(i, tid)
    PROVE  /\ records' \in Seq(Record)
           /\ Len(records') = IF i = 0 THEN Len(records) + 1 ELSE Len(records)
           /\ \A j \in 1 .. Len(records) :
                 /\ records'[j].name = records[j].name /\ records'[j].waitq = records[j].waitq
                 /\ records'[j].tid = IF j = i THEN tid ELSE records[j].tid
           /\ i = 0 => records'[Len(records) + 1] = [name |-> Asked.name, tid |-> tid, waitq |-> << >>]
<1>1. /\ records \in Seq(Record) /\ Len(records) \in Nat
      /\ \A j \in 1 .. Len(records) : records[j] \in Record
  BY RecordTypes DEF RecordsExact, Record
<1>2. CASE i = 0
  <2> DEFINE r == [name |-> Asked.name, tid |-> tid, waitq |-> << >>]
  <2>1. records' = Append(records, r) /\ r \in Record
    BY <1>2 DEF Entered, Record
  <2> HIDE DEF r
  <2>2. /\ Append(records, r) \in Seq(Record) /\ Len(Append(records, r)) = Len(records) + 1
        /\ \A j \in 1 .. Len(records) : Append(records, r)[j] = records[j] /\ j # 0
        /\ Append(records, r)[Len(records) + 1] = r
    BY <1>1, <2>1
  <2> QED BY <1>2, <2>1, <2>2 DEF r
<1>3. CASE i # 0
  <2>1. i \in 1 .. Len(records)
    BY <1>3, FindFacts
  <2> DEFINE r == [records[i] EXCEPT !.tid = tid]
  <2>2. /\ r \in Record /\ r.name = records[i].name /\ r.waitq = records[i].waitq /\ r.tid = tid
    BY <1>1, <2>1 DEF Record
  <2>3. records' = [records EXCEPT ![i] = r]
    BY <1>3 DEF Entered
  <2> HIDE DEF r
  <2>4. /\ records' \in Seq(Record) /\ Len(records') = Len(records)
        /\ \A j \in 1 .. Len(records) : records'[j] = IF j = i THEN r ELSE records[j]
    BY <1>1, <2>1, <2>2, <2>3
  <2> QED BY <1>3, <2>2, <2>4
<1> QED BY <1>2, <1>3

LEMMA RegisterStep == NsInv /\ ns_register => NsInv'
<1> SUFFICES ASSUME NsInv, ns_register PROVE NsInv'
  OBVIOUS
<1> USE Descriptors
<1>1. PICK i : i = ns_find(Asked.name)
  OBVIOUS
<1>2. /\ serving # Nobody /\ serving' = Nobody /\ UNCHANGED free_nodes
      /\ Asked.type = "register" /\ records' = Entered(i, serving)
      /\ notifying' = IF i # 0 /\ records[i].waitq # << >> THEN i ELSE 0
  BY <1>1 DEF ns_register
<1>3. PICK c \in Clients : c = serving.ix
  BY <1>2, Served
<1>4. /\ serving = TidOf(c) /\ mode[c] = "received" /\ notifying = 0 /\ CanReply(serving)
      /\ mode[Ns] = "running" /\ c # Ns /\ c \in Task /\ Asked \in Requests
  BY <1>2, <1>3, Served DEF Asked
<1>5. /\ InboxExact(Ns)' /\ failed' = failed /\ incarnation' = incarnation
      /\ \A t \in Task \ {c} : mode'[t] = mode[t]
      /\ \A t : TidOf(t)' = TidOf(t)
      /\ request' = [request EXCEPT ![c] = None]
      /\ RequestsExact'
  BY <1>3, <1>4, ReplyFacts DEF ns_register
<1>6. ServerInPlace'
  BY <1>2, <1>4, <1>5 DEF NsInv, ServerInPlace
<1>7. Asked.name \in Names /\ serving \in Tids /\ serving # Unknown
  BY <1>2, <1>4, ServedIsTid DEF Requests
<1>8. \A d \in Clients : d # c => mode'[d] = mode[d] /\ request'[d] = request[d]
  BY <1>5 DEF NsInv, RequestsExact
<1>9. /\ records' \in Seq(Record)
      /\ Len(records') = IF i = 0 THEN Len(records) + 1 ELSE Len(records)
      /\ \A j \in 1 .. Len(records) :
            /\ records'[j].name = records[j].name /\ records'[j].waitq = records[j].waitq
            /\ records'[j].tid = IF j = i THEN serving ELSE records[j].tid
      /\ i = 0 => records'[Len(records) + 1] =
                     [name |-> Asked.name, tid |-> serving, waitq |-> << >>]
  BY <1>1, <1>2, <1>7, EnteredFacts DEF NsInv
<1>10. /\ Len(records) \in Nat
       /\ \/ i = 0 /\ \A j \in 1 .. Len(records) : records[j].name # Asked.name
          \/ i \in 1 .. Len(records) /\ i # 0
  BY <1>1, FindFacts DEF NsInv
<1>11. \A j \in 1 .. Len(records') :
          j \in 1 .. Len(records) \/ (i = 0 /\ j = Len(records) + 1)
  <2>1. CASE i = 0
    BY <1>9, <1>10, <2>1
  <2>2. CASE i # 0
    BY <1>9, <2>2
  <2> QED BY <2>1, <2>2
<1>12. ASSUME NEW j \in 1 .. Len(records'), NEW k \in 1 .. Len(records'),
              records'[j].name = records'[k].name
       PROVE  j = k
  <2>1. CASE j \in 1 .. Len(records) /\ k \in 1 .. Len(records)
    BY <1>9, <1>12, <2>1 DEF NsInv, RecordsExact
  <2>2. \A l \in 1 .. Len(records) : i = 0 => records'[l].name # Asked.name
    BY <1>9, <1>10
  <2>3. i = 0 => records'[Len(records) + 1].name = Asked.name
    BY <1>9
  <2> QED BY <1>11, <1>12, <2>1, <2>2, <2>3
<1>13. ASSUME NEW j \in 1 .. Len(records')
       PROVE  /\ \A k, l \in 1 .. Len(records'[j].waitq) :
                    records'[j].waitq[k] = records'[j].waitq[l] => k = l
              /\ \A k \in 1 .. Len(records'[j].waitq) : WaitsIn(records[j].waitq[k], j)'
  <2>1. CASE i = 0 /\ j = Len(records) + 1
    BY <1>9, <2>1
  <2>2. CASE j \in 1 .. Len(records)
    <3>0. records'[j].waitq = records[j].waitq /\ records'[j].name = records[j].name
      BY <1>9, <2>2
    <3>1. ASSUME NEW k \in 1 .. Len(records'[j].waitq)
          PROVE  WaitsIn(records[j].waitq[k], j)'
      <4>0. PICK tid : tid = records[j].waitq[k]
        OBVIOUS
      <4>1. WaitsIn(tid, j) /\ k \in 1 .. Len(records[j].waitq)
        BY <2>2, <3>0, <4>0 DEF NsInv, RecordsExact
      <4>2. records[j].tid = Unknown /\ tid.ix # c /\ tid.ix \in Clients
        BY <1>3, <1>4, <2>2, <4>1 DEF WaitsIn
      <4>3. records'[j].tid # Unknown => notifying' = j
        <5>1. CASE j = i
          <6>1. records[j].waitq # << >>
            BY <2>2, <4>1, RecordTypes DEF NsInv
          <6> QED BY <1>2, <1>10, <2>2, <5>1, <6>1
        <5>2. CASE j # i
          BY <1>9, <2>2, <4>2, <5>2
        <5> QED BY <5>1, <5>2
      <4>4. /\ tid = TidOf(tid.ix)' /\ mode'[tid.ix] = "received" /\ tid.ix # serving'.ix
            /\ request'[tid.ix] = [type |-> "whois", name |-> records'[j].name]
        BY <1>2, <1>5, <1>8, <3>0, <4>1, <4>2 DEF WaitsIn
      <4>5. records'[j].waitq[k] = tid
        BY <3>0, <4>0
      <4> QED BY <4>2, <4>3, <4>4, <4>5 DEF WaitsIn
    <3>2. \A k, l \in 1 .. Len(records[j].waitq) :
             records[j].waitq[k] = records[j].waitq[l] => k = l
      BY <2>2 DEF NsInv, RecordsExact
    <3> QED BY <3>0, <3>1, <3>2
  <2> QED BY <1>11, <2>1, <2>2
<1>14. /\ notifying' \in 0 .. Len(records')
       /\ notifying' # 0 => records'[notifying'].waitq # << >> /\ records'[notifying'].tid # Unknown
  BY <1>2, <1>7, <1>9, <1>10
<1>15. RecordsExact'
  <2>1. failed' = FALSE
    BY <1>5 DEF NsInv, RecordsExact
  <2> QED BY <1>9, <1>12, <1>13, <1>14, <2>1 DEF RecordsExact, Record
<1>16. \A d : OnStack(d)' <=> OnStack(d)
  <2> SUFFICES ASSUME NEW d PROVE OnStack(d)' <=> OnStack(d)
    OBVIOUS
  <2>1. ASSUME NEW j \in 1 .. Len(records'), j \notin 1 .. Len(records)
        PROVE  ~ \E k \in 1 .. Len(records'[j].waitq) : records'[j].waitq[k].ix = d
    <3>1. records'[j].waitq = << >>
      BY <1>9, <1>11, <2>1
    <3> QED BY <3>1
  <2>2. \A j \in 1 .. Len(records) :
           j \in 1 .. Len(records') /\ records'[j].waitq = records[j].waitq
    BY <1>9, <1>10
  <2>3. ASSUME NEW j \in 1 .. Len(records')
        PROVE  (\E k \in 1 .. Len(records'[j].waitq) : records'[j].waitq[k].ix = d) <=>
               /\ j \in 1 .. Len(records)
               /\ \E k \in 1 .. Len(records[j].waitq) : records[j].waitq[k].ix = d
    <3>1. CASE j \in 1 .. Len(records)
      BY <2>2, <3>1, Zenon
    <3>2. CASE j \notin 1 .. Len(records)
      BY <2>1, <3>2, Zenon
    <3> QED BY <3>1, <3>2
  <2> QED BY <2>2, <2>3, Zenon DEF OnStack
<1>17. NodesExact'
  BY <1>2, <1>15, <1>16, WaitingIsOnStack, WaitingIsOnStackNext DEF NsInv, NodesExact, WaitingIs
<1> QED BY <1>5, <1>6, <1>15, <1>17 DEF NsInv

LEMMA SetRecord ==
    ASSUME NEW rs \in Seq(Record), NEW i \in 1 .. Len(rs), NEW r \in Record,
           NEW rs2, rs2 = [rs EXCEPT ![i] = r]
    PROVE  /\ rs2 \in Seq(Record) /\ Len(rs2) = Len(rs)
           /\ \A j \in 1 .. Len(rs) : rs2[j] = IF j = i THEN r ELSE rs[j]
OBVIOUS

\* A task that joins a stack: record m, new when i is 0, has tid on top of q.
Pushed(i, tid, m, q) ==
    /\ records' \in Seq(Record)
    /\ m \in 1 .. Len(records')
    /\ Len(records) \in Nat
    /\ IF i # 0 THEN m = i /\ Len(records') = Len(records) /\ q = records[m].waitq
       ELSE m = Len(records) + 1 /\ Len(records') = m /\ q = << >>
    /\ \A j \in 1 .. Len(records) :
          /\ records'[j].name = records[j].name /\ records'[j].tid = records[j].tid
          /\ j # m => records'[j].waitq = records[j].waitq
    /\ records'[m].name = Asked.name /\ records'[m].tid = Unknown
    /\ records'[m].waitq = <<tid>> \o q

LEMMA PushedFacts ==
    ASSUME RecordsExact, NEW i, i = ns_find(Asked.name), Asked.name \in Names, NEW tid \in Tids,
           i # 0 => records[i].tid = Unknown,
           records' = IF i # 0
                      THEN [records EXCEPT ![i].waitq = <<tid>> \o @]
                      ELSE Append(records, [name |-> Asked.name, tid |-> Unknown,
                                            waitq |-> <<tid>>])
    PROVE  \E m \in Nat, q \in Seq(Tids) : Pushed(i, tid, m, q)
<1>1. /\ records \in Seq(Record) /\ Len(records) \in Nat
      /\ \A j \in 1 .. Len(records) : records[j] \in Record
  BY RecordTypes DEF RecordsExact, Record
<1>2. CASE i = 0
  <2> DEFINE r == [name |-> Asked.name, tid |-> Unknown, waitq |-> <<tid>>]
  <2>1. records' = Append(records, r)
    BY <1>2
  <2>2. r \in Record
    BY DEF Record, Unknown, Nobody, Tids
  <2>3. r.name = Asked.name /\ r.tid = Unknown /\ r.waitq = <<tid>> \o << >>
    OBVIOUS
  <2> HIDE DEF r
  <2>4. /\ Append(records, r) \in Seq(Record) /\ Len(Append(records, r)) = Len(records) + 1
        /\ \A j \in 1 .. Len(records) : Append(records, r)[j] = records[j]
        /\ Append(records, r)[Len(records) + 1] = r
    BY <1>1, <2>2
  <2>5. Len(records) + 1 \in Nat /\ Len(records) + 1 \in 1 .. Len(Append(records, r))
        /\ << >> \in Seq(Tids)
    BY <1>1, <2>4
  <2>6. Pushed(i, tid, Len(records) + 1, << >>)
    BY <1>1, <1>2, <2>1, <2>3, <2>4, <2>5 DEF Pushed
  <2> QED BY <2>5, <2>6
<1>3. CASE i # 0
  <2>1. i \in 1 .. Len(records) /\ records[i].name = Asked.name
    BY <1>3, FindFacts
  <2>2. records[i].waitq \in Seq(Tids) /\ <<tid>> \o records[i].waitq \in Seq(Tids)
    BY <2>1, RecordTypes
  <2> DEFINE r == [records[i] EXCEPT !.waitq = <<tid>> \o @]
  <2>3. /\ r \in Record /\ r.name = records[i].name /\ r.tid = records[i].tid
        /\ r.waitq = <<tid>> \o records[i].waitq
    BY <1>1, <2>1, <2>2 DEF Record
  <2>4. records' = [records EXCEPT ![i] = r]
    BY <1>3
  <2> HIDE DEF r
  <2>5. /\ records' \in Seq(Record) /\ Len(records') = Len(records)
        /\ \A j \in 1 .. Len(records) : records'[j] = IF j = i THEN r ELSE records[j]
    <3>1. PICK rs2 : rs2 = [records EXCEPT ![i] = r]
      OBVIOUS
    <3>2. /\ rs2 \in Seq(Record) /\ Len(rs2) = Len(records)
          /\ \A j \in 1 .. Len(records) : rs2[j] = IF j = i THEN r ELSE records[j]
      BY <1>1, <2>1, <2>3, <3>1, SetRecord
    <3> QED BY <2>4, <3>1, <3>2
  <2>6. i \in Nat /\ i \in 1 .. Len(records')
    BY <1>1, <2>1, <2>5
  <2>7. /\ \A j \in 1 .. Len(records) :
              /\ records'[j].name = records[j].name /\ records'[j].tid = records[j].tid
              /\ j # i => records'[j].waitq = records[j].waitq
        /\ records'[i] = r
    BY <2>1, <2>3, <2>5
  <2>8. /\ records'[i].name = Asked.name /\ records'[i].tid = Unknown
        /\ records'[i].waitq = <<tid>> \o records[i].waitq
    BY <1>3, <2>1, <2>3, <2>7
  <2>9. Pushed(i, tid, i, records[i].waitq)
    BY <1>1, <1>3, <2>5, <2>6, <2>7, <2>8 DEF Pushed
  <2> QED BY <2>2, <2>6, <2>9
<1> QED BY <1>2, <1>3

\* There is a node left: no task of the Clients waits twice, and one of them is served.
LEMMA NodeLeft ==
    ASSUME EnoughNodes, NsInv, serving # Nobody
    PROVE  /\ free_nodes > 0 /\ serving.ix \notin WaitingClients
           /\ IsFiniteSet(WaitingClients)
<1> USE Descriptors
<1>1. PICK c \in Clients : c = serving.ix
  BY Served
<1>2. c \notin WaitingClients
  <2>1. ~ OnStack(c)
    BY <1>1, OnStackFacts DEF NsInv
  <2> QED BY <2>1, WaitingIsOnStack DEF NsInv, WaitingIs
<1>3. WaitingClients \subseteq Clients \ {c}
  BY <1>2 DEF WaitingClients
<1>4. IsFiniteSet(Clients) /\ Cardinality(Clients) \in Nat
  <2>1. Clients \subseteq Task
    OBVIOUS
  <2> QED BY <2>1, FS_Subset, FS_CardinalityType DEF EnoughNodes
<1>5. /\ IsFiniteSet(Clients \ {c})
      /\ Cardinality(Clients \ {c}) = Cardinality(Clients) - 1
  BY <1>4, FS_RemoveElement
<1>6. IsFiniteSet(WaitingClients) /\ Cardinality(WaitingClients) <= Cardinality(Clients \ {c})
  BY <1>3, <1>5, FS_Subset
<1>7. Cardinality(WaitingClients) \in Nat
  BY <1>6, FS_CardinalityType
<1>8. free_nodes > 0
  BY <1>4, <1>5, <1>6, <1>7 DEF NsInv, NodesExact, EnoughNodes
<1> QED BY <1>1, <1>2, <1>6, <1>8

LEMMA WhoisUnknownStep ==
    ASSUME EnoughNodes, NsInv, WhoisUnknown
    PROVE  NsInv'
<1> USE Descriptors
<1>1. PICK i : i = ns_find(Asked.name)
  OBVIOUS
<1>2. /\ serving # Nobody /\ serving' = Nobody /\ UNCHANGED <<mpVars, clientVars, notifying>>
      /\ i # 0 => records[i].tid = Unknown
      /\ Asked.type = "whois"
  BY <1>1 DEF WhoisUnknown, Whois
<1>3. free_nodes > 0 /\ serving.ix \notin WaitingClients /\ IsFiniteSet(WaitingClients)
  BY <1>2, NodeLeft
<1>4. /\ records' = IF i # 0
                    THEN [records EXCEPT ![i].waitq = <<serving>> \o @]
                    ELSE Append(records, [name |-> Asked.name, tid |-> Unknown,
                                          waitq |-> <<serving>>])
      /\ free_nodes' = free_nodes - 1 /\ failed' = failed
  BY <1>1, <1>3 DEF WhoisUnknown
<1>5. PICK c \in Clients : c = serving.ix
  BY <1>2, Served
<1>6. /\ serving = TidOf(c) /\ mode[c] = "received" /\ notifying = 0
      /\ mode[Ns] = "running" /\ c # Ns /\ c \in Task /\ Asked \in Requests /\ Asked = request[c]
  BY <1>2, <1>5, Served DEF Asked
<1>7. Asked.name \in Names /\ serving \in Tids
  BY <1>2, <1>6, ServedIsTid DEF Requests
<1>8. PICK m \in Nat, q \in Seq(Tids) : Pushed(i, serving, m, q)
  <2>1. RecordsExact
    BY DEF NsInv
  <2>2. records' = IF i # 0
                   THEN [records EXCEPT ![i].waitq = <<serving>> \o @]
                   ELSE Append(records, [name |-> Asked.name, tid |-> Unknown,
                                         waitq |-> <<serving>>])
    BY <1>4
  <2> QED BY <1>1, <1>2, <1>7, <2>1, <2>2, PushedFacts
<1> USE DEF Pushed
<1>9. /\ Len(records'[m].waitq) = Len(q) + 1 /\ Len(q) \in Nat
      /\ records'[m].waitq[1] = serving
      /\ \A k \in 1 .. Len(q) : records'[m].waitq[k + 1] = q[k]
      /\ \A k \in 1 .. Len(q) + 1 :
            k = 1 \/ (k - 1 \in 1 .. Len(q) /\ records'[m].waitq[k] = q[k - 1])
  BY <1>7, <1>8
<1>10. \A t : TidOf(t)' = TidOf(t)
  BY <1>2 DEF TidOf, mpVars
<1>11. InboxExact(Ns)' /\ ServerInPlace' /\ RequestsExact'
  BY <1>2, <1>6, <1>10
     DEF NsInv, InboxExact, ServerInPlace, RequestsExact, mpVars, clientVars
<1>12. i = 0 => \A j \in 1 .. Len(records) : records[j].name # Asked.name
  BY <1>1, FindFacts DEF NsInv
<1>13. \A j \in 1 .. Len(records') : j = m \/ (j \in 1 .. Len(records) /\ j # m)
  BY <1>8
<1>14. \A k \in 1 .. Len(q) : i # 0 /\ m \in 1 .. Len(records) /\ q = records[m].waitq
  BY <1>8
<1>15. ASSUME NEW j \in 1 .. Len(records'), NEW k \in 1 .. Len(records'),
              records'[j].name = records'[k].name
       PROVE  j = k
  <2>1. CASE j \in 1 .. Len(records) /\ k \in 1 .. Len(records)
    BY <1>8, <1>15, <2>1 DEF NsInv, RecordsExact
  <2>2. CASE ~(j \in 1 .. Len(records) /\ k \in 1 .. Len(records))
    <3>1. i = 0
      BY <1>8, <2>2
    <3> QED BY <1>8, <1>12, <1>13, <1>15, <2>2, <3>1
  <2> QED BY <2>1, <2>2
\* An old waiter stays one.
<1>16. ASSUME NEW tid, NEW j \in 1 .. Len(records), WaitsIn(tid, j)
       PROVE  WaitsIn(tid, j)'
  <2>1. records'[j].tid # Unknown => notifying' = j
    BY <1>2, <1>8, <1>16 DEF WaitsIn
  <2> QED BY <1>2, <1>8, <1>10, <1>16, <2>1 DEF WaitsIn, mpVars, clientVars
<1>17. ASSUME NEW tid, tid = serving
       PROVE  WaitsIn(tid, m)'
  <2>1. tid.ix = c /\ tid = TidOf(c)' /\ tid.ix # serving'.ix
    BY <1>2, <1>5, <1>6, <1>10, <1>17
  <2>2. request[c] = [type |-> "whois", name |-> Asked.name]
    BY <1>2, <1>6 DEF Requests
  <2>3. mode'[c] = "received" /\ request'[c] = [type |-> "whois", name |-> records'[m].name]
    BY <1>2, <1>6, <1>8, <2>2 DEF mpVars, clientVars
  <2> QED BY <1>8, <2>1, <2>3 DEF WaitsIn
<1>18. ASSUME NEW j \in 1 .. Len(records')
       PROVE  /\ \A k, l \in 1 .. Len(records'[j].waitq) :
                    records'[j].waitq[k] = records'[j].waitq[l] => k = l
              /\ \A k \in 1 .. Len(records'[j].waitq) : WaitsIn(records[j].waitq[k], j)'
  <2>1. CASE j # m
    <3>1. j \in 1 .. Len(records) /\ records'[j].waitq = records[j].waitq
      BY <1>8, <1>13, <2>1
    <3>2. ASSUME NEW k \in 1 .. Len(records'[j].waitq)
          PROVE  WaitsIn(records[j].waitq[k], j)'
      <4>1. PICK tid : tid = records[j].waitq[k]
        OBVIOUS
      <4>2. WaitsIn(tid, j)
        BY <3>1, <4>1 DEF NsInv, RecordsExact
      <4>3. WaitsIn(tid, j)'
        BY <1>16, <3>1, <4>2
      <4> QED BY <3>1, <4>1, <4>3 DEF WaitsIn
    <3> QED BY <3>1, <3>2 DEF NsInv, RecordsExact
  <2>2. CASE j = m
    <3>1. \A k \in 1 .. Len(records'[m].waitq) :
             \/ k = 1 /\ records'[m].waitq[k] = serving
             \/ k - 1 \in 1 .. Len(q) /\ records'[m].waitq[k] = q[k - 1]
      BY <1>9
    <3>2. ASSUME NEW k \in 1 .. Len(q)
          PROVE  WaitsIn(q[k], m) /\ q[k] # serving
      <4>1. m \in 1 .. Len(records) /\ q = records[m].waitq
        BY <1>14
      <4>2. WaitsIn(q[k], m)
        BY <4>1 DEF NsInv, RecordsExact
      <4> QED BY <4>2 DEF WaitsIn
    <3>3. ASSUME NEW k \in 1 .. Len(q), NEW l \in 1 .. Len(q), q[k] = q[l]
          PROVE  k = l
      <4>1. m \in 1 .. Len(records) /\ q = records[m].waitq
        BY <1>14
      <4>2. \A k2, l2 \in 1 .. Len(records[m].waitq) :
               records[m].waitq[k2] = records[m].waitq[l2] => k2 = l2
        BY <4>1 DEF NsInv, RecordsExact
      <4> QED BY <3>3, <4>1, <4>2, Zenon
    <3>4. ASSUME NEW k \in 1 .. Len(records'[m].waitq), NEW l \in 1 .. Len(records'[m].waitq),
                 records'[m].waitq[k] = records'[m].waitq[l]
          PROVE  k = l
      <4>0. /\ \/ k = 1
               \/ k - 1 \in 1 .. Len(q) /\ records'[m].waitq[k] = q[k - 1]
            /\ \/ l = 1
               \/ l - 1 \in 1 .. Len(q) /\ records'[m].waitq[l] = q[l - 1]
        BY <3>1
      <4>1. \/ k = 1 /\ l = 1
            \/ k - 1 \in 1 .. Len(q) /\ l - 1 \in 1 .. Len(q)
        <5>1. CASE k = 1 /\ l - 1 \in 1 .. Len(q) /\ records'[m].waitq[l] = q[l - 1]
          <6>1. q[l - 1] # serving
            BY <3>2, <5>1
          <6> QED BY <1>9, <3>4, <5>1, <6>1
        <5>2. CASE l = 1 /\ k - 1 \in 1 .. Len(q) /\ records'[m].waitq[k] = q[k - 1]
          <6>1. q[k - 1] # serving
            BY <3>2, <5>2
          <6> QED BY <1>9, <3>4, <5>2, <6>1
        <5> QED BY <4>0, <5>1, <5>2
      <4>2. CASE k - 1 \in 1 .. Len(q) /\ l - 1 \in 1 .. Len(q)
        <5>1. k \in Nat /\ l \in Nat
          BY <1>9
        <5>2. k = 1 \/ q[k - 1] = records'[m].waitq[k]
          BY <3>1
        <5>3. l = 1 \/ q[l - 1] = records'[m].waitq[l]
          BY <3>1
        <5>4. k - 1 = l - 1
          BY <3>3, <3>4, <4>2, <5>2, <5>3, SMTT(30)
        <5> QED BY <5>1, <5>4
      <4> QED BY <4>1, <4>2
    <3>5. ASSUME NEW k \in 1 .. Len(records'[m].waitq)
          PROVE  WaitsIn(records[m].waitq[k], m)'
      <4>1. PICK tid : tid = records'[m].waitq[k]
        OBVIOUS
      <4>2. WaitsIn(tid, m)'
        <5>1. CASE tid = serving
          BY <1>17, <5>1
        <5>2. CASE k - 1 \in 1 .. Len(q) /\ tid = q[k - 1]
          <6>1. WaitsIn(tid, m) /\ m \in 1 .. Len(records)
            BY <1>14, <3>2, <5>2
          <6> QED BY <1>16, <6>1
        <5> QED BY <3>1, <4>1, <5>1, <5>2
      <4> QED BY <4>1, <4>2 DEF WaitsIn
    <3> QED BY <2>2, <3>4, <3>5
  <2> QED BY <2>1, <2>2
<1>19. RecordsExact'
  <2>1. failed' = FALSE
    BY <1>4 DEF NsInv, RecordsExact
  <2>2. notifying' = 0 /\ 0 \in 0 .. Len(records')
    BY <1>2, <1>6, <1>8
  <2> QED BY <1>8, <1>15, <1>18, <2>1, <2>2 DEF RecordsExact, Record
<1>20. \A d : OnStack(d)' <=> d = c \/ OnStack(d)
  <2> SUFFICES ASSUME NEW d PROVE OnStack(d)' <=> d = c \/ OnStack(d)
    OBVIOUS
  <2> DEFINE On(j)  == \E k \in 1 .. Len(records[j].waitq) : records[j].waitq[k].ix = d
             On2(j) == \E k \in 1 .. Len(records'[j].waitq) : records'[j].waitq[k].ix = d
  <2>1. On2(m) <=> d = c \/ \E k \in 1 .. Len(q) : q[k].ix = d
    <3>1. ASSUME NEW k \in 1 .. Len(q)
          PROVE  k + 1 \in 1 .. Len(records'[m].waitq) /\ records'[m].waitq[k + 1] = q[k]
      BY <1>9
    <3>2. 1 \in 1 .. Len(records'[m].waitq) /\ records'[m].waitq[1].ix = c
      BY <1>5, <1>9
    <3>3. \A k \in 1 .. Len(records'[m].waitq) :
             k = 1 \/ (k - 1 \in 1 .. Len(q) /\ records'[m].waitq[k] = q[k - 1])
      BY <1>9
    <3>4. On2(m) => d = c \/ \E k \in 1 .. Len(q) : q[k].ix = d
      BY <3>2, <3>3, SMTT(30)
    <3>5. (\E k \in 1 .. Len(q) : q[k].ix = d) => On2(m)
      BY <3>1
    <3>6. d = c => On2(m)
      BY <3>2
    <3> QED BY <3>4, <3>5, <3>6
  <2>2. \A j \in 1 .. Len(records) : j # m => (On2(j) <=> On(j)) /\ j \in 1 .. Len(records')
    <3>1. ASSUME NEW j \in 1 .. Len(records), j # m
          PROVE  records'[j].waitq = records[j].waitq
      BY <1>8, <3>1
    <3>2. \A j \in 1 .. Len(records) : j \in 1 .. Len(records')
      BY <1>8
    <3> QED BY <3>1, <3>2
  <2>3. (\E k \in 1 .. Len(q) : q[k].ix = d) <=> m \in 1 .. Len(records) /\ On(m)
    <3>1. CASE i # 0
      <4>1. m \in 1 .. Len(records) /\ q = records[m].waitq
        BY <1>8, <3>1
      <4> QED BY <4>1
    <3>2. CASE i = 0
      <4>1. m = Len(records) + 1 /\ q = << >> /\ Len(records) \in Nat
        BY <1>8, <3>2
      <4> QED BY <4>1
    <3> QED BY <3>1, <3>2
  <2>4. OnStack(d)' <=> \E j \in 1 .. Len(records') : On2(j)
    BY DEF OnStack
  <2>5. OnStack(d) <=> \E j \in 1 .. Len(records) : On(j)
    BY DEF OnStack
  <2> HIDE DEF On, On2
  <2> QED BY <1>8, <1>13, <2>1, <2>2, <2>3, <2>4, <2>5
<1>21. WaitingClients' = WaitingClients \cup {c}
  BY <1>19, <1>20, WaitingIsOnStack, WaitingIsOnStackNext DEF NsInv, WaitingIs
<1>22. Cardinality(WaitingClients') = Cardinality(WaitingClients) + 1
  BY <1>3, <1>5, <1>21, FS_AddElement
<1>23. NodesExact'
  BY <1>3, <1>4, <1>22, FS_CardinalityType, SMTT(30) DEF NsInv, NodesExact
<1> QED BY <1>11, <1>19, <1>23 DEF NsInv

\* The stack whose tasks are being answered, and the one on top of it
LEMMA TopOfStack ==
    ASSUME NsInv, NotifyWaiter
    PROVE  \E n \in 1 .. Len(records), q \in Seq(Tids), c \in Clients :
             /\ n = notifying /\ n # 0 /\ q = records[n].waitq /\ q # << >>
             /\ Head(q) = q[1] /\ 1 \in 1 .. Len(q) /\ Len(q) \in Nat
             /\ Head(q) = TidOf(c) /\ Head(q).ix = c /\ mode[c] = "received"
             /\ request[c] = [type |-> "whois", name |-> records[n].name]
             /\ records[n].tid # Unknown
             /\ serving = Nobody /\ mode[Ns] = "running"
             /\ ns_reply(TidOf(c), records[n].tid)
<1> USE Descriptors
<1>1. PICK n \in 1 .. Len(records) : n = notifying /\ n # 0
  BY RecordTypes DEF NotifyWaiter, NsInv, RecordsExact
<1>2. PICK q \in Seq(Tids) : q = records[n].waitq
  BY RecordTypes DEF NsInv
<1>3. q # << >> /\ records[n].tid # Unknown
  BY <1>1, <1>2 DEF NsInv, RecordsExact
<1>4. Head(q) = q[1] /\ 1 \in 1 .. Len(q) /\ Len(q) \in Nat
  BY <1>2, <1>3
<1>5. PICK h : h = Head(q)
  OBVIOUS
<1>6. WaitsIn(h, n)
  BY <1>2, <1>4, <1>5 DEF NsInv, RecordsExact
<1>7. PICK c \in Clients : c = h.ix
  BY <1>6 DEF WaitsIn
<1>8. /\ h = TidOf(c) /\ mode[c] = "received"
      /\ request[c] = [type |-> "whois", name |-> records[n].name]
  BY <1>6, <1>7 DEF WaitsIn
<1>9. serving = Nobody /\ mode[Ns] = "running"
  BY <1>1 DEF NsInv, ServerInPlace, InboxExact
<1>10. CanReply(h)
  BY <1>7, <1>8 DEF CanReply, Alive
<1>11. ns_reply(h, records[n].tid)
  BY <1>1, <1>2, <1>5, <1>10 DEF NotifyWaiter
<1> QED BY <1>1, <1>2, <1>3, <1>4, <1>5, <1>7, <1>8, <1>9, <1>11

LEMMA NotifyWaiterStep ==
    ASSUME EnoughNodes, NsInv, NotifyWaiter
    PROVE  NsInv'
<1> USE Descriptors
<1>1. PICK n \in 1 .. Len(records), q \in Seq(Tids), c \in Clients :
             /\ n = notifying /\ n # 0 /\ q = records[n].waitq /\ q # << >>
             /\ Head(q) = q[1] /\ 1 \in 1 .. Len(q) /\ Len(q) \in Nat
             /\ Head(q) = TidOf(c) /\ Head(q).ix = c /\ mode[c] = "received"
             /\ request[c] = [type |-> "whois", name |-> records[n].name]
             /\ records[n].tid # Unknown
             /\ serving = Nobody /\ mode[Ns] = "running"
             /\ ns_reply(TidOf(c), records[n].tid)
  BY TopOfStack
<1>2. /\ records' = [records EXCEPT ![n].waitq = Tail(q)]
      /\ free_nodes' = free_nodes + 1 /\ serving' = serving
      /\ notifying' = IF Len(q) = 1 THEN 0 ELSE n
  BY <1>1 DEF NotifyWaiter
<1>3. /\ InboxExact(Ns)' /\ failed' = failed /\ incarnation' = incarnation
      /\ \A t \in Task \ {c} : mode'[t] = mode[t]
      /\ \A t : TidOf(t)' = TidOf(t)
      /\ request' = [request EXCEPT ![c] = None]
      /\ RequestsExact'
  BY <1>1, ReplyFacts
<1>4. \A d \in Clients : d # c => mode'[d] = mode[d] /\ request'[d] = request[d]
  BY <1>3 DEF NsInv, RequestsExact
<1>5. ServerInPlace'
  BY <1>1, <1>2, <1>3 DEF NsInv, ServerInPlace
<1>6. /\ Tail(q) \in Seq(Tids) /\ Len(Tail(q)) = Len(q) - 1
      /\ \A k \in 1 .. Len(q) - 1 : k + 1 \in 1 .. Len(q) /\ Tail(q)[k] = q[k + 1] /\ k + 1 # 1
  BY <1>1, SMTT(30)
<1>7. /\ records' \in Seq(Record) /\ Len(records') = Len(records) /\ Len(records) \in Nat
      /\ \A j \in 1 .. Len(records) :
            /\ records'[j].name = records[j].name /\ records'[j].tid = records[j].tid
            /\ records'[j].waitq = IF j = n THEN Tail(q) ELSE records[j].waitq
  <2>1. /\ records \in Seq(Record) /\ Len(records) \in Nat
        /\ \A j \in 1 .. Len(records) : records[j] \in Record
    BY RecordTypes DEF NsInv, RecordsExact, Record
  <2> DEFINE r == [records[n] EXCEPT !.waitq = Tail(q)]
  <2>2. /\ r \in Record /\ r.name = records[n].name /\ r.tid = records[n].tid /\ r.waitq = Tail(q)
    BY <1>6, <2>1 DEF Record
  <2>3. records' = [records EXCEPT ![n] = r]
    BY <1>2
  <2> HIDE DEF r
  <2>4. PICK rs2 : rs2 = [records EXCEPT ![n] = r]
    OBVIOUS
  <2>5. /\ rs2 \in Seq(Record) /\ Len(rs2) = Len(records)
        /\ \A j \in 1 .. Len(records) : rs2[j] = IF j = n THEN r ELSE records[j]
    BY <2>1, <2>2, <2>4, SetRecord
  <2>6. records' = rs2
    BY <2>3, <2>4, Zenon
  <2>7. \A j \in 1 .. Len(records) :
           /\ rs2[j].name = records[j].name /\ rs2[j].tid = records[j].tid
           /\ rs2[j].waitq = IF j = n THEN Tail(q) ELSE records[j].waitq
    BY <2>2, <2>5, Zenon
  <2> QED BY <2>1, <2>5, <2>6, <2>7, Zenon
<1>8. ASSUME NEW j \in 1 .. Len(records), NEW k \in 1 .. Len(records'[j].waitq)
      PROVE  \E l \in 1 .. Len(records[j].waitq) :
                /\ records'[j].waitq[k] = records[j].waitq[l]
                /\ l = IF j = n THEN k + 1 ELSE k
                /\ j = n => l # 1 /\ Len(q) # 1
  <2>1. CASE j = n
    <3>1. records'[j].waitq = Tail(q) /\ records[j].waitq = q
      BY <1>1, <1>7, <2>1
    <3>2. k \in 1 .. Len(q) - 1 /\ Len(q) # 1
      BY <1>1, <1>6, <3>1
    <3>3. k + 1 \in 1 .. Len(q) /\ Tail(q)[k] = q[k + 1] /\ k + 1 # 1
      BY <1>6, <3>2
    <3> QED BY <2>1, <3>1, <3>2, <3>3
  <2>2. CASE j # n
    BY <1>7, <2>2
  <2> QED BY <2>1, <2>2
\* Nobody else on a stack is the one that is answered.
<1>9. ASSUME NEW j \in 1 .. Len(records), NEW l \in 1 .. Len(records[j].waitq),
             j = n => l # 1
      PROVE  records[j].waitq[l].ix # c
  <2>1. WaitsIn(records[j].waitq[l], j)
    BY DEF NsInv, RecordsExact
  <2>2. CASE j = n
    BY <1>1, <1>9, <2>1, <2>2 DEF NsInv, RecordsExact, WaitsIn
  <2>3. CASE j # n
    <3>1. records[j].name # records[n].name
      BY <2>3 DEF NsInv, RecordsExact
    <3>2. request[records[j].waitq[l].ix].name = records[j].name
      BY <2>1 DEF WaitsIn
    <3>3. request[c].name = records[n].name
      BY <1>1
    <3> QED BY <3>1, <3>2, <3>3
  <2> QED BY <2>2, <2>3
<1>10. ASSUME NEW j \in 1 .. Len(records), NEW k \in 1 .. Len(records'[j].waitq)
       PROVE  WaitsIn(records[j].waitq[k], j)'
  <2>0. PICK tid : tid = records'[j].waitq[k]
    OBVIOUS
  <2>1. PICK l \in 1 .. Len(records[j].waitq) :
                /\ tid = records'[j].waitq[k] /\ tid = records[j].waitq[l]
                /\ j = n => l # 1 /\ Len(q) # 1
    BY <1>8, <2>0, SMTT(30)
  <2>2. WaitsIn(tid, j)
    BY <2>1 DEF NsInv, RecordsExact
  <2>3. tid.ix \in Clients /\ tid.ix # c
    BY <1>9, <2>1, <2>2 DEF WaitsIn
  <2>4. records'[j].tid # Unknown => notifying' = j
    BY <1>1, <1>2, <1>7, <2>1, <2>2 DEF WaitsIn
  <2>5. WaitsIn(tid, j)'
    BY <1>2, <1>3, <1>4, <1>7, <2>2, <2>3, <2>4 DEF WaitsIn
  <2> QED BY <2>1, <2>5 DEF WaitsIn
<1>11. ASSUME NEW j \in 1 .. Len(records),
              NEW k \in 1 .. Len(records'[j].waitq), NEW l \in 1 .. Len(records'[j].waitq),
              records'[j].waitq[k] = records'[j].waitq[l]
       PROVE  k = l
  <2>1. PICK k2 \in 1 .. Len(records[j].waitq) :
           records'[j].waitq[k] = records[j].waitq[k2] /\ k2 = IF j = n THEN k + 1 ELSE k
    BY <1>8
  <2>2. PICK l2 \in 1 .. Len(records[j].waitq) :
           records'[j].waitq[l] = records[j].waitq[l2] /\ l2 = IF j = n THEN l + 1 ELSE l
    BY <1>8
  <2>3. k2 = l2
    <3>1. \A k3, l3 \in 1 .. Len(records[j].waitq) :
             records[j].waitq[k3] = records[j].waitq[l3] => k3 = l3
      BY DEF NsInv, RecordsExact
    <3>2. records[j].waitq[k2] = records[j].waitq[l2]
      BY <1>11, <2>1, <2>2
    <3> QED BY <3>1, <3>2, Zenon
  <2> QED BY <2>1, <2>2, <2>3
<1>12. RecordsExact'
  <2>1. failed' = FALSE
    BY <1>3 DEF NsInv, RecordsExact
  <2>2. /\ notifying' \in 0 .. Len(records')
        /\ notifying' # 0 => records'[notifying'].waitq # << >> /\ records'[notifying'].tid # Unknown
    <3>1. CASE Len(q) = 1
      BY <1>2, <1>7, <3>1
    <3>2. CASE Len(q) # 1
      <4>1. Tail(q) # << >>
        <5>1. Len(Tail(q)) # 0
          BY <1>1, <1>6, <3>2
        <5>2. Len(<< >>) = 0
          OBVIOUS
        <5> QED BY <5>1, <5>2, Zenon
      <4> QED BY <1>1, <1>2, <1>7, <3>2, <4>1, SMTT(30)
    <3> QED BY <3>1, <3>2
  <2>3. \A i, j \in 1 .. Len(records') : records'[i].name = records'[j].name => i = j
    BY <1>7 DEF NsInv, RecordsExact
  <2> QED BY <1>7, <1>10, <1>11, <2>1, <2>2, <2>3 DEF RecordsExact, Record
<1>13. \A d : OnStack(d)' <=> d # c /\ OnStack(d)
  <2> SUFFICES ASSUME NEW d PROVE OnStack(d)' <=> d # c /\ OnStack(d)
    OBVIOUS
  <2>1. OnStack(d)' => d # c /\ OnStack(d)
    <3> SUFFICES ASSUME OnStack(d)' PROVE d # c /\ OnStack(d)
      OBVIOUS
    <3>1. PICK j \in 1 .. Len(records) :
             \E k \in 1 .. Len(records'[j].waitq) : records'[j].waitq[k].ix = d
      BY <1>7 DEF OnStack
    <3>2. PICK k \in 1 .. Len(records'[j].waitq) : records'[j].waitq[k].ix = d
      BY <3>1
    <3>3. PICK l \in 1 .. Len(records[j].waitq) :
             records[j].waitq[l].ix = d /\ (j = n => l # 1)
      <4>1. \E l \in 1 .. Len(records[j].waitq) :
               /\ records'[j].waitq[k] = records[j].waitq[l]
               /\ l = IF j = n THEN k + 1 ELSE k
               /\ j = n => l # 1 /\ Len(q) # 1
        BY <1>8, Zenon
      <4> QED BY <3>2, <4>1, Zenon
    <3> QED BY <1>9, <3>3 DEF OnStack
  <2>2. ASSUME d # c, OnStack(d) PROVE OnStack(d)'
    <3>1. PICK j \in 1 .. Len(records) :
             \E k \in 1 .. Len(records[j].waitq) : records[j].waitq[k].ix = d
      BY <2>2 DEF OnStack
    <3>2. PICK l \in 1 .. Len(records[j].waitq) : records[j].waitq[l].ix = d
      BY <3>1
    <3>3. CASE j # n
      BY <1>7, <3>2, <3>3 DEF OnStack
    <3>4. CASE j = n
      <4>1. l \in 1 .. Len(q) /\ q[l].ix = d /\ l # 1
        BY <1>1, <2>2, <3>2, <3>4
      <4>2. l - 1 \in 1 .. Len(q) - 1 /\ l = (l - 1) + 1
        BY <1>1, <4>1
      <4>3. Tail(q)[l - 1] = q[l]
        BY <1>6, <4>2
      <4>4. PICK k : k \in 1 .. Len(Tail(q)) /\ Tail(q)[k].ix = d
        BY <1>6, <4>1, <4>2, <4>3
      <4> QED BY <1>7, <3>4, <4>4 DEF OnStack
    <3> QED BY <3>3, <3>4
  <2> QED BY <2>1, <2>2
<1>14. WaitingClients' = WaitingClients \ {c}
  BY <1>12, <1>13, WaitingIsOnStack, WaitingIsOnStackNext DEF NsInv, WaitingIs
<1>15. c \in WaitingClients
  <2>1. OnStack(c)
    BY <1>1 DEF OnStack
  <2> QED BY <2>1, WaitingIsOnStack DEF NsInv, WaitingIs
<1>16. IsFiniteSet(WaitingClients)
  <2>1. WaitingClients \subseteq Task
    BY DEF WaitingClients
  <2> QED BY <2>1, FS_Subset DEF EnoughNodes
<1>17. Cardinality(WaitingClients') = Cardinality(WaitingClients) - 1
  BY <1>14, <1>15, <1>16, FS_RemoveElement
<1>18. NodesExact'
  BY <1>2, <1>16, <1>17, FS_CardinalityType, SMTT(30) DEF NsInv, NodesExact
<1> QED BY <1>3, <1>5, <1>12, <1>18 DEF NsInv

-----------------------------------------------------------------------------
(* The invariant *)

LEMMA NsInvInit == NsInit => NsInv
<1> SUFFICES ASSUME NsInit PROVE NsInv
  OBVIOUS
<1> USE Descriptors
<1>1. /\ mode = [t \in Task |-> IF t \in FirstTasks THEN "running" ELSE "dead"]
      /\ incarnation = [t \in Task |-> 0] /\ inbox = [t \in Task |-> << >>]
      /\ Ns \in FirstTasks
  BY NsAssumption DEF NsInit, MpInit
<1>2. InboxExact(Ns)
  BY <1>1 DEF InboxExact
<1>3. ServerInPlace /\ RequestsExact
  BY <1>1 DEF NsInit, ServerInPlace, RequestsExact
<1>4. RecordsExact
  <2>1. failed = FALSE
    BY DEF NsInit
  <2>2. records = << >> /\ notifying = 0
    BY DEF NsInit
  <2> QED BY <2>1, <2>2 DEF RecordsExact
<1>5. NodesExact
  <2>1. records = << >> /\ free_nodes = MaxNodes
    BY DEF NsInit
  <2>2. WaitingClients = {}
    BY <2>1 DEF WaitingClients
  <2> QED BY <2>1, <2>2, FS_EmptySet DEF NodesExact
<1> QED BY <1>2, <1>3, <1>4, <1>5 DEF NsInv

LEMMA NsInvStep ==
    ASSUME EnoughNodes
    PROVE  NsInv /\ [NsNext]_nsVars => NsInv'
<1> SUFFICES ASSUME NsInv, [NsNext]_nsVars PROVE NsInv'
  OBVIOUS
<1>1. ASSUME NEW c \in Clients, ComeAndGo(c) PROVE NsInv'
  BY <1>1, ComeAndGoStep
<1>2. ASSUME NEW c \in Clients, NEW req \in Requests, Ask(c, req) PROVE NsInv'
  BY <1>2, AskStep
<1>3. CASE NsReceive
  BY <1>3, NsReceiveStep
<1>4. CASE RegisterNoSpace \/ WhoisKnown \/ WhoisNoSpace
  BY <1>4, AnswerStep
<1>5. CASE ns_register
  BY <1>5, RegisterStep
<1>6. CASE WhoisUnknown
  BY <1>6, WhoisUnknownStep
<1>7. CASE NotifyWaiter
  BY <1>7, NotifyWaiterStep
<1>8. CASE UNCHANGED nsVars
  <2> USE <1>8 DEF nsVars, mpVars, clientVars
  <2>1. \A t : TidOf(t)' = TidOf(t)
    BY DEF TidOf
  <2>2. InboxExact(Ns)' /\ ServerInPlace' /\ RequestsExact'
    BY <2>1 DEF NsInv, InboxExact, ServerInPlace, RequestsExact, dbVars
  <2>3. RecordsExact' /\ NodesExact'
    BY <2>1, StacksKept, OnStackFacts DEF NsInv
  <2> QED BY <2>2, <2>3 DEF NsInv
<1> QED BY <1>1, <1>2, <1>3, <1>4, <1>5, <1>6, <1>7, <1>8 DEF NsNext, ServerStep, Handle

LEMMA NsInvHolds ==
    ASSUME EnoughNodes
    PROVE  NsSpec => []NsInv
<1>1. NsInv /\ [NsNext]_nsVars => NsInv'
  BY NsInvStep
<1> QED BY <1>1, NsInvInit, PTL DEF NsSpec

LEMMA WaitersAreExact == NsInv => WaitersExact
<1> SUFFICES ASSUME NsInv PROVE WaitersExact
  OBVIOUS
<1>1. ~failed
  BY DEF NsInv, RecordsExact
<1>2. IsInjective([i \in DOMAIN records |-> records[i].name])
  <2>1. \A i, j \in DOMAIN records : records[i].name = records[j].name => i = j
    BY RecordTypes DEF NsInv, RecordsExact
  <2> QED BY <2>1 DEF IsInjective
<1>3. free_nodes + Cardinality(WaitingClients) = MaxNodes
  BY DEF NsInv, NodesExact
<1>4. ASSUME NEW i \in DOMAIN records
      PROVE  /\ IsInjective(records[i].waitq)
             /\ \A tid \in ToSet(records[i].waitq) :
                /\ CanReply(tid)
                /\ request[tid.ix] = [type |-> "whois", name |-> records[i].name]
                /\ records[i].tid # Unknown => notifying = i
  <2>1. i \in 1 .. Len(records) /\ DOMAIN records[i].waitq = 1 .. Len(records[i].waitq)
    BY RecordTypes DEF NsInv
  <2>2. IsInjective(records[i].waitq)
    BY <2>1 DEF NsInv, RecordsExact, IsInjective
  <2>3. ASSUME NEW tid \in ToSet(records[i].waitq)
        PROVE  WaitsIn(tid, i)
    <3>1. PICK k \in 1 .. Len(records[i].waitq) : tid = records[i].waitq[k]
      BY <2>1 DEF ToSet
    <3>2. WaitsIn(records[i].waitq[k], i)
      BY <2>1 DEF NsInv, RecordsExact
    <3> QED BY <3>1, <3>2
  <2> QED BY <2>2, <2>3 DEF WaitsIn, CanReply, Alive
<1> QED BY <1>1, <1>2, <1>3, <1>4 DEF WaitersExact

\* The asserts of ns.c hold and its tables agree with the tasks that wait, for
\* any number of clients that come and go at any time, as long as there is a
\* node for each (ns_register, ns_whois).
THEOREM WaitersAreKnown ==
    ASSUME EnoughNodes
    PROVE  NsSpec => []WaitersExact
<1>1. NsSpec => []NsInv
  BY NsInvHolds
<1> QED BY <1>1, WaitersAreExact, PTL

-----------------------------------------------------------------------------
(* What WhoIs returns *)

LEMMA OnlyWhoisAnswers ==
    ASSUME NsInv, [NsNext]_nsVars, NEW c \in Clients,
           request[c] \in Requests, request[c].type = "whois", request'[c] = None
    PROVE  \E i \in DOMAIN records :
              /\ records[i].name = request[c].name /\ answer'[c] = records[i].tid
              /\ answer'[c] # Unknown
<1> USE Descriptors
<1>1. request[c] # None /\ request'[c] # request[c] /\ DOMAIN request = Clients
      /\ DOMAIN answer = Clients
  BY DEF Requests, None, NsInv, RequestsExact
<1>2. CASE WhoisKnown
  <2>1. PICK i : i = ns_find(Asked.name)
    OBVIOUS
  <2>2. PICK d \in Clients : d = serving.ix
    BY <1>2, Served DEF WhoisKnown, Whois
  <2>3. serving = TidOf(d) /\ CanReply(serving) /\ mode[d] = "received"
    BY <1>2, <2>2, Served DEF WhoisKnown, Whois
  <2>4. ns_reply(TidOf(d), records[i].tid) /\ records[i].tid # Unknown /\ i # 0
    BY <1>2, <2>1, <2>3 DEF WhoisKnown
  <2>5. /\ request' = [request EXCEPT ![d] = None]
        /\ answer' = [answer EXCEPT ![d] = records[i].tid]
    BY <2>3, <2>4, ReplyFacts
  <2>6. c = d
    BY <1>1, <2>5
  <2>7. i \in DOMAIN records /\ records[i].name = Asked.name
    BY <2>1, <2>4, FindFacts, RecordTypes DEF NsInv
  <2> QED BY <1>1, <2>2, <2>4, <2>5, <2>6, <2>7 DEF Asked
<1>3. CASE NotifyWaiter
  <2>1. PICK n \in 1 .. Len(records), d \in Clients :
           /\ mode[d] = "received"
           /\ request[d] = [type |-> "whois", name |-> records[n].name]
           /\ records[n].tid # Unknown
           /\ ns_reply(TidOf(d), records[n].tid)
    BY <1>3, TopOfStack
  <2>2. /\ request' = [request EXCEPT ![d] = None]
        /\ answer' = [answer EXCEPT ![d] = records[n].tid]
    BY <2>1, ReplyFacts
  <2>3. c = d
    BY <1>1, <2>2
  <2>4. n \in DOMAIN records
    BY RecordTypes DEF NsInv
  <2> QED BY <1>1, <2>1, <2>2, <2>3, <2>4
\* Who registers did not ask.
<1>4. CASE RegisterNoSpace \/ ns_register
  <2>1. serving # Nobody /\ request[serving.ix].type = "register"
    BY <1>4 DEF RegisterNoSpace, ns_register, Asked
  <2>2. PICK d \in Clients : d = serving.ix
    BY <2>1, Served
  <2>3. serving = TidOf(d) /\ CanReply(serving) /\ mode[d] = "received"
    BY <2>1, <2>2, Served
  <2>4. PICK rply : ns_reply(TidOf(d), rply)
    BY <1>4, <2>3 DEF RegisterNoSpace, ns_register
  <2>5. request' = [request EXCEPT ![d] = None]
    BY <2>3, <2>4, ReplyFacts
  <2>6. c = d
    BY <1>1, <2>5
  <2> QED BY <2>1, <2>2, <2>6
<1>5. CASE NsReceive \/ WhoisNoSpace \/ WhoisUnknown \/ UNCHANGED nsVars
  <2>1. request' = request
    BY <1>5 DEF NsReceive, WhoisNoSpace, WhoisUnknown, clientVars, nsVars
  <2> QED BY <1>1, <2>1
<1>6. CASE \E d \in Clients : ComeAndGo(d)
  <2>1. request' = request
    BY <1>6 DEF ComeAndGo
  <2> QED BY <1>1, <2>1
<1>7. CASE \E d \in Clients : \E req \in Requests : Ask(d, req)
  <2>1. PICK d \in Clients, req \in Requests : request' = [request EXCEPT ![d] = req]
    BY <1>7 DEF Ask
  <2>2. req # None
    BY <2>1 DEF Requests, None
  <2> QED BY <1>1, <2>1, <2>2
<1> QED BY <1>2, <1>3, <1>4, <1>5, <1>6, <1>7 DEF NsNext, ServerStep, Handle

\* A client learns the TID that was entered last for the very name it asked
\* for, whether it came before the registration or after it (ns_whois, and the
\* loop of ns_register).
THEOREM WhoIsRight ==
    ASSUME EnoughNodes
    PROVE  NsSpec => WhoIsAnswersLast
<1>1. NsInv /\ [NsNext]_nsVars =>
      [\A c \in Clients :
          request[c] \in Requests /\ request[c].type = "whois" /\ request'[c] = None =>
          \E i \in DOMAIN records :
              records[i].name = request[c].name /\ answer'[c] = records[i].tid
              /\ answer'[c] # Unknown]_nsVars
  BY OnlyWhoisAnswers
<1> QED BY <1>1, NsInvHolds, PTL DEF NsSpec, WhoIsAnswersLast
=============================================================================
