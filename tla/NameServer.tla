----------------------------- MODULE NameServer -----------------------------
(***************************************************************************)
(* The name server of ns.c and its clients, tasks that exchange messages as *)
(* in MessagePassing.  The server takes one request at a time; a step of it *)
(* ends with each call of the kernel, and in between the clients run, exit  *)
(* and are born again.                                                      *)
(***************************************************************************)
EXTENDS MessagePassing

CONSTANTS Ns,         \* the descriptor of the server, NS_TID
          Mortal,     \* bound: the clients that die and are born again
          Names,
          MaxNames,   \* MAX_NAMES
          MaxNodes    \* the length of nsdb.wait, MAX_TASKS

Clients == Task \ {Ns}
ASSUME NsAssumption == /\ Ns \in FirstTasks /\ FirstTasks \subseteq Task /\ Task \subseteq Nat
                       /\ MaxNames \in Nat /\ MaxNodes \in Nat /\ Incarnations \in Nat \ {0}

VARIABLES request,    \* what a client asked and has no answer to
          answer,     \* the answer to its last call
          serving,    \* the TID of the client whose request is handled
          records,    \* nsdb.records[0 .. count - 1]
          free_nodes, \* how many nodes are on nsdb.wait_free
          notifying,  \* the record whose waiting tasks are being answered, or 0
          failed      \* an assert of the server has failed

dbVars     == <<records, free_nodes, notifying, failed>>
clientVars == <<request, answer>>
nsVars     == <<mpVars, clientVars, serving, dbVars>>

None == [type |-> "none"]
Requests == [type : {"register", "whois"}, name : Names]
Unknown  == Nobody          \* NS_TID_UNKNOWN is the TID -1
NoSpace  == [ix |-> -3, seq |-> 0]
Success  == [ix |-> 0, seq |-> 0]
NoAnswer == [ix |-> -2, seq |-> 0]

NsInit ==
    /\ MpInit
    /\ request = [c \in Clients |-> None]
    /\ answer = [c \in Clients |-> NoAnswer]
    /\ serving = Nobody
    /\ records = <<>>
    /\ free_nodes = MaxNodes
    /\ notifying = 0
    /\ failed = FALSE

-----------------------------------------------------------------------------
(* Clients: RegisterAs and WhoIs are a Send that waits for its answer. *)

Ask(c, req) ==
    /\ \/ SendsToReceiver(c, Ns) /\ serving' = TidOf(c)
       \/ SendsToInbox(c, Ns) /\ UNCHANGED serving
    /\ request' = [request EXCEPT ![c] = req]
    /\ answer' = [answer EXCEPT ![c] = NoAnswer]
    /\ UNCHANGED dbVars

\* A task dies, or is created with the descriptor of a dead one.
ComeAndGo(c) ==
    /\ c \in Mortal
    /\ Born(c) \/ Dies(c)
    /\ answer' = [answer EXCEPT ![c] = NoAnswer]
    /\ UNCHANGED <<request, serving, dbVars>>

-----------------------------------------------------------------------------
(* The server *)

Idle == serving = Nobody /\ notifying = 0 /\ ~failed

\* Receive
NsReceive ==
    /\ Idle
    /\ \/ ReceivesMessage(Ns) /\ serving' = TidOf(Head(inbox[Ns]))
       \/ WaitsForMessage(Ns) /\ UNCHANGED serving
    /\ UNCHANGED <<clientVars, dbVars>>

\* ns_reply: Reply returns 0, or the assert on its result fails.
CanReply(tid) == Alive(tid.ix) /\ TidOf(tid.ix) = tid /\ mode[tid.ix] = "received"

ns_reply(tid, rply) ==
    /\ IsAnswered(tid.ix)
    /\ request' = [request EXCEPT ![tid.ix] = None]
    /\ answer' = [answer EXCEPT ![tid.ix] = rply]
    /\ UNCHANGED failed

AssertFails == failed' = TRUE /\ UNCHANGED <<mpVars, clientVars>>

Asked == request[serving.ix]

\* Mutant: the comparison of the names is missing.
ns_findFirst(name) == IF records = <<>> THEN 0 ELSE 1

\* ns_find: the record of the name, or 0
ns_find(name) == LET I == {i \in DOMAIN records : records[i].name = name}
                 IN  IF I = {} THEN 0 ELSE CHOOSE i \in I : TRUE

Full == Len(records) = MaxNames

\* ns_register when there is no record and no room for one
RegisterNoSpace ==
    /\ serving # Nobody /\ Asked.type = "register"
    /\ ns_find(Asked.name) = 0 /\ Full
    /\ IF CanReply(serving) THEN ns_reply(serving, NoSpace) ELSE AssertFails
    /\ serving' = Nobody
    /\ UNCHANGED <<records, free_nodes, notifying>>

\* The records once tid is entered in record i, or in a new one
Entered(i, tid) ==
    IF i # 0 THEN [records EXCEPT ![i].tid = tid]
    ELSE Append(records, [name |-> Asked.name, tid |-> tid, waitq |-> <<>>])

\* Mutant: the tasks that wait for the name are not answered.
ns_registerForgets ==
    LET i == ns_find(Asked.name) IN
    /\ serving # Nobody /\ Asked.type = "register"
    /\ i # 0 \/ ~Full
    /\ records' = Entered(i, serving)
    /\ IF CanReply(serving) THEN ns_reply(serving, Success) ELSE AssertFails
    /\ serving' = Nobody
    /\ UNCHANGED <<free_nodes, notifying>>

\* ns_register up to the answer to the task that registers
ns_register ==
    LET i == ns_find(Asked.name) IN
    /\ serving # Nobody /\ Asked.type = "register"
    /\ i # 0 \/ ~Full
    /\ records' = Entered(i, serving)
    /\ IF CanReply(serving) THEN ns_reply(serving, Success) ELSE AssertFails
    /\ serving' = Nobody
    /\ notifying' = IF i # 0 /\ records[i].waitq # <<>> THEN i ELSE 0
    /\ UNCHANGED free_nodes

\* Mutant: the node of an answered task is not freed.
NotifyWaiterLeaks ==
    LET waitq == records[notifying].waitq IN
    /\ notifying # 0 /\ ~failed
    /\ records' = [records EXCEPT ![notifying].waitq = Tail(waitq)]
    /\ notifying' = IF Len(waitq) = 1 THEN 0 ELSE notifying
    /\ IF CanReply(Head(waitq)) THEN ns_reply(Head(waitq), records[notifying].tid)
       ELSE AssertFails
    /\ UNCHANGED <<serving, free_nodes>>

\* One round of the loop in ns_register: the last task to come is the first
\* to be popped.
NotifyWaiter ==
    LET waitq == records[notifying].waitq IN
    /\ notifying # 0 /\ ~failed
    /\ records' = [records EXCEPT ![notifying].waitq = Tail(waitq)]
    /\ free_nodes' = free_nodes + 1
    /\ notifying' = IF Len(waitq) = 1 THEN 0 ELSE notifying
    /\ IF CanReply(Head(waitq)) THEN ns_reply(Head(waitq), records[notifying].tid)
       ELSE AssertFails
    /\ UNCHANGED serving

Whois == serving # Nobody /\ Asked.type = "whois"

\* ns_whois when the table is full: the client is never answered.
WhoisNoSpace ==
    /\ Whois
    /\ ns_find(Asked.name) = 0 /\ Full
    /\ serving' = Nobody
    /\ UNCHANGED <<mpVars, clientVars, dbVars>>

\* ns_whois for a name that is registered
WhoisKnown ==
    LET i == ns_find(Asked.name) IN
    /\ Whois
    /\ i # 0
    /\ records[i].tid # Unknown
    /\ IF CanReply(serving) THEN ns_reply(serving, records[i].tid) ELSE AssertFails
    /\ serving' = Nobody
    /\ UNCHANGED <<records, free_nodes, notifying>>

\* ns_whois for a name that is not: the client joins the record's stack.
WhoisUnknown ==
    LET i == ns_find(Asked.name) IN
    /\ Whois
    /\ i # 0 => records[i].tid = Unknown
    /\ i # 0 \/ ~Full
    /\ IF free_nodes > 0
       THEN /\ records' = IF i # 0
                          THEN [records EXCEPT ![i].waitq = <<serving>> \o @]
                          ELSE Append(records, [name |-> Asked.name, tid |-> Unknown,
                                                waitq |-> <<serving>>])
            /\ free_nodes' = free_nodes - 1
            /\ UNCHANGED failed
       ELSE failed' = TRUE /\ UNCHANGED <<records, free_nodes>>
    /\ serving' = Nobody
    /\ UNCHANGED <<mpVars, clientVars, notifying>>

Handle == /\ ~failed
          /\ \/ RegisterNoSpace \/ ns_register
             \/ WhoisNoSpace \/ WhoisKnown \/ WhoisUnknown

ServerStep == NsReceive \/ Handle \/ NotifyWaiter

NsNext == \/ \E c \in Clients : ComeAndGo(c) \/ \E req \in Requests : Ask(c, req)
          \/ ServerStep

NsSpec == NsInit /\ [][NsNext]_nsVars

\* The server runs on (Kernel!NoStarvation, when no task of a higher priority
\* runs for ever); clients do as they like.
NsFairSpec == NsSpec /\ WF_nsVars(ServerStep)

-----------------------------------------------------------------------------
(* Properties *)

WaitingClients == {c \in Clients : \E i \in DOMAIN records : TidOf(c) \in ToSet(records[i].waitq)}

\* Neither assert of the server fails: a task that waits has a node ("never
\* need more than 1 per task"), and every task that is answered waits for it.
\* For a task is on one stack at most, of the one record of the name it asked for,
\* and blocked until it is answered; the other nodes are free.  Nobody waits
\* for a name that is registered once the server is back at Receive.
WaitersExact ==
    /\ ~failed
    /\ IsInjective([i \in DOMAIN records |-> records[i].name])
    /\ free_nodes + Cardinality(WaitingClients) = MaxNodes
    /\ \A i \in DOMAIN records :
          /\ IsInjective(records[i].waitq)
          /\ \A tid \in ToSet(records[i].waitq) :
                /\ CanReply(tid)
                /\ request[tid.ix] = [type |-> "whois", name |-> records[i].name]
                /\ records[i].tid # Unknown => notifying = i

\* WhoIs returns a TID that was entered for the very name the client asked for
\* and that is still the present one.
WhoIsAnswersLast ==
    [][\A c \in Clients :
          request[c] \in Requests /\ request[c].type = "whois" /\ request'[c] = None =>
          \E i \in DOMAIN records :
              records[i].name = request[c].name /\ answer'[c] = records[i].tid
              /\ answer'[c] # Unknown]_nsVars

Known(name) == \E i \in DOMAIN records :
                  records[i].name = name /\ records[i].tid # Unknown

\* "WhoIs blocks until such a task becomes registered" (ns.h), and no longer,
\* whether the client came before the registration or after it; and RegisterAs
\* returns, however many tasks wait for the name.
CallsReturn ==
    \A c \in Clients, n \in Names, type \in {"whois", "register"} :
        request[c] = [type |-> type, name |-> n] /\ (type = "whois" => Known(n))
            ~> request[c] # [type |-> type, name |-> n]

=============================================================================
