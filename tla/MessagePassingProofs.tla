------------------------ MODULE MessagePassingProofs ------------------------
(***************************************************************************)
(* What clients of one server may rely on, as lemmas for the proofs about   *)
(* the name server and the clock server.                                    *)
(***************************************************************************)
EXTENDS MessagePassing, SequenceTheorems, TLAPS

\* Everybody sends to server s alone, and is in its inbox once while sending.
InboxExact(s) ==
    /\ mode \in [Task -> {"dead", "running", "receiving", "sending", "received"}]
    /\ DOMAIN incarnation = Task
    /\ DOMAIN inbox = Task
    /\ inbox[s] \in Seq(Task)
    /\ \A i, j \in 1 .. Len(inbox[s]) : inbox[s][i] = inbox[s][j] => i = j
    /\ \A i \in 1 .. Len(inbox[s]) :
          inbox[s][i] # s /\ mode[inbox[s][i]] = "sending"
    /\ \A t \in Task \ {s} : mode[t] # "receiving"
    /\ mode[s] \in {"running", "receiving"}

\* A message to the server
LEMMA SendKeepsInbox ==
    ASSUME NEW s \in Task, InboxExact(s), NEW t \in Task \ {s},
           SendsToReceiver(t, s) \/ SendsToInbox(t, s)
    PROVE  InboxExact(s)'
<1>1. CASE SendsToReceiver(t, s)
  BY <1>1 DEF SendsToReceiver, InboxExact
<1>2. CASE SendsToInbox(t, s)
  <2>1. /\ mode' = [mode EXCEPT ![t] = "sending"] /\ mode[t] = "running"
        /\ inbox' = [inbox EXCEPT ![s] = Append(inbox[s], t)]
        /\ incarnation' = incarnation
    BY <1>2 DEF SendsToInbox
  <2> DEFINE q == inbox[s]
  <2>2. q \in Seq(Task) /\ inbox'[s] = Append(q, t) /\ DOMAIN inbox' = Task
    BY <2>1 DEF InboxExact
  <2>3. /\ Append(q, t) \in Seq(Task) /\ Len(Append(q, t)) = Len(q) + 1 /\ Len(q) \in Nat
        /\ \A i \in 1 .. Len(q) : Append(q, t)[i] = q[i]
        /\ Append(q, t)[Len(q) + 1] = t
    BY <2>2
  <2>4. \A i \in 1 .. Len(q) : q[i] # t /\ q[i] # s /\ q[i] \in Task /\ mode[q[i]] = "sending"
    BY <2>1, <2>2 DEF InboxExact
  <2>5. \A i, j \in 1 .. Len(q) : q[i] = q[j] => i = j
    BY DEF InboxExact
  <2> HIDE DEF q
  <2>6. \A i, j \in 1 .. Len(q) + 1 : Append(q, t)[i] = Append(q, t)[j] => i = j
    BY <2>3, <2>4, <2>5
  <2>7. /\ mode' \in [Task -> {"dead", "running", "receiving", "sending", "received"}]
        /\ \A u \in Task \ {s} : mode'[u] # "receiving"
        /\ mode'[s] = mode[s] /\ mode[s] \in {"running", "receiving"}
        /\ \A u \in Task : u # t => mode'[u] = mode[u]
        /\ mode'[t] = "sending" /\ DOMAIN incarnation' = Task
    BY <2>1 DEF InboxExact
  <2>8. \A i \in 1 .. Len(q) + 1 :
           Append(q, t)[i] # s /\ mode'[Append(q, t)[i]] = "sending"
    BY <2>3, <2>4, <2>7
  <2> QED BY <2>1, <2>2, <2>3, <2>6, <2>7, <2>8 DEF InboxExact
<1> QED BY <1>1, <1>2

\* The server receives a message.
LEMMA ReceiveKeepsInbox ==
    ASSUME NEW s \in Task, InboxExact(s), ReceivesMessage(s)
    PROVE  /\ InboxExact(s)'
           /\ Head(inbox[s]) \in Task \ {s} /\ mode[Head(inbox[s])] = "sending"
           /\ mode' = [mode EXCEPT ![Head(inbox[s])] = "received"]
           /\ incarnation' = incarnation
<1> DEFINE q == inbox[s]
           h == Head(q)
<1>1. /\ s \in Task /\ q \in Seq(Task) /\ q # << >>
      /\ mode' = [mode EXCEPT ![h] = "received"]
      /\ inbox' = [inbox EXCEPT ![s] = Tail(q)]
      /\ incarnation' = incarnation
  BY DEF InboxExact, ReceivesMessage
<1>2. /\ h = q[1] /\ Len(q) \in Nat \ {0} /\ 1 \in 1 .. Len(q)
      /\ Tail(q) \in Seq(Task) /\ Len(Tail(q)) = Len(q) - 1
      /\ \A i \in 1 .. Len(q) - 1 : Tail(q)[i] = q[i + 1] /\ i + 1 \in 1 .. Len(q) /\ i + 1 # 1
  BY <1>1
<1>3. /\ \A i, j \in 1 .. Len(q) : q[i] = q[j] => i = j
      /\ \A i \in 1 .. Len(q) : q[i] # s /\ mode[q[i]] = "sending" /\ q[i] \in Task
  BY <1>1 DEF InboxExact
<1>4. inbox'[s] = Tail(q) /\ DOMAIN inbox' = Task
  BY <1>1 DEF InboxExact
<1>5. h \in Task \ {s} /\ mode[h] = "sending"
  BY <1>2, <1>3
<1> HIDE DEF h, q
<1>6. /\ mode' \in [Task -> {"dead", "running", "receiving", "sending", "received"}]
      /\ \A u \in Task \ {s} : mode'[u] # "receiving"
      /\ mode'[s] = mode[s] /\ mode[s] \in {"running", "receiving"}
      /\ \A u \in Task : u # h => mode'[u] = mode[u]
      /\ DOMAIN incarnation' = Task
  BY <1>1, <1>5 DEF InboxExact
<1>7. \A i, j \in 1 .. Len(q) - 1 : Tail(q)[i] = Tail(q)[j] => i = j
  <2> SUFFICES ASSUME NEW i \in 1 .. Len(q) - 1, NEW j \in 1 .. Len(q) - 1,
                      Tail(q)[i] = Tail(q)[j]
               PROVE  i = j
    OBVIOUS
  <2>1. i + 1 = j + 1
    BY <1>2, <1>3
  <2> QED BY <2>1
<1>8. \A i \in 1 .. Len(q) - 1 : Tail(q)[i] # s /\ mode'[Tail(q)[i]] = "sending"
  <2> SUFFICES ASSUME NEW i \in 1 .. Len(q) - 1
               PROVE  Tail(q)[i] # s /\ mode'[Tail(q)[i]] = "sending"
    OBVIOUS
  <2>1. i + 1 \in 1 .. Len(q) /\ i + 1 # 1 /\ Tail(q)[i] = q[i + 1]
    BY <1>2
  <2>2. q[i + 1] # h /\ q[i + 1] \in Task /\ mode[q[i + 1]] = "sending" /\ q[i + 1] # s
    BY <1>2, <1>3, <2>1
  <2> QED BY <1>6, <2>1, <2>2
<1> QED BY <1>1, <1>2, <1>4, <1>5, <1>6, <1>7, <1>8 DEF InboxExact, h, q

\* A task outside the inbox changes what it does.
LEMMA ModeKeepsInbox ==
    ASSUME NEW s \in Task, InboxExact(s), NEW t \in Task, NEW m \in {"dead", "running", "received"},
           mode' = [mode EXCEPT ![t] = m], mode[t] # "sending",
           t = s => m = "running",
           DOMAIN incarnation' = Task, DOMAIN inbox' = Task, inbox'[s] = inbox[s]
    PROVE  InboxExact(s)'
BY DEF InboxExact
=============================================================================
