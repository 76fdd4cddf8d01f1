--------------------------- MODULE MessagePassing ---------------------------
(***************************************************************************)
(* What Send, Receive and Reply promise to tasks that all run at once: no   *)
(* scheduler, no queue but one inbox for each task.  A message is received  *)
(* by the incarnation of the task it was sent to, in the order of sending,  *)
(* once, and its sender runs on only when somebody has answered it.         *)
(***************************************************************************)
EXTENDS Integers, SequencesExt

CONSTANTS Task,         \* descriptors
          FirstTasks,   \* the tasks of the beginning
          Incarnations  \* how many incarnations of a task TIDs tell apart

VARIABLES mode,         \* what a task is doing, "dead" if there is none
          incarnation,  \* the descriptor's present or next one
          inbox,        \* the senders that wait to be received
          waits_for     \* the TID to which an unanswered message was sent

mpVars == <<mode, incarnation, inbox, waits_for>>

Nobody    == [ix |-> -1, seq |-> 0]
TidOf(t)  == [ix |-> t, seq |-> incarnation[t]]
Alive(t)  == mode[t] # "dead"

MpInit ==
    /\ mode = [t \in Task |-> IF t \in FirstTasks THEN "running" ELSE "dead"]
    /\ incarnation = [t \in Task |-> 0]
    /\ inbox = [t \in Task |-> <<>>]
    /\ waits_for = [t \in Task |-> Nobody]

Born(t) ==
    /\ ~Alive(t)
    /\ mode' = [mode EXCEPT ![t] = "running"]
    /\ UNCHANGED <<incarnation, inbox, waits_for>>

\* Who is in the inbox of a task that dies waits for ever.
Dies(t) ==
    /\ mode[t] = "running"
    /\ mode' = [mode EXCEPT ![t] = "dead"]
    /\ incarnation' = [incarnation EXCEPT ![t] = (@ + 1) % Incarnations]
    /\ inbox' = [inbox EXCEPT ![t] = <<>>]
    /\ UNCHANGED waits_for

\* s sends to r, which is in Receive.
SendsToReceiver(s, r) ==
    /\ mode[s] = "running"
    /\ mode[r] = "receiving"
    /\ mode' = [mode EXCEPT ![s] = "received", ![r] = "running"]
    /\ waits_for' = [waits_for EXCEPT ![s] = TidOf(r)]
    /\ UNCHANGED <<incarnation, inbox>>

SendsToInbox(s, r) ==
    /\ mode[s] = "running"
    /\ mode[r] \notin {"dead", "receiving"}
    /\ mode' = [mode EXCEPT ![s] = "sending"]
    /\ inbox' = [inbox EXCEPT ![r] = Append(@, s)]
    /\ waits_for' = [waits_for EXCEPT ![s] = TidOf(r)]
    /\ UNCHANGED incarnation

\* r receives its oldest message.
ReceivesMessage(r) ==
    /\ mode[r] = "running"
    /\ inbox[r] # <<>>
    /\ mode' = [mode EXCEPT ![Head(inbox[r])] = "received"]
    /\ inbox' = [inbox EXCEPT ![r] = Tail(@)]
    /\ UNCHANGED <<incarnation, waits_for>>

WaitsForMessage(r) ==
    /\ mode[r] = "running"
    /\ inbox[r] = <<>>
    /\ mode' = [mode EXCEPT ![r] = "receiving"]
    /\ UNCHANGED <<incarnation, inbox, waits_for>>

\* Some running task, not always the one that received it, answers s.
IsAnswered(s) ==
    /\ mode[s] = "received"
    /\ \E t \in Task : mode[t] = "running"
    /\ mode' = [mode EXCEPT ![s] = "running"]
    /\ waits_for' = [waits_for EXCEPT ![s] = Nobody]
    /\ UNCHANGED <<incarnation, inbox>>

MpNext ==
    \E t \in Task :
        \/ Born(t) \/ Dies(t)
        \/ ReceivesMessage(t) \/ WaitsForMessage(t) \/ IsAnswered(t)
        \/ \E r \in Task : SendsToReceiver(t, r) \/ SendsToInbox(t, r)

MpSpec == MpInit /\ [][MpNext]_mpVars
=============================================================================
