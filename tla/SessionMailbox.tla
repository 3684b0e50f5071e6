--------------------------- MODULE SessionMailbox ----------------------------
(***************************************************************************)
(* What the agents manager promises a channel, with the agent process, the *)
(* session maps and every queue but one abstracted away: a session serves  *)
(* one batch of messages at a time; a message that arrives meanwhile       *)
(* waits; when the batch is complete everything that waits is the next     *)
(* batch.  Nothing is lost, reordered or served twice, and every batch     *)
(* completes.                                                              *)
(***************************************************************************)
EXTENDS Naturals, Sequences

CONSTANTS Keys, MaxMsgs

VARIABLES
    waiting,   \* session key -> messages that wait, oldest first
    busy,      \* the sessions that serve a batch
    newest,    \* session key -> newest message ever given to the agent
    next       \* number of the next message

mvars == <<waiting, busy, newest, next>>

Init ==
    /\ waiting = [k \in Keys |-> <<>>]
    /\ busy = {}
    /\ newest = [k \in Keys |-> 0]
    /\ next = 1

Accept(k) ==
    /\ next <= MaxMsgs
    /\ next' = next + 1
    /\ IF k \in busy
       THEN /\ waiting' = [waiting EXCEPT ![k] = Append(@, next)]
            /\ UNCHANGED <<busy, newest>>
       ELSE /\ busy' = busy \cup {k}
            /\ newest' = [newest EXCEPT ![k] = next]
            /\ UNCHANGED waiting

Complete(k) ==
    /\ k \in busy
    /\ IF waiting[k] = <<>>
       THEN /\ busy' = busy \ {k}
            /\ UNCHANGED <<waiting, newest>>
       ELSE /\ newest' = [newest EXCEPT ![k] = waiting[k][Len(waiting[k])]]
            /\ waiting' = [waiting EXCEPT ![k] = <<>>]
            /\ UNCHANGED busy
    /\ UNCHANGED next

Next == \E k \in Keys : Accept(k) \/ Complete(k)

Spec == Init /\ [][Next]_mvars /\ \A k \in Keys : WF_mvars(Complete(k))
=============================================================================
