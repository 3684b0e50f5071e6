---------------------------- MODULE SessionQueue ----------------------------
(***************************************************************************)
(* The per-session FIFO of crates/anyclaw-agents/src/session_queue.rs: one *)
(* queue of messages per session key, and the set of the keys that have a  *)
(* prompt at the agent.  A queue value sq is a record with the fields      *)
(*                                                                         *)
(*    queues   session key -> sequence of waiting messages                 *)
(*    active   the session keys that are being prompted                    *)
(*                                                                         *)
(* The methods of the struct are operators from a queue value to the next  *)
(* one; a method that also returns messages has a second operator for what *)
(* it returns.  A HashMap entry that is absent and an empty VecDeque are   *)
(* both the empty sequence: no method tells them apart.                    *)
(***************************************************************************)
EXTENDS Naturals, Sequences

CONSTANT Keys           \* the session keys the channels use

ASSUME KeysAssumption == Keys # {}

NewQueue == [queues |-> [k \in Keys |-> <<>>], active |-> {}]

IsActive(sq, k) == k \in sq.active

(* sq with another queue for k.                                            *)
WithQueue(sq, k, q) ==
    [queues |-> [sq.queues EXCEPT ![k] = q], active |-> sq.active]

(* Mutant of Push: the message overtakes the ones that wait.               *)
PushFront(sq, k, m) ==
    IF IsActive(sq, k)
    THEN WithQueue(sq, k, <<m>> \o sq.queues[k])
    ELSE [queues |-> sq.queues, active |-> sq.active \cup {k}]

(* push: waits behind the running prompt, or becomes the running prompt.   *)
Push(sq, k, m) ==
    IF IsActive(sq, k)
    THEN WithQueue(sq, k, Append(sq.queues[k], m))
    ELSE [queues |-> sq.queues, active |-> sq.active \cup {k}]

(* push_only: waits, whether or not a prompt is running.                   *)
PushOnly(sq, k, m) == WithQueue(sq, k, Append(sq.queues[k], m))

(* Mutants of MarkIdle: the session leaves the active set although more    *)
(* messages wait; the session never leaves it.                             *)
MarkIdleTooEarly(sq, k) ==
    [queues |-> IF sq.queues[k] # <<>>
                THEN [sq.queues EXCEPT ![k] = Tail(@)] ELSE sq.queues,
     active |-> sq.active \ {k}]

MarkIdleNever(sq, k) ==
    IF sq.queues[k] # <<>>
    THEN WithQueue(sq, k, Tail(sq.queues[k]))
    ELSE sq

(* mark_idle: hands out the oldest waiting message, if there is one, and   *)
(* only otherwise takes the session out of the active set.                 *)
MarkIdle(sq, k) ==
    IF sq.queues[k] # <<>>
    THEN WithQueue(sq, k, Tail(sq.queues[k]))
    ELSE [queues |-> sq.queues, active |-> sq.active \ {k}]

MarkIdleReturns(sq, k) ==
    IF sq.queues[k] # <<>> THEN <<Head(sq.queues[k])>> ELSE <<>>

(* flush_pending: turns the whole queue of an idle session into one prompt.*)
FlushPending(sq, k) ==
    IF IsActive(sq, k) \/ sq.queues[k] = <<>>
    THEN sq
    ELSE [queues |-> [sq.queues EXCEPT ![k] = <<>>],
          active |-> sq.active \cup {k}]

FlushPendingReturns(sq, k) ==
    IF IsActive(sq, k) THEN <<>> ELSE sq.queues[k]

(* Mutant of DrainQueued: the messages are copied out, not taken.          *)
DrainQueuedCopies(sq, k) == WithQueue(sq, k, sq.queues[k])

(* drain_queued: takes every waiting message, whatever the session does.   *)
DrainQueued(sq, k) == WithQueue(sq, k, <<>>)

DrainQueuedReturns(sq, k) == sq.queues[k]

=============================================================================
