--------------------------- MODULE ChannelHarness ---------------------------
(***************************************************************************)
(* One channel process: the JSON-RPC harness of crates/anyclaw-sdk-channel *)
(* driving the debug-http channel of ext/channels/debug-http, and the two  *)
(* pipes that connect it with the channels manager.                        *)
(*                                                                         *)
(* A permission request is known by its ticket, its number in the order in *)
(* which the agents asked; RidOf gives the request_id that the code sends  *)
(* along, which is not unique.  An answer of the user is the ticket of the *)
(* prompt it was given to; which option was chosen plays no part.          *)
(***************************************************************************)
EXTENDS Integers, Sequences, FiniteSets

CONSTANTS
    MaxAsks,    \* bound: permission requests of all agents together
    PermCap     \* capacity of the permission channel of the harness

Tickets == 1 .. MaxAsks
Rids    == 1 .. MaxAsks

ASSUME HarnessAssumption ==
    {MaxAsks, PermCap} \subseteq Nat \ {0}

VARIABLES
    ridOf,       \* the request_id of each ticket, 0 before it was asked
    proc,        \* the process: "serving", "draining", "down"
    stdin,       \* lines written to the process and not read yet
    stdinOpen,   \* the writer task holds the other end of stdin
    stdout,      \* lines of the process that the reader has not read yet
    hpending,    \* harness: request_id -> JSON-RPC id, 0 when absent
    prompts,     \* debug-http: the list behind /permissions/pending
    broker,      \* debug-http: request ids registered with the broker
    permQ        \* answers on their way from the HTTP handler to the harness

procVars    == <<proc, hpending, prompts, broker, permQ>>
harnessVars == <<ridOf, procVars, stdin, stdinOpen, stdout>>

(* The lines that cross the pipes.                                         *)
PermissionLine(jid, t) == [method |-> "requestPermission", id |-> jid, tkt |-> t]
DeliverLine            == [method |-> "deliverMessage", id |-> 0, tkt |-> 0]
ResponseLine(jid, t)   == [method |-> "response", id |-> jid, tkt |-> t]

None == [r \in Rids |-> 0]

(* PermissionBroker: register and resolve.  debug-http drops the receivers *)
(* that register returns, so nothing depends on what resolve does.         *)
Register(b, r) == b \cup {r}
Resolve(b, r)  == b \ {r}

(* on_ready makes a fresh SharedState and binds the HTTP server; nothing   *)
(* of an earlier process is left.                                          *)
HarnessInit ==
    /\ ridOf = [t \in Tickets |-> 0]
    /\ proc = "serving" /\ stdin = <<>> /\ stdinOpen = TRUE /\ stdout = <<>>
    /\ hpending = None /\ prompts = {} /\ broker = {}
    /\ permQ = <<>>

FreshProcess ==
    /\ proc' = "serving" /\ stdin' = <<>> /\ stdinOpen' = TRUE /\ stdout' = <<>>
    /\ hpending' = None /\ prompts' = {} /\ broker' = {}
    /\ permQ' = <<>>

(* What an ended process leaves: the lines it wrote can still be read.     *)
Ends ==
    /\ proc' = "down"
    /\ hpending' = None /\ prompts' = {} /\ broker' = {}
    /\ permQ' = <<>>

-----------------------------------------------------------------------------
(* The main loop of the harness.                                           *)

(* channel/requestPermission: the JSON-RPC id is kept under the request_id *)
(* (a later request with the same one replaces it), the prompt is added to *)
(* the list and registered.  No response is written yet.                   *)
ReadPermission ==
    /\ proc = "serving" /\ stdin # <<>> /\ Head(stdin).method = "requestPermission"
    /\ LET t == Head(stdin).tkt IN
       /\ hpending' = [hpending EXCEPT ![ridOf[t]] = Head(stdin).id]
       /\ prompts' = prompts \cup {t}
       /\ broker' = Register(broker, ridOf[t])
    /\ stdin' = Tail(stdin)
    /\ UNCHANGED <<ridOf, proc, stdinOpen, stdout, permQ>>

(* Mutant of ReadDeliver: show_permission_prompt waits for the user, so    *)
(* nothing is read while a permission is pending.                          *)
ReadDeliverAfterAnswer ==
    /\ proc = "serving" /\ stdin # <<>> /\ Head(stdin).method = "deliverMessage"
    /\ hpending = None
    /\ stdin' = Tail(stdin)
    /\ UNCHANGED <<ridOf, procVars, stdinOpen, stdout>>

(* channel/deliverMessage: debug-http broadcasts the update.               *)
ReadDeliver ==
    /\ proc = "serving" /\ stdin # <<>> /\ Head(stdin).method = "deliverMessage"
    /\ stdin' = Tail(stdin)
    /\ UNCHANGED <<ridOf, proc, stdinOpen, stdout, hpending, prompts, broker,
                   permQ>>

(* Mutant of FlushPermission: whatever request is pending is answered.     *)
FlushPermissionAny ==
    /\ proc # "down" /\ permQ # <<>>
    /\ \E r \in Rids :
       /\ hpending[r] # 0
       /\ stdout' = Append(stdout, ResponseLine(hpending[r], Head(permQ)))
       /\ hpending' = [hpending EXCEPT ![r] = 0]
    /\ permQ' = Tail(permQ)
    /\ UNCHANGED <<ridOf, proc, stdin, stdinOpen, prompts, broker>>

(* flush_permission: the answer becomes the response to the JSON-RPC       *)
(* request kept under its request_id; without one it is dropped.           *)
FlushPermission ==
    /\ proc # "down" /\ permQ # <<>>
    /\ LET r == ridOf[Head(permQ)] IN
       /\ stdout' = IF hpending[r] # 0
                    THEN Append(stdout, ResponseLine(hpending[r], Head(permQ)))
                    ELSE stdout
       /\ hpending' = [hpending EXCEPT ![r] = 0]
    /\ permQ' = Tail(permQ)
    /\ UNCHANGED <<ridOf, proc, stdin, stdinOpen, prompts, broker>>

(* EOF on stdin ends the main loop; the process goes on while permissions  *)
(* are pending, because their answers may still be in flight.              *)
StdinEof ==
    /\ proc = "serving" /\ stdin = <<>> /\ ~stdinOpen
    /\ proc' = "draining"
    /\ UNCHANGED <<ridOf, hpending, prompts, broker, permQ, stdin,
                   stdinOpen, stdout>>

DrainEnds ==
    /\ proc = "draining" /\ hpending = None
    /\ Ends
    /\ UNCHANGED <<ridOf, stdin, stdinOpen, stdout>>

Harness ==
    \/ ReadPermission \/ ReadDeliver \/ FlushPermission
    \/ StdinEof \/ DrainEnds

-----------------------------------------------------------------------------
(* The HTTP handlers of debug-http.                                        *)

(* POST /permissions/{id}/respond by a user who looked at prompt t, now or *)
(* earlier: all prompts with that request_id leave the list, and the       *)
(* answer goes to the harness, as soon as there is room.                   *)
PermissionRespond(t) ==
    /\ proc # "down" /\ ridOf[t] # 0
    /\ Len(permQ) < PermCap
    /\ prompts' = {p \in prompts : ridOf[p] # ridOf[t]}
    /\ broker' = Resolve(broker, ridOf[t])
    /\ permQ' = Append(permQ, t)
    /\ UNCHANGED <<ridOf, proc, stdin, stdinOpen, stdout, hpending>>

-----------------------------------------------------------------------------
(* The process dies of its own accord.                                     *)
ProcessDies ==
    /\ proc # "down"
    /\ Ends
    /\ UNCHANGED <<ridOf, stdin, stdinOpen, stdout>>

HarnessType ==
    /\ ridOf \in [Tickets -> 0 .. MaxAsks]
    /\ proc \in {"serving", "draining", "down"}
    /\ stdinOpen \in BOOLEAN
    /\ \A i \in DOMAIN stdin : stdin[i].tkt \in 0 .. MaxAsks
    /\ \A i \in DOMAIN stdout : stdout[i].tkt \in 0 .. MaxAsks
    /\ hpending \in [Rids -> Nat]
    /\ prompts \subseteq Tickets /\ broker \subseteq Rids
    /\ Len(permQ) <= PermCap /\ \A i \in DOMAIN permQ : permQ[i] \in Tickets
=============================================================================
