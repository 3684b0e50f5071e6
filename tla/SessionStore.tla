----------------------------- MODULE SessionStore -----------------------------
(***************************************************************************)
(* The sessions that outlive the program                                   *)
(* (crates/anyclaw-core/src/sqlite_session_store.rs, session_store.rs),    *)
(* the choice of the store (crates/anyclaw-supervisor/src/factory.rs) and  *)
(* what AgentsManager::start makes of it.                                  *)
(*                                                                         *)
(* The table is a function from conversations to rows.  A store is a       *)
(* record: kind is "file", "memory" or "noop", table what it holds.  Times *)
(* are in days, the unit of ttl_days.                                      *)
(***************************************************************************)
EXTENDS ContentParts, FiniteSets

-----------------------------------------------------------------------------
(* SqliteSessionStore.  A statement that fails leaves the table alone; the   *)
(* callers log it.                                                          *)

EmptyTable == <<>>

\* Mutant of UpsertSession: INSERT OR IGNORE.
UpsertSessionIgnore(table, row) == IF row.session_key \in DOMAIN table THEN table ELSE Replaced(table, row.session_key, row)
\* INSERT OR REPLACE on the primary key.
UpsertSession(table, row) == Replaced(table, row.session_key, row)

MarkClosed(table, key) == IF key \in DOMAIN table THEN [table EXCEPT ![key].closed = TRUE] ELSE table

UpdateLastActive(table, key, t) ==
    IF key \in DOMAIN table THEN [table EXCEPT ![key].last_active_at = t] ELSE table

\* A closed session is deleted by its age as well.
DeleteExpired(table, now, maxAge) ==
    [k \in {k \in DOMAIN table : ~(table[k].last_active_at < now - maxAge)} |-> table[k]]

LoadOpenSessions(table) == {table[k] : k \in {k \in DOMAIN table : ~table[k].closed}}

-----------------------------------------------------------------------------
(* The store of a run of the program *)

\* build_stores: a database that cannot be opened is replaced by the store that
\* keeps nothing.  A file holds what an earlier run left in it.
BuildStores(config, opens, file) ==
    IF config.type = "none" \/ ~opens THEN [kind |-> "noop", table |-> EmptyTable]
    ELSE IF config.path = {} THEN [kind |-> "memory", table |-> EmptyTable]
    ELSE [kind |-> "file", table |-> file]

\* create_manager: the age after which sessions are dropped.
SessionTtl(config) == IF config.type = "sqlite" THEN config.ttl_days ELSE 7

\* create_session and update_session_store: a new row, both times the present.
Persist(store, row, succeeds) ==
    IF store.kind = "noop" \/ ~succeeds THEN store
    ELSE [store EXCEPT !.table = UpsertSession(@, row)]
NewRow(key, agent, acp, now) ==
    [session_key |-> key, agent_name |-> agent, acp_session_id |-> acp,
     created_at |-> now, last_active_at |-> now, closed |-> FALSE]

\* start(): expired rows go, the open ones become the stale sessions of the slot
\* of their agent; those of an agent that has no slot are left alone.
StartStore(store, now, ttl) == [store EXCEPT !.table = DeleteExpired(@, now, ttl)]
StaleSessions(store, slots) ==
    {r \in LoadOpenSessions(store.table) : r.agent_name \in slots}

-----------------------------------------------------------------------------
(* A history: conversations are opened and recovered, days pass, the         *)
(* managers restart (the store stays) and so does the program.              *)

\* disk: the file while no store has it open.  sessions: for each conversation the
\* last row that was written; used: the day of its last prompt, of which the code
\* writes nothing: update_last_active and mark_closed have no caller.
Start(config) ==
    [store |-> BuildStores(config, TRUE, EmptyTable), disk |-> EmptyTable, now |-> 0, next |-> 1,
     stale |-> {}, sessions |-> <<>>, used |-> <<>>]
\* What the file of the database holds.
OnDisk(h) == IF h.store.kind = "file" THEN h.store.table ELSE h.disk

Step(config, h, op) ==
    CASE op.op = "day"    -> [h EXCEPT !.now = @ + 1]
      [] op.op = "create" ->
            LET row == NewRow(op.key, op.agent, h.next, h.now)
            IN  [h EXCEPT !.store = Persist(@, row, op.ok), !.next = @ + 1,
                          !.used = Replaced(@, op.key, h.now),
                          !.sessions = IF op.ok /\ h.store.kind = "file" THEN Replaced(@, op.key, row) ELSE @]
      [] op.op = "prompt" -> [h EXCEPT !.used = Replaced(@, op.key, h.now)]
      [] op.op = "restart manager" ->
            LET s == StartStore(h.store, h.now, SessionTtl(config))
            IN  [h EXCEPT !.store = s, !.stale = StaleSessions(s, op.slots)]
      [] op.op = "restart program" ->
            LET s == StartStore(BuildStores(config, op.ok, OnDisk(h)), h.now, SessionTtl(config))
            IN  [h EXCEPT !.store = s, !.disk = OnDisk(h), !.stale = StaleSessions(s, op.slots)]

After(config, ops) ==
    LET h[n \in 0..Len(ops)] == IF n = 0 THEN Start(config) ELSE Step(config, h[n - 1], ops[n])
    IN  h[Len(ops)]
=============================================================================
