----------------------------- MODULE ThreadStore -----------------------------
(***************************************************************************)
(* The messages of the conversations in SQLite                             *)
(* (cc-agent/src/thread/sqlite_store.rs).  The table "messages" is kept as *)
(* the messages of each thread in rowid order: every query names its       *)
(* thread, so the order between threads is never seen.  message_id is the  *)
(* primary key of the whole table, not of one thread.  cached_context is   *)
(* the materialised context of a thread, or NoCache.  Root threads only: a *)
(* context has no ancestors.  Each operation below is one transaction; the *)
(* callers' actions say which ones follow each other.                      *)
(***************************************************************************)
EXTENDS Naturals, FiniteSets, Sequences, SequencesExt, Selection

CONSTANT Threads

VARIABLES
    rows,  \* the messages of each thread in the table "messages", by id
    cache  \* cached_context of each thread

\* cached_context IS NULL.  Only a context that is not empty is ever cached.
NoCache == <<>>

StoreTypeOK ==
    /\ rows \in [Threads -> Seq(Nat)]
    /\ cache \in [Threads -> Seq(Nat)]

Ids(s) == {s[i] : i \in 1..Len(s)}

\* load_messages: the messages of a thread in rowid order.
Stored(rs, t) == rs[t]

\* The messages that INSERT OR IGNORE takes: no row has their id, not even one
\* that the same transaction inserted before.
Taken(rs, ids) ==
    {i \in 1..Len(ids) :
       /\ \A u \in Threads : ids[i] \notin Ids(rs[u])
       /\ \A j \in 1..(i - 1) : ids[j] # ids[i]}

\* append_messages: one transaction.
AppendMessages(rs, t, ids) ==
    [rs EXCEPT ![t] = @ \o Picked(ids, Taken(rs, ids))]

\* The transaction of delete_messages; the cache is cleared after it.
DeleteMessages(rs, t, ids) ==
    [rs EXCEPT ![t] = Picked(@, {i \in 1..Len(rs[t]) : rs[t][i] \notin ids})]

\* Mutant: the cursor row itself is read again.
MutAfterCursor(own, cached) ==
    IF \E i \in 1..Len(own) : own[i] = Last(cached)
    THEN SubSeq(own, CHOOSE i \in 1..Len(own) : own[i] = Last(cached), Len(own))
    ELSE own

\* The rows behind the last cached message, all of them if it has no row.
AfterCursor(own, cached) ==
    IF \E i \in 1..Len(own) : own[i] = Last(cached)
    THEN SubSeq(own, 1 + CHOOSE i \in 1..Len(own) : own[i] = Last(cached),
                Len(own))
    ELSE own

\* load_context: what a restart would read.
LoadContext(rs, cached, t) ==
    IF cached = NoCache THEN Stored(rs, t)
    ELSE cached \o AfterCursor(Stored(rs, t), cached)
=============================================================================
