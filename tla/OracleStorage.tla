--------------------------- MODULE OracleStorage ---------------------------
(***************************************************************************)
(* Nonce indexes and oracle events: PostgresStorage (models/mod.rs).  The  *)
(* oracle derives the nonce of an event from its key and an index, which   *)
(* get_next_nonce_indexes takes from a counter in memory; save_announcement*)
(* stores the event with its index later.  At each start the counter is    *)
(* set from the indexes stored, so the index of an event that was not      *)
(* stored is given out again; and a transaction whose answer was lost, or  *)
(* whose process died, may commit when the next life has read the table.   *)
(* Which index a signature uses later is kormir's, and left out.           *)
(***************************************************************************)
EXTENDS Naturals, FiniteSets

CONSTANTS
    Handler, \* handlers that create an event
    NoIndex  \* of a handler that holds none

ASSUME StorageAssumption == NoIndex \notin Nat

VARIABLES
    counter, \* current_index, reset when the process starts
    index,   \* [Handler -> ...]: the index a handler took and has not stored
    events,  \* the rows of events, with the index and the key of the nonce
    orphans, \* rows of transactions in doubt
    late     \* indexes of rows that committed while they were in doubt

storageVars == <<counter, index, events, orphans, late>>

Row(h, k) == [index |-> index[h], key |-> k, by |-> h]

-----------------------------------------------------------------------------

\* Variant: the largest index stored is given out again.
NextIdStale == {n \in {0} \cup {e.index : e \in events} :
                   \A e \in events : e.index <= n}

\* EventNonce::get_next_id: one more than the largest index stored, or zero.
NextId == {n \in {0} \cup {e.index + 1 : e \in events} :
              \A e \in events : e.index < n}

\* PostgresStorage::new.
OpenStorage ==
    /\ counter' \in NextId
    /\ UNCHANGED <<index, events, orphans, late>>

\* get_next_nonce_indexes(1), an atomic fetch_add.
TakeIndex(h) ==
    /\ index[h] = NoIndex
    /\ index' = [index EXCEPT ![h] = counter]
    /\ counter' = counter + 1
    /\ UNCHANGED <<events, orphans, late>>

\* The index is the primary key of event_nonces.
IsNew(row) == \A e \in events : e.index # row.index

\* save_announcement, which the handler sees committed.
Save(h, k) ==
    /\ index[h] # NoIndex
    /\ IsNew(Row(h, k))
    /\ events' = events \cup {Row(h, k)}
    /\ index' = [index EXCEPT ![h] = NoIndex]
    /\ UNCHANGED <<counter, orphans, late>>

\* save_announcement returns an error: a key or the name is taken, the database
\* fails, or its answer to COMMIT is lost.
SaveFails(h, k) ==
    /\ index[h] # NoIndex
    /\ index' = [index EXCEPT ![h] = NoIndex]
    /\ orphans' \in {orphans, orphans \cup {Row(h, k)}}
    /\ UNCHANGED <<counter, events, late>>

\* The handler ends before it calls save_announcement.
GiveUpIndex(h) ==
    /\ index' = [index EXCEPT ![h] = NoIndex]
    /\ UNCHANGED <<counter, events, orphans, late>>

\* A transaction in doubt commits, if no row is in its way.
CommitLate ==
    /\ \E row \in orphans :
          /\ IsNew(row)
          /\ events' = events \cup {row}
          /\ orphans' = orphans \ {row}
          /\ late' = late \cup {row.index}
    /\ UNCHANGED <<counter, index>>

\* The handlers are gone, but for what those in `saving` had sent.
LoseMemory(saving, k) ==
    /\ \E sent \in SUBSET {h \in saving : index[h] # NoIndex} :
          orphans' = orphans \cup {Row(h, k) : h \in sent}
    /\ index' = [h \in Handler |-> NoIndex]
    /\ UNCHANGED <<counter, events, late>>

-----------------------------------------------------------------------------

StorageInit ==
    /\ counter = 0
    /\ index = [h \in Handler |-> NoIndex]
    /\ events = {}
    /\ orphans = {}
    /\ late = {}

\* What a process does with the storage under keys of the set Keys.
\* OpenStorage follows LoseMemory: nobody holds an index of an earlier life.
StorageNext(Keys) ==
    \/ OpenStorage /\ \A h \in Handler : index[h] = NoIndex
    \/ \E h \in Handler : TakeIndex(h) \/ GiveUpIndex(h)
    \/ \E h \in Handler, k \in Keys : Save(h, k) \/ SaveFails(h, k)
    \/ CommitLate
    \/ \E saving \in SUBSET Handler, k \in Keys : LoseMemory(saving, k)

-----------------------------------------------------------------------------
(* Properties.                                                              *)

EventRow(Keys) == [index : Nat, key : Keys, by : Handler]

\* The type of every variable.
StorageTypeOK(Keys) ==
    /\ counter \in Nat
    /\ index \in [Handler -> Nat \cup {NoIndex}]
    /\ events \subseteq EventRow(Keys)
    /\ orphans \subseteq EventRow(Keys)
    /\ late \subseteq Nat

\* The counter never hands out an index that is taken: no two handlers hold the
\* same one, and none holds one of a stored event, unless that event's
\* transaction was in doubt when it committed (get_next_nonce_indexes).
HeldIndexIsFree ==
    \A h \in Handler :
        index[h] # NoIndex =>
            /\ \A g \in Handler \ {h} : index[g] # index[h]
            /\ \A e \in events : e.index = index[h] => e.index \in late

=============================================================================
