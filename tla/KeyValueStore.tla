---------------------------- MODULE KeyValueStore ----------------------------
(***************************************************************************)
(* A client of src/pkg/data/keyvalue: it opens the database (Database,    *)
(* database.go) and reads it through views (BucketView, bucketview.go).   *)
(* The two meet at the bolt.DB:                                            *)
(*   - every view derives from the root view of the Database returned by  *)
(*     OpenDatabase / CreateDatabaseIfNotExists, and each view call runs   *)
(*     db.View on that bolt.DB;                                            *)
(*   - Close (bbolt's db.Close) waits until no read transaction is open,   *)
(*     that is, until no iteration goroutine is inside db.View;            *)
(*   - after Close, db.View fails with ErrDatabaseNotOpen without running  *)
(*     its function, so nothing is ever sent on the channel the view call  *)
(*     waits on.                                                           *)
(* The client opens the file once (MaxOpens = 1), so every view belongs   *)
(* to that one Database.  The file is a named database whose root holds   *)
(* the views' bucket tree.                                                 *)
(***************************************************************************)
EXTENDS BucketView

CONSTANTS
    DbNames, File, MaxOpens

ASSUME MaxOpens = 1

VARIABLES
    file, handle, given, opens

DB == INSTANCE Database

dbVars == <<file, handle, given, opens>>

kvVars == <<vars, dbVars>>

-----------------------------------------------------------------------------
\* No iteration goroutine holds a read transaction.
NoReadTx == \A c \in Clients : ipc[c] \in {"none", "closed"}

\* The Database the client's views belong to has been closed.
Closed == handle = "none" /\ opens > 0

StoreInit ==
    /\ Init
    /\ DB!Init
    /\ DB!Stored(file) /\ ~file.top

OpenDatabase == DB!OpenDatabase(File) /\ UNCHANGED vars

CreateDatabaseIfNotExists(n) == DB!CreateDatabaseIfNotExists(File, n) /\ UNCHANGED vars

(* Close: db.Close() waits for the open read transactions.                 *)
DatabaseClose == DB!Close /\ NoReadTx /\ UNCHANGED vars

(* A view call on the open Database.                                       *)
ViewCallOnOpen(c) == handle = "db" /\ ViewCall(c) /\ UNCHANGED dbVars

(* A view call after Close: db.View returns ErrDatabaseNotOpen without    *)
(* running its function, so nothing is ever sent to the caller.  Keys,    *)
(* KeyValues and BucketViews run `go a.db.View(...)` and wait in           *)
(* `return <-c`; a BucketView with a non-empty path (and Exists, Get, and  *)
(* Database.Name, which is a Get) run it synchronously and wait in        *)
(* `return <-b` (`<-data`) on the empty buffered channel.                  *)
ViewCallOnClosed(c) ==
    /\ Closed
    /\ Call(c)
    /\ cpc' = [cpc EXCEPT ![c] = "blocked"]
    /\ UNCHANGED <<heap, views, made, ipc, it, at, ents, pos, cancelled, got, atCancel>>
    /\ UNCHANGED dbVars

\* The iteration goroutine's and the client's steps, and the client's
\* cancel, which touch no bolt.DB state.
Produce(c) == Producer(c) /\ UNCHANGED dbVars

Consume(c) == Consumer(c) /\ UNCHANGED dbVars

Cancel(c) == CancelIter(c) /\ UNCHANGED dbVars

StoreNext ==
    \/ OpenDatabase
    \/ \E n \in DbNames : CreateDatabaseIfNotExists(n)
    \/ DatabaseClose
    \/ \E c \in Clients : ViewCallOnOpen(c) \/ ViewCallOnClosed(c)
                          \/ Produce(c) \/ Consume(c) \/ Cancel(c)

StoreSpec ==
    /\ StoreInit /\ [][StoreNext]_kvVars
    /\ \A c \in Clients : WF_kvVars(Produce(c)) /\ WF_kvVars(Consume(c))

-----------------------------------------------------------------------------
(* The Database the client holds is named as it was returned (Database's  *)
(* DatabaseIsNamed): CreateDatabaseIfNotExists never hands out a database *)
(* under a name the file does not carry.                                  *)
DatabaseIsNamed == DB!DatabaseIsNamed

(* Every view call returns: an iteration hands back its channel, and       *)
(* BucketView its view or nil, whenever the call is made -- also after the *)
(* Database was closed, when an error or a closed channel would be the    *)
(* answer.                                                                 *)
ViewCallsReturn == \A c \in Clients : cpc[c] # "blocked"

=============================================================================
