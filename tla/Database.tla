------------------------------ MODULE Database ------------------------------
(***************************************************************************)
(* OpenDatabase, CreateDatabaseIfNotExists, Name and Close of              *)
(* src/pkg/data/keyvalue/database.go over one bbolt file.                  *)
(*                                                                         *)
(* The file is abstracted to what these functions read and write: whether *)
(* it exists, whether it has the root bucket "db", the root's "name"       *)
(* entry (none, a value, or a bucket), and whether a top-level bucket      *)
(* "name" exists.  bbolt's behaviour taken as given: bolt.Open creates a   *)
(* missing file and takes an exclusive flock, which any other bolt.Open of *)
(* the file waits for until Options.Timeout and then fails with           *)
(* ErrTimeout; the lock is held until db.Close().  Get of a key holding a  *)
(* bucket returns nil, Put on it fails with ErrIncompatibleValue, and an   *)
(* Update whose function returns an error is rolled back.                  *)
(*                                                                         *)
(* handle is the one bolt.DB the process can have open on the file: none, *)
(* db (owned by the Database the client holds) or leaked (open, and owned *)
(* by nothing).                                                            *)
(***************************************************************************)
EXTENDS Naturals

CONSTANTS
    DbNames,    \* non-empty database names
    Empty,      \* the path "" (after TrimSpace), and Name() of an unnamed root
    File,       \* the path of the file
    MaxOpens    \* bound on bolt.Open calls that get the file lock

\* The root's "name" entry.
NameEntries == DbNames \cup {"none", "bucket"}

Files == [exists : BOOLEAN, root : BOOLEAN, name : NameEntries, top : BOOLEAN]

\* A file bbolt can hold: a missing file holds nothing, and the name entry
\* lives in the root bucket.
WellFormed(f) ==
    /\ ~f.exists => ~f.root /\ ~f.top
    /\ ~f.root => f.name = "none"

VARIABLES
    file,       \* the file's contents
    handle,     \* none, db, leaked
    given,      \* the name the client's Database was returned with
    opens       \* bolt.Open calls that got the lock

dbVars == <<file, handle, given, opens>>

-----------------------------------------------------------------------------
\* root.Get(database_name) is a value: neither absent nor a bucket.
Stored(f) == f.root /\ f.name \in DbNames

\* bucketView.Get(DATABASE_NAME) on the root view, inside db.View: nil
\* (string "") when the root bucket is missing, or the key is absent or
\* holds a bucket.
Get(f) == IF Stored(f) THEN f.name ELSE Empty

\* Database.Name(): string(a.Get(DATABASE_NAME)).
Name == Get(file)

\* strings.TrimSpace(path) is not "", and bolt.Open gets the file lock; a
\* lock held by this process's own open handle makes it wait for
\* Options.Timeout and fail with ErrTimeout, which changes nothing.
OpenLocks(p) ==
    /\ p # Empty
    /\ handle = "none"
    /\ opens < MaxOpens
    /\ opens' = opens + 1

\* bolt.Open creates a missing file.
Created(f) == [f EXCEPT !.exists = TRUE]

\* A call returns a Database over the handle, or an error that leaves the
\* handle open.
Returns(ok, n) ==
    IF ok THEN handle' = "db" /\ given' = n
          ELSE handle' = "leaked" /\ UNCHANGED given

Init ==
    /\ file \in {f \in Files : WellFormed(f)}
    /\ handle = "none"
    /\ given = Empty
    /\ opens = 0

-----------------------------------------------------------------------------
(* OpenDatabase: open the file, read the root's name in a View; a missing   *)
(* root or an empty name is an error, returned without db.Close().         *)
OpenDatabase(p) ==
    /\ OpenLocks(p)
    /\ file' = Created(file)
    /\ Returns(Stored(file), file.name)

(* CreateDatabaseIfNotExists: open the file, then in one Update create the *)
(* root if missing and read its name.  No name: refuse if a top-level     *)
(* bucket "name" exists (the Update rolls back), else Put the name -- on a *)
(* root whose "name" is a bucket the Put fails, its error is dropped and  *)
(* the Update commits.  Then a stored name other than n is an error.  No  *)
(* error path calls db.Close().                                            *)
CreateDatabaseIfNotExists(p, n) ==
    /\ OpenLocks(p)
    /\ LET f       == Created(file)
           refused == ~Stored(f) /\ f.top
       IN  /\ file' = CASE refused          -> f
                        [] Stored(f)        -> f
                        [] f.name = "bucket" -> [f EXCEPT !.root = TRUE]
                        [] OTHER            -> [f EXCEPT !.root = TRUE, !.name = n]
           /\ Returns(~refused /\ (Stored(f) => f.name = n), n)

(* Close: db.Close() releases the file lock.                               *)
Close ==
    /\ handle = "db"
    /\ handle' = "none"
    /\ UNCHANGED <<file, given, opens>>

-----------------------------------------------------------------------------
Next ==
    \/ OpenDatabase(File)
    \/ \E n \in DbNames : CreateDatabaseIfNotExists(File, n)
    \/ Close

Spec == Init /\ [][Next]_dbVars

-----------------------------------------------------------------------------
TypeOK ==
    /\ file \in Files /\ WellFormed(file)
    /\ handle \in {"none", "db", "leaked"}
    /\ given \in DbNames \cup {Empty}
    /\ opens \in 0..MaxOpens

(* The Database the client holds is named as it was returned: Name() is    *)
(* the name CreateDatabaseIfNotExists was asked for, or the one            *)
(* OpenDatabase read, so a later OpenDatabase of the file finds it.        *)
DatabaseIsNamed == handle = "db" => Name = given

(* A call that fails leaves no bolt.DB open on the file: a later           *)
(* OpenDatabase or CreateDatabaseIfNotExists in this process is not        *)
(* refused with ErrTimeout for a lock nothing can release.                 *)
NoLeakedHandle == handle # "leaked"

=============================================================================
