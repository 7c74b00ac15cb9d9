--------------------------- MODULE MCBucketView ---------------------------
(* A database named x or y, with buckets db, db/a, db/b, db/a/a and       *)
(* db/a/a/{a,b}, and plain keys db/k, db/name (the database's name) and   *)
(* db/a/k: every iteration meets both a bucket and a plain key, a seek    *)
(* key that exists, and a missing bucket (db/b/..).  Navigating           *)
(* db -> a -> a gives a path of length 3 and capacity 4, whose children   *)
(* share its backing array.                                               *)
EXTENDS KeyValueStore

MCOrder == <<"a", "b", "k", "name">>

MCBuckets ==
    { <<"db">>, <<"db", "a">>, <<"db", "b">>, <<"db", "a", "a">>,
      <<"db", "a", "a", "a">>, <<"db", "a", "a", "b">> }

MCLeaves == { <<"db", "k">>, <<"db", "name">>, <<"db", "a", "k">> }

MCNavArgs == { <<"a">>, <<"b">> }

MCSeeks == { "", "b" }

MCDbNames == {"x", "y"}
=============================================================================
