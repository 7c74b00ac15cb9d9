----------------------------- MODULE MCDatabase -----------------------------
(* One file in every state bbolt can hold it in (missing, no root, a root  *)
(* with or without a name, a name that is a bucket, a top-level "name"    *)
(* bucket), two names, and two opens: enough for a failed call followed   *)
(* by another on the same file.                                           *)
EXTENDS Database

MCDbNames == {"x", "y"}
=============================================================================
