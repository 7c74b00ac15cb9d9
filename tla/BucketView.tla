----------------------------- MODULE BucketView -----------------------------
(***************************************************************************)
(* The read-only bucket views of src/pkg/data/keyvalue/bucketview.go over  *)
(* a bbolt database whose bucket tree does not change (every call reads   *)
(* inside db.View, a snapshot).                                            *)
(*                                                                         *)
(* A view's path is a Go []string: a slice header (backing array, length,  *)
(* capacity) over `heap`, the backing arrays.  `append` writes in place    *)
(* when the capacity allows and copies into a new array otherwise, so two  *)
(* views can share storage.  Keys, KeyValues and BucketViews start a       *)
(* goroutine inside db.View that sends entries on an unbuffered channel;   *)
(* with a cancel channel, each entry goes through                          *)
(*     select { case <-cancel: break  default: data <- entry }             *)
(* where `break` leaves only the select.  The read transaction is open     *)
(* until the goroutine returns.                                            *)
(***************************************************************************)
EXTENDS Naturals, Sequences, SequencesExt

CONSTANTS
    Root,       \* DATABASE_BUCKET, the root path element
    Order,      \* the entry names, in key order
    Buckets,    \* the bucket paths (sequences starting with Root)
    Leaves,     \* the paths of plain keys
    Clients,    \* goroutines using views
    NavArgs,    \* the path arguments tried for BucketView(path...)
    Seeks,      \* the seek arguments tried for Keys / KeyValues
    NoSeek,     \* seek = ""
    Empty,      \* the zero string in unused array slots
    Abandon,    \* TRUE: a client that cancels stops reading at once
    MaxViews,   \* bound on views created
    MaxOps      \* bound on calls per client

VARIABLES
    heap,       \* backing arrays of path slices
    views,      \* slice headers of the views created, in creation order
    made,       \* made[i]: the path view i had when it was created
    ipc,        \* iteration goroutine: none, lookup, loop, send, closed
    it,         \* the iteration: view, kind, seek, whether it has a cancel
    at,         \* the bucket path the goroutine looked up
    ents,       \* the entries the cursor walks (from the seek position)
    pos,        \* the cursor
    cancelled,  \* the client has closed its cancel channel
    cpc,        \* client: idle, recv (ranging over the channel)
    got,        \* entries the client has received in this iteration
    atCancel,   \* Len(got) when the client cancelled
    ops         \* calls made

vars == <<heap, views, made, ipc, it, at, ents, pos, cancelled, cpc, got, atCancel, ops>>

-----------------------------------------------------------------------------
(* Go slices of strings.                                                    *)

PathOf(h) == SubSeq(heap[h.arr], 1, h.len)

\* growslice for a []string below 256 elements: double the capacity, or
\* take what is needed if that is more (16-byte elements fill the malloc
\* size classes exactly, so no rounding up).
GrowCap(cap, need) == IF need > 2 * cap THEN need ELSE 2 * cap

\* append(h, p...): the new header, and the heap after the append.
AppendHdr(h, p) ==
    LET need == h.len + Len(p)
    IN  IF need <= h.cap THEN [h EXCEPT !.len = need]
        ELSE [arr |-> Len(heap) + 1, len |-> need, cap |-> GrowCap(h.cap, need)]

AppendHeap(h, p) ==
    LET need == h.len + Len(p)
    IN  IF need <= h.cap
          THEN [heap EXCEPT ![h.arr] =
                  [i \in 1..h.cap |-> IF h.len < i /\ i <= need THEN p[i - h.len] ELSE @[i]]]
          ELSE LET c == GrowCap(h.cap, need)
               IN  Append(heap, [i \in 1..c |-> IF i <= need THEN (PathOf(h) \o p)[i] ELSE Empty])

-----------------------------------------------------------------------------
(* The database snapshot.                                                   *)

Rank(k) == IF k = NoSeek THEN 0 ELSE CHOOSE i \in 1..Len(Order) : Order[i] = k

\* The names under bucket p, in key order (sub-buckets and plain keys).
Entries(p) == SelectSeq(Order, LAMBDA k : Append(p, k) \in Buckets \cup Leaves)

\* Cursor.Seek(seek): the entries from the first key >= seek.
SeekFrom(e, seek) ==
    SelectSeq(e, LAMBDA k : Rank(k) >= Rank(seek))

\* What the iteration sends: every entry, or for BucketViews the entries
\* that are sub-buckets of the bucket looked up (v == nil).
Sends(kind, p, k) == kind # "buckets" \/ Append(p, k) \in Buckets

-----------------------------------------------------------------------------
Init ==
    /\ heap = << <<Root>> >>                  \* database_path = []string{"db"}
    /\ views = << [arr |-> 1, len |-> 1, cap |-> 1] >>
    /\ made = << <<Root>> >>
    /\ ipc = [c \in Clients |-> "none"]
    /\ it = [c \in Clients |-> [view |-> 1, kind |-> "keys", seek |-> NoSeek, cancel |-> FALSE]]
    /\ at = [c \in Clients |-> <<>>]
    /\ ents = [c \in Clients |-> <<>>]
    /\ pos = [c \in Clients |-> 1]
    /\ cancelled = [c \in Clients |-> FALSE]
    /\ cpc = [c \in Clients |-> "idle"]
    /\ got = [c \in Clients |-> <<>>]
    /\ atCancel = [c \in Clients |-> 0]
    /\ ops = [c \in Clients |-> 0]

Call(c) ==
    /\ cpc[c] = "idle"
    /\ ops[c] < MaxOps
    /\ ops' = [ops EXCEPT ![c] = @ + 1]

-----------------------------------------------------------------------------
(* bucketView(path...): inside db.View, look the view's bucket up by its   *)
(* current path, then the child path; if both exist, the new view's path   *)
(* is append(a.path, path...).                                             *)
NavView(c, v, p) ==
    /\ Call(c)
    /\ Len(views) < MaxViews
    /\ LET parent == PathOf(views[v])
       IN  IF parent \in Buckets /\ parent \o p \in Buckets
             THEN /\ views' = Append(views, AppendHdr(views[v], p))
                  /\ heap' = AppendHeap(views[v], p)
                  /\ made' = Append(made, parent \o p)
             ELSE UNCHANGED <<views, heap, made>>
    /\ UNCHANGED <<ipc, it, at, ents, pos, cancelled, cpc, got, atCancel>>

(* Keys / KeyValues / BucketViews: start the goroutine (it opens the read  *)
(* transaction and hands the data channel back through `c`).              *)
StartIter(c, v, kind, seek, hasCancel) ==
    /\ Call(c)
    /\ ipc[c] \in {"none", "closed"}
    /\ ipc' = [ipc EXCEPT ![c] = "lookup"]
    /\ it' = [it EXCEPT ![c] = [view |-> v, kind |-> kind, seek |-> seek, cancel |-> hasCancel]]
    /\ cancelled' = [cancelled EXCEPT ![c] = FALSE]
    /\ cpc' = [cpc EXCEPT ![c] = "recv"]
    /\ got' = [got EXCEPT ![c] = <<>>]
    /\ UNCHANGED <<heap, views, made, at, ents, pos, atCancel>>

Keys(c, v, seek, hasCancel) == StartIter(c, v, "keys", seek, hasCancel)

KeyValues(c, v, seek, hasCancel) == StartIter(c, v, "kv", seek, hasCancel)

BucketViews(c, v, hasCancel) == StartIter(c, v, "buckets", NoSeek, hasCancel)

(* lookupBucket(tx, a.path), then Seek(seek) / First().  A missing bucket  *)
(* leaves nothing to walk, so the channel is closed at once.              *)
\* (Seek positioned past an existing seek key.)
SeekPastKey(c) ==
    /\ ipc[c] = "lookup"
    /\ LET p == PathOf(views[it[c].view])
           e == IF p \in Buckets THEN Entries(p) ELSE <<>>
       IN  ents' = [ents EXCEPT ![c] = SelectSeq(e, LAMBDA k : Rank(k) > Rank(it[c].seek))]
    /\ at' = [at EXCEPT ![c] = PathOf(views[it[c].view])]
    /\ pos' = [pos EXCEPT ![c] = 1]
    /\ ipc' = [ipc EXCEPT ![c] = "loop"]
    /\ UNCHANGED <<heap, views, made, it, cancelled, cpc, got, atCancel, ops>>

Lookup(c) ==
    /\ ipc[c] = "lookup"
    /\ LET p == PathOf(views[it[c].view])
       IN  /\ at' = [at EXCEPT ![c] = p]
           /\ ents' = [ents EXCEPT ![c] = IF p \in Buckets THEN SeekFrom(Entries(p), it[c].seek) ELSE <<>>]
    /\ pos' = [pos EXCEPT ![c] = 1]
    /\ ipc' = [ipc EXCEPT ![c] = "loop"]
    /\ UNCHANGED <<heap, views, made, it, cancelled, cpc, got, atCancel, ops>>

\* (The select without its cancel case.)
SkipIgnoringCancel(c, k) == ~Sends(it[c].kind, at[c], k)

\* The entry is not sent: the cancel channel is closed, or BucketViews
\* meets a plain key.
Skip(c, k) == (it[c].cancel /\ cancelled[c]) \/ ~Sends(it[c].kind, at[c], k)

(* One pass of the for loop.  Past the last key: close(data) and return,   *)
(* which ends db.View.  Otherwise the select: a closed cancel skips the    *)
(* entry (break leaves the select, the loop goes on); else BucketViews     *)
(* skips a plain key, and the entry is sent -- for BucketViews a new view *)
(* append(a.path, k) is built first.                                       *)
Loop(c) ==
    /\ ipc[c] = "loop"
    /\ IF pos[c] > Len(ents[c])
         THEN /\ ipc' = [ipc EXCEPT ![c] = "closed"]
              /\ UNCHANGED <<heap, views, made, pos>>
         ELSE LET k == ents[c][pos[c]]
                  h == views[it[c].view]
              IN  IF Skip(c, k)
                    THEN /\ pos' = [pos EXCEPT ![c] = @ + 1]
                         /\ UNCHANGED <<heap, views, made, ipc>>
                    ELSE /\ ipc' = [ipc EXCEPT ![c] = "send"]
                         /\ IF it[c].kind = "buckets" /\ Len(views) < MaxViews
                              THEN /\ views' = Append(views, AppendHdr(h, <<k>>))
                                   /\ heap' = AppendHeap(h, <<k>>)
                                   /\ made' = Append(made, Append(PathOf(h), k))
                              ELSE UNCHANGED <<heap, views, made>>
                         /\ UNCHANGED pos
    /\ UNCHANGED <<it, at, ents, cancelled, cpc, got, atCancel, ops>>

(* The client's range loop receives the entry (rendezvous); the cursor      *)
(* moves on.                                                                *)
Recv(c) ==
    /\ cpc[c] = "recv"
    /\ ipc[c] = "send"
    /\ got' = [got EXCEPT ![c] = Append(@, ents[c][pos[c]])]
    /\ pos' = [pos EXCEPT ![c] = @ + 1]
    /\ ipc' = [ipc EXCEPT ![c] = "loop"]
    /\ UNCHANGED <<heap, views, made, it, at, ents, cancelled, cpc, atCancel, ops>>

(* The range loop sees the channel closed and ends.                        *)
RecvEnd(c) ==
    /\ cpc[c] = "recv"
    /\ ipc[c] = "closed"
    /\ cpc' = [cpc EXCEPT ![c] = "idle"]
    /\ UNCHANGED <<heap, views, made, ipc, it, at, ents, pos, cancelled, got, atCancel, ops>>

(* close(cancel).  A client that abandons the iteration stops reading;     *)
(* otherwise it drains the channel.                                        *)
CancelIter(c) ==
    /\ cpc[c] = "recv"
    /\ it[c].cancel
    /\ ~cancelled[c]
    /\ cancelled' = [cancelled EXCEPT ![c] = TRUE]
    /\ atCancel' = [atCancel EXCEPT ![c] = Len(got[c])]
    /\ cpc' = [cpc EXCEPT ![c] = IF Abandon THEN "idle" ELSE "recv"]
    /\ UNCHANGED <<heap, views, made, ipc, it, at, ents, pos, got, ops>>

-----------------------------------------------------------------------------
Producer(c) == Lookup(c) \/ Loop(c)

Consumer(c) == Recv(c) \/ RecvEnd(c)

\* The client's calls on a view, each of which runs db.View.
ViewCall(c) ==
    \E v \in 1..Len(views) :
        \/ \E p \in NavArgs : NavView(c, v, p)
        \/ \E s \in Seeks, b \in BOOLEAN : Keys(c, v, s, b) \/ KeyValues(c, v, s, b)
        \/ \E b \in BOOLEAN : BucketViews(c, v, b)

Next ==
    \E c \in Clients :
        \/ ViewCall(c)
        \/ Producer(c)
        \/ Consumer(c)
        \/ CancelIter(c)

\* The goroutines run: the iteration goroutine and a client that ranges
\* over the channel are scheduled eventually.
Spec == Init /\ [][Next]_vars /\ \A c \in Clients : WF_vars(Producer(c)) /\ WF_vars(Consumer(c))

-----------------------------------------------------------------------------
(* What the client sees of an iteration is a KeyStream: the entries of its *)
(* bucket from the seek position (buckets only, for BucketViews), in       *)
(* order, complete unless cancelled, and the stream always ends.           *)
\* The entries the goroutine will send, from the entries it walks.
WantedOf(kind, p, e) == SelectSeq(e, LAMBDA k : Sends(kind, p, k))

\* Before the lookup: what the lookup of the view's current path yields.
Snapshot(c) ==
    LET p == PathOf(views[it[c].view])
    IN  WantedOf(it[c].kind, p, IF p \in Buckets THEN SeekFrom(Entries(p), it[c].seek) ELSE <<>>)

StreamOf(c) ==
    INSTANCE KeyStream WITH
        Names <- {Order[i] : i \in 1..Len(Order)},
        state <- CASE ipc[c] = "none"                     -> "idle"
                   [] ipc[c] \in {"lookup", "loop", "send"} -> "open"
                   [] ipc[c] = "closed"                   -> "closed",
        want <- CASE ipc[c] = "none"   -> <<>>
                  [] ipc[c] = "lookup" -> Snapshot(c)
                  [] OTHER             -> WantedOf(it[c].kind, at[c], ents[c]),
        out <- got[c],
        stopped <- cancelled[c]

\* \A c \in Clients : StreamOf(c)!Spec, with the quantifier inside the box.
IterationsAreStreams ==
    /\ \A c \in Clients : StreamOf(c)!Init
    /\ [][\A c \in Clients : StreamOf(c)!Step]_vars
    /\ \A c \in Clients : StreamOf(c)!Fairness

(* Cancel takes effect at once: after the client closes its cancel channel *)
(* it receives at most the one entry the goroutine had already committed   *)
(* to sending.                                                             *)
AtMostOneAfterCancel ==
    \A c \in Clients : cancelled[c] => Len(got[c]) <= atCancel[c] + 1

(* Closing the cancel channel ends the iteration goroutine, and with it    *)
(* the read transaction it holds open ("the cancel channel is used to      *)
(* terminate the iteration early by the client").                          *)
CancelReleasesTx == \A c \in Clients : cancelled[c] ~> ipc[c] = "closed"

(* A view keeps the path it was created with: BucketView and BucketViews  *)
(* never change the path of a view handed out earlier.                     *)
ViewPathsStable == \A i \in 1..Len(views) : PathOf(views[i]) = made[i]

=============================================================================
