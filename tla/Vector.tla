------------------------------- MODULE Vector -------------------------------
(***************************************************************************)
(* The vector layer (vector_layer.c and the index types vector_flat.c,     *)
(* vector_ivf.c, vector_slsh.c): vectors under their ids, the entries of   *)
(* the index in use, centroids or projections, the stored type.  Inserts   *)
(* and deletions come from any thread, read first and then write one       *)
(* batch; the layer has no lock.  train, rebuild and migrate are a list of *)
(* writes, each atomic, that a crash or a failed write cuts short; they    *)
(* are called with no insert or deletion in progress.                      *)
(*                                                                         *)
(* A vector has one coordinate and the distance is L2.  Scans are exact    *)
(* (Iterator), but for the reverse one of a search by hash; ids sort below *)
(* 0x7f, which ends their range.                                           *)
(***************************************************************************)
EXTENDS Integers, Sequences, FiniteSets, SequencesExt

CONSTANTS
    VlIds, VlPoints,  \* ids and vectors
    VlWorkers,        \* threads that insert and delete
    Clusters,         \* the values of ivf_n_clusters
    VlCentroids,      \* where k-means may put a centroid
    VlQueries,        \* the vectors that are searched for
    LshTables,        \* slsh_lsh_tables
    LshHash,          \* table -> vector -> its projection, quantised
    VlChunk,          \* writes per batch of a rebuild or deletion (8000)
    MaxInserts,       \* bound: insert calls
    MaxMaintenance    \* bound: train, rebuild and migrate calls

VARIABLES
    vDb,      \* the keys of the index, see VlInit
    vMem,     \* the open layer's format, or VlClosed
    vJobs,    \* worker -> the insert or deletion it is in, or NoJob
    vTodo,    \* the writes left of a train, rebuild or migrate
    vLast,    \* the kind of the last such call while vTodo is not empty, or
              \* until the next step after it has ended ("" otherwise)
    vBroken,  \* one was cut short and none has ended since (history)
    vCalls    \* [inserts, maintenance] so far
vlVars == <<vDb, vMem, vJobs, vTodo, vLast, vBroken, vCalls>>

IndexTypes == {"flat", "ivf", "slsh"}
Cids == 0 .. (CHOOSE k \in Clusters : \A j \in Clusters : j <= k) - 1
Tables == 0 .. LshTables - 1
Absent == -1
VlClosed == [type |-> "closed", k |-> 0]
NoJob == [do |-> "none"]

\* aux holds <<"cluster", cid, id>> and <<"hash", key, id>>.
VlInit ==
    /\ vDb = [format |-> "none", vec |-> [i \in VlIds |-> Absent], count |-> 0,
              cent |-> [c \in Cids |-> Absent], proj |-> {}, aux |-> {}]
    /\ vMem = VlClosed /\ vJobs = [w \in VlWorkers |-> NoJob]
    /\ vTodo = <<>> /\ vLast = "" /\ vBroken = FALSE
    /\ vCalls = [inserts |-> 0, maintenance |-> 0]

VlStored(db) == {i \in VlIds : db.vec[i] # Absent}
Centroids(db) == {c \in Cids : db.cent[c] # Absent}
vl_distance(a, b) == IF a < b THEN b - a ELSE a - b

-----------------------------------------------------------------------------
(* Where an index keeps a vector. *)

\* The first of the nearest centroids, 0 before the first training.
ivf_nearest_centroid(db, v) ==
    IF Centroids(db) = {} THEN 0
    ELSE CHOOSE c \in Centroids(db) : \A e \in Centroids(db) :
           LET dc == vl_distance(v, db.cent[c])
               de == vl_distance(v, db.cent[e])
           IN  dc < de \/ (dc = de /\ c <= e)

\* One number per table; a projection that is not stored is loaded as zeros.
slsh_load_projections(db) == [t \in Tables |-> t \in db.proj]
slsh_compute_key(db, v) ==
    [t \in Tables |-> IF slsh_load_projections(db)[t] THEN LshHash[t][v] ELSE 0]

vl_key_cluster_member(db, i, v) == <<"cluster", ivf_nearest_centroid(db, v), i>>
vl_key_hash(db, i, v) == <<"hash", slsh_compute_key(db, v), i>>
EntryOf(type, db, i, v) ==
    CASE type = "ivf" -> {vl_key_cluster_member(db, i, v)}
      [] type = "slsh" -> {vl_key_hash(db, i, v)}
      [] type = "flat" -> {}

VlEntries(db, kind) == {e \in db.aux : e[1] = kind}
KindOf(type) == IF type = "ivf" THEN "cluster" ELSE "hash"

-----------------------------------------------------------------------------
(***************************************************************************)
(* Searches.  A hit list is in ascending distance (qsort leaves the order  *)
(* of equal ones open, here they keep the order of the candidates).        *)
(***************************************************************************)
TopK(db, query, k, ids) ==
    LET live == SelectSeq(ids, LAMBDA i : db.vec[i] # Absent)
        Before(i, j) == vl_distance(query, db.vec[i]) < vl_distance(query, db.vec[j])
        Insert(acc, i) == LET n == Cardinality({m \in DOMAIN acc : ~Before(i, acc[m])})
                          IN  InsertAt(acc, n + 1, i)
        sorted == FoldLeft(Insert, <<>>, live)
    IN  SubSeq(sorted, 1, IF Len(sorted) < k THEN Len(sorted) ELSE k)

vector_flat_search_sync(db, query, k) == TopK(db, query, k, SetToSeq(VlStored(db)))

\* The nprobe nearest clusters.
Probed(db, query, nprobe) ==
    {c \in Centroids(db) :
       Cardinality({e \in Centroids(db) :
          LET de == vl_distance(query, db.cent[e])
              dc == vl_distance(query, db.cent[c])
          IN  de < dc \/ (de = dc /\ e < c)}) < nprobe}

\* An id with entries in two probed clusters is a candidate twice.
ivf_scan_cluster(db, c) ==
    SetToSeq({e[3] : e \in {x \in VlEntries(db, "cluster") : x[2] = c}})

vector_ivf_search_sync(db, query, k, rt) ==
    IF db.count < rt.flat_until \/ Centroids(db) = {}
      THEN vector_flat_search_sync(db, query, k)
      ELSE TopK(db, query, k, FlattenSeq([n \in 1 .. Cardinality(Probed(db, query, rt.nprobe)) |->
             ivf_scan_cluster(db, SetToSeq(Probed(db, query, rt.nprobe))[n])]))

\* The order of hash entries.
KeyBelow(a, b) == \E t \in Tables : a[t] < b[t] /\ \A u \in 0 .. t - 1 : a[u] = b[u]

\* Mutant: the scan to the right begins behind the query's own bucket.
MutSlshCandidates(db, key, radius) ==
    LET all == VlEntries(db, "hash")
    IN  {x[3] : x \in {y \in all : KeyBelow(y[2], key) \/ KeyBelow(key, y[2])}}

\* What the reverse scan from the bucket of key sees of the entries below it
\* (seek_to_end_path, one chunk of the key per table): where the entries that
\* agree so far have no such chunk, it goes on below the largest smaller one,
\* with the rest of key, and does not see what lies there beyond the rest.
\* With no smaller chunk it begins at the end and sees them all.
RECURSIVE SeenFrom(_, _, _, _)
SeenFrom(below, S, key, t) ==
    LET chunks  == {x[2][t] : x \in S}
        smaller == {c \in chunks : c < key[t]}
        next    == IF key[t] \in chunks THEN key[t]
                   ELSE CHOOSE c \in smaller : \A d \in smaller : d <= c
        rest(c) == {x \in S : x[2][t] = c}
        seen    == SeenFrom(below, rest(next), key, t + 1)
    IN  IF t = LshTables - 1
          THEN IF smaller = {} THEN below ELSE {x \in S : x[2][t] < key[t]}
        ELSE IF key[t] \notin chunks /\ smaller = {} THEN below
        ELSE IF seen = below THEN below
        ELSE seen \cup {x \in S : x[2][t] < next}
SeenBelow(all, key) ==
    LET below == {x \in all : KeyBelow(x[2], key)} IN SeenFrom(below, all, key, 0)

\* The ids of up to radius entries from the query's bucket on, and of as many
\* before it.
SlshCandidates(db, key, radius) ==
    LET all == VlEntries(db, "hash")
        before(x, y) == KeyBelow(x[2], y[2]) \/ (x[2] = y[2] /\ x[3] < y[3])
        right == {x \in all : ~KeyBelow(x[2], key)}
        left  == SeenBelow(all, key)
        near  == {x \in right : Cardinality({y \in right : before(y, x)}) < radius}
                 \cup {x \in left : Cardinality({y \in left : before(x, y)}) < radius}
    IN  {x[3] : x \in near}

vector_slsh_search_sync(db, query, k, rt) ==
    LET adaptive == db.count \div 30
        radius   == IF adaptive > rt.radius THEN adaptive ELSE rt.radius
    IN  TopK(db, query, k, SetToSeq(SlshCandidates(db, slsh_compute_key(db, query), radius)))

vector_layer_search_sync(type, db, query, k, rt) ==
    CASE type = "flat" -> vector_flat_search_sync(db, query, k)
      [] type = "ivf" -> vector_ivf_search_sync(db, query, k, rt)
      [] type = "slsh" -> vector_slsh_search_sync(db, query, k, rt)

-----------------------------------------------------------------------------
(* Opening and closing. *)

\* vl_init: the stored type must be the one asked for.
vector_layer_create(type, k) ==
    /\ vMem = VlClosed
    /\ vDb.format \in {"none", type}
    /\ vDb' = [vDb EXCEPT !.format = type]
    /\ vMem' = [type |-> type, k |-> k]
    /\ vLast' = ""
    /\ UNCHANGED <<vJobs, vTodo, vBroken, vCalls>>

VlIdle == \A w \in VlWorkers : vJobs[w] = NoJob
vector_layer_destroy ==
    /\ vMem # VlClosed /\ vTodo = <<>> /\ VlIdle
    /\ vMem' = VlClosed /\ vLast' = ""
    /\ UNCHANGED <<vDb, vJobs, vTodo, vBroken, vCalls>>

VlCrash ==
    /\ vMem # VlClosed
    /\ vMem' = VlClosed /\ vJobs' = [w \in VlWorkers |-> NoJob]
    /\ vTodo' = <<>> /\ vLast' = "" /\ vBroken' = (vBroken \/ vTodo # <<>>)
    /\ UNCHANGED <<vDb, vCalls>>

-----------------------------------------------------------------------------
(***************************************************************************)
(* Inserts and deletions.  A call queues a work or runs at once; a queued  *)
(* one is aborted when the pool stops.  items are <<id, vector>> pairs,    *)
(* more than one in an insert_batch, which inserts them one after another. *)
(***************************************************************************)
VlBusy == vTodo # <<>>
Enqueue(w, job) ==
    /\ vMem # VlClosed /\ ~VlBusy /\ vJobs[w] = NoJob
    /\ vJobs' = [vJobs EXCEPT ![w] = job]
    /\ vLast' = ""
    /\ UNCHANGED <<vDb, vMem, vTodo, vBroken>>

vector_layer_insert_batch(w, items) ==
    /\ vCalls.inserts < MaxInserts
    /\ Enqueue(w, [do |-> "insert", at |-> "queued", items |-> items])
    /\ vCalls' = [vCalls EXCEPT !.inserts = @ + 1]
vector_layer_insert(w, i, x) == vector_layer_insert_batch(w, <<<<i, x>>>>)

vector_layer_delete(w, i) ==
    /\ Enqueue(w, [do |-> "delete", at |-> "queued", items |-> <<<<i, Absent>>>>])
    /\ UNCHANGED vCalls

JobAbort(w) ==
    /\ vJobs[w] # NoJob /\ vJobs[w].at = "queued"
    /\ vJobs' = [vJobs EXCEPT ![w] = NoJob]
    /\ vLast' = ""
    /\ UNCHANGED <<vDb, vMem, vTodo, vBroken, vCalls>>

\* What an insertion or deletion of ivf or slsh reads, for the batch it goes
\* on to write: the entry of the vector and the count.  A deletion computes the
\* entry of the vector stored now; without one it returns.
BatchOf(entry, db) == [at |-> "read", entry |-> {entry}, count |-> db.count]
vector_ivf_insert_sync(db, i, v) == BatchOf(vl_key_cluster_member(db, i, v), db)
vector_slsh_insert_sync(db, i, v) == BatchOf(vl_key_hash(db, i, v), db)
vector_ivf_delete_sync(db, i) ==
    IF db.vec[i] = Absent THEN NoJob ELSE BatchOf(vl_key_cluster_member(db, i, db.vec[i]), db)
vector_slsh_delete_sync(db, i) ==
    IF db.vec[i] = Absent THEN NoJob ELSE BatchOf(vl_key_hash(db, i, db.vec[i]), db)

\* The flat index writes or deletes the vector at once, stored or not, then
\* reads the count, then writes it.
vector_flat_insert_sync(db, i, v) == [db EXCEPT !.vec[i] = v]
vector_flat_delete_sync(db, i) == [db EXCEPT !.vec[i] = Absent]

JobRead(w) ==
    LET j == vJobs[w]
        i == j.items[1][1]
        x == j.items[1][2]
        insert == j.do = "insert"
        read == CASE vMem.type = "flat" -> [at |-> "read", entry |-> {}, count |-> vDb.count]
                  [] vMem.type = "ivf" -> IF insert THEN vector_ivf_insert_sync(vDb, i, x)
                                          ELSE vector_ivf_delete_sync(vDb, i)
                  [] vMem.type = "slsh" -> IF insert THEN vector_slsh_insert_sync(vDb, i, x)
                                           ELSE vector_slsh_delete_sync(vDb, i)
    IN  /\ j # NoJob /\ j.at = "queued"
        /\ vJobs' = [vJobs EXCEPT ![w] = IF read = NoJob THEN NoJob ELSE read @@ j]
        /\ vDb' = IF vMem.type # "flat" THEN vDb
                  ELSE IF insert THEN vector_flat_insert_sync(vDb, i, x) ELSE vector_flat_delete_sync(vDb, i)
        /\ vLast' = ""
        /\ UNCHANGED <<vMem, vTodo, vBroken, vCalls>>

\* The count after a job (flat_increment_count).
CountAfter(j) == IF j.do = "insert" THEN j.count + 1 ELSE IF j.count > 0 THEN j.count - 1 ELSE 0

\* The batch: vector, entry and count; flat has only the count left to write.
\* An insert_batch goes on with its next item.
JobBatch(w) ==
    LET j == vJobs[w]
        i == j.items[1][1]
        new == [vDb EXCEPT !.count = CountAfter(j)]
    IN  /\ j # NoJob /\ j.at = "read"
        /\ vDb' = IF vMem.type = "flat" THEN new
                  ELSE [new EXCEPT !.vec[i] = j.items[1][2],
                                   !.aux = IF j.do = "insert" THEN @ \cup j.entry ELSE @ \ j.entry]
        /\ vJobs' = [vJobs EXCEPT ![w] =
             IF Len(j.items) = 1 THEN NoJob
             ELSE [do |-> j.do, at |-> "queued", items |-> Tail(j.items)]]
        /\ vLast' = ""
        /\ UNCHANGED <<vMem, vTodo, vBroken, vCalls>>

-----------------------------------------------------------------------------
(***************************************************************************)
(* Maintenance.  A write deletes and puts entries, puts one centroid or    *)
(* projection, deletes some of them, or writes the type.                   *)
(***************************************************************************)
Batches(kind, ops) ==
    [n \in 1 .. (Len(ops) + VlChunk - 1) \div VlChunk |->
       [w |-> kind, ops |-> SubSeq(ops, (n - 1) * VlChunk + 1,
                                   IF n * VlChunk < Len(ops) THEN n * VlChunk ELSE Len(ops))]]

Written(db, wr) ==
    CASE wr.w = "entries" ->
           [db EXCEPT !.aux = (@ \ {o[2] : o \in {x \in Range(wr.ops) : x[1] = "delete"}})
                               \cup {o[2] : o \in {x \in Range(wr.ops) : x[1] = "put"}}]
      [] wr.w = "drop_cent" -> [db EXCEPT !.cent = [c \in Cids |-> IF c \in Range(wr.ops) THEN Absent ELSE @[c]]]
      [] wr.w = "drop_proj" -> [db EXCEPT !.proj = @ \ Range(wr.ops)]
      [] wr.w = "cent" -> [db EXCEPT !.cent[wr.c] = wr.x]
      [] wr.w = "proj" -> [db EXCEPT !.proj = @ \cup {wr.t}]
      [] wr.w = "format" -> [db EXCEPT !.format = wr.type]
AllWritten(db, writes) == FoldLeft(Written, db, writes)

Tagged(op, S) == LET s == SetToSeq(S) IN [n \in DOMAIN s |-> <<op, s[n]>>]

Entries(type, db) == UNION {EntryOf(type, db, i, db.vec[i]) : i \in VlStored(db)}
\* The deletions, then the puts; an entry that stays is in neither.
Replace(old, new) == Batches("entries", Tagged("delete", old \ new) \o Tagged("put", new \ old))
\* Mutant: entries of vectors that are gone are left.
MutIvfRebuild(db) ==
    Replace({e \in VlEntries(db, "cluster") : e[3] \in VlStored(db)}, Entries("ivf", db))
vector_ivf_rebuild(db) == Replace(VlEntries(db, "cluster"), Entries("ivf", db))
vector_slsh_rebuild(db) == Replace(VlEntries(db, "hash"), Entries("slsh", db))
VlRebuild(type, db) ==
    CASE type = "flat" -> <<>>
      [] type = "ivf" -> vector_ivf_rebuild(db)
      [] type = "slsh" -> vector_slsh_rebuild(db)

\* vector_ivf_train: k-means, whose floating-point outcome is any choice of
\* centroids; without vectors there is nothing to do, not even a rebuild.
vector_ivf_train(k, db, points) ==
    IF VlStored(db) = {} THEN <<>>
    ELSE LET puts == [n \in 1 .. k |-> [w |-> "cent", c |-> n - 1, x |-> points[n]]]
         IN  puts \o vector_ivf_rebuild(AllWritten(db, puts))
\* vector_slsh_train: always the same projections.
vector_slsh_train(db) ==
    LET puts == [n \in 1 .. LshTables |-> [w |-> "proj", t |-> n - 1]]
    IN  puts \o vector_slsh_rebuild(AllWritten(db, puts))
VlTrain(fmt, db, points) ==
    CASE fmt.type = "flat" -> <<>>
      [] fmt.type = "ivf" -> vector_ivf_train(fmt.k, db, points)
      [] fmt.type = "slsh" -> vector_slsh_train(db)

\* vl_delete_child of the four kinds.
DeleteAux(db) ==
    Batches("entries", Tagged("delete", VlEntries(db, "cluster")))
    \o Batches("drop_cent", SetToSeq(Centroids(db)))
    \o Batches("entries", Tagged("delete", VlEntries(db, "hash")))
    \o Batches("drop_proj", SetToSeq(db.proj))

\* vector_layer_migrate: all entries go, the new type is written and taken
\* over, then the index is trained.
VlMigrate(fmt, db, points) ==
    LET head == DeleteAux(db) \o <<[w |-> "format", type |-> fmt.type, k |-> fmt.k]>>
    IN  head \o VlTrain(fmt, AllWritten(db, head), points)

Maintain(call, writes) ==
    /\ vMem # VlClosed /\ ~VlBusy /\ VlIdle
    /\ vCalls.maintenance < MaxMaintenance
    /\ vCalls' = [vCalls EXCEPT !.maintenance = @ + 1]
    /\ vTodo' = writes /\ vLast' = call
    /\ vBroken' = (vBroken /\ (writes # <<>> \/ (call = "train" /\ VlStored(vDb) = {})))
    /\ UNCHANGED <<vDb, vMem, vJobs>>
vector_layer_rebuild == Maintain("rebuild", VlRebuild(vMem.type, vDb))
vector_layer_train == \E p \in [1 .. vMem.k -> VlCentroids] :
    (vMem.type = "ivf" \/ \A n \in DOMAIN p : p[n] = CHOOSE x \in VlCentroids : TRUE)
    /\ Maintain("train", VlTrain(vMem, vDb, p))
vector_layer_migrate(type, k) == \E p \in [1 .. k -> VlCentroids] :
    (type = "ivf" \/ \A n \in DOMAIN p : p[n] = CHOOSE x \in VlCentroids : TRUE)
    /\ Maintain("migrate", VlMigrate([type |-> type, k |-> k], vDb, p))

MaintenanceWrite ==
    /\ VlBusy
    /\ LET wr == Head(vTodo) IN
        /\ vDb' = Written(vDb, wr)
        /\ vMem' = IF wr.w = "format" THEN [type |-> wr.type, k |-> wr.k] ELSE vMem
    /\ vTodo' = Tail(vTodo)
    /\ vBroken' = (vBroken /\ Tail(vTodo) # <<>>)
    /\ UNCHANGED <<vJobs, vLast, vCalls>>
\* A write that fails: the call returns its error.
MaintenanceFails ==
    /\ VlBusy
    /\ vTodo' = <<>> /\ vLast' = "" /\ vBroken' = TRUE
    /\ UNCHANGED <<vDb, vMem, vJobs, vCalls>>

VlNext ==
    \/ \E t \in IndexTypes, k \in Clusters :
         (t # "ivf" => \A j \in Clusters : j <= k) /\ (vector_layer_create(t, k) \/ vector_layer_migrate(t, k))
    \/ vector_layer_destroy \/ VlCrash
    \/ \E w \in VlWorkers :
         \/ \E i \in VlIds : vector_layer_delete(w, i)
         \/ \E i \in VlIds, x \in VlPoints : vector_layer_insert(w, i, x)
         \/ \E x, y \in VlPoints : LET s == SetToSeq(VlIds) IN
              x < y /\ vector_layer_insert_batch(w, <<<<s[1], x>>, <<s[2], y>>>>)
         \/ JobRead(w) \/ JobBatch(w) \/ JobAbort(w)
    \/ vector_layer_rebuild \/ vector_layer_train
    \/ MaintenanceWrite \/ MaintenanceFails
VlSpec == VlInit /\ [][VlNext]_vlVars

-----------------------------------------------------------------------------
\* The runtime settings that matter to the type of the index.
VlRuntimes ==
    LET for(type, S) == IF vMem.type = type THEN S ELSE {CHOOSE x \in S : \A y \in S : y <= x}
    IN  {[flat_until |-> f, nprobe |-> p, radius |-> r] :
           f \in for("ivf", {0, 2}), p \in for("ivf", {1, Cardinality(Cids)}),
           r \in for("slsh", {1, Cardinality(vDb.aux) + 1})}
Full(rt) == rt.nprobe = Cardinality(Cids) /\ rt.radius > Cardinality(vDb.aux)

\* The reverse scan can follow the query's key: its buckets share all but the
\* last chunk with one that is there.
LeftFollowed(db, key) ==
    \E x \in VlEntries(db, "hash") : \A t \in 0 .. LshTables - 2 : x[2][t] = key[t]

\* A search answers with stored vectors in the order of their distance, the
\* nearest of all stored ones first when the index is flat, when every cluster
\* is probed, or when every hash entry is scanned; by hash, those whose entry is
\* not below the query's bucket in any case and the rest where the reverse scan
\* can follow the query's key: whatever inserts and deletions overlapped, and
\* whenever the index was trained, rebuilt, migrated or opened again since
\* (vector_layer_search_sync).
SearchAnswers ==
    vMem # VlClosed /\ ~VlBusy => \A rt \in VlRuntimes, query \in VlQueries :
      LET hits == vector_layer_search_sync(vMem.type, vDb, query, 2 * Cardinality(VlIds), rt)
          dist(n) == vl_distance(query, vDb.vec[hits[n]])
          exact == vMem.type = "flat" \/ (Full(rt) /\ ~vBroken)
          key == slsh_compute_key(vDb, query)
          due == IF vMem.type # "slsh" \/ LeftFollowed(vDb, key) THEN VlStored(vDb)
                 ELSE {x[3] : x \in {y \in VlEntries(vDb, "hash") : ~KeyBelow(y[2], key)}}
                        \cap VlStored(vDb)
      IN  /\ Range(hits) \subseteq VlStored(vDb)
          /\ \A m, n \in DOMAIN hits : m < n => dist(m) <= dist(n)
          /\ exact => due \subseteq Range(hits)

\* The reverse scan "positions at largest key < end_path" (vector_slsh.c 317):
\* with radius enough it sees every entry below the query's bucket.
LeftComplete ==
    \A query \in VlQueries :
      LET all == VlEntries(vDb, "hash")
          key == slsh_compute_key(vDb, query)
      IN  SeenBelow(all, key) = {x \in all : KeyBelow(x[2], key)}

\* A train, rebuild or migrate that has ended has left one entry per stored
\* vector, where a search and a later deletion look for it; after a migrate
\* nothing else is left of any type, whatever was cut short before ("re-run
\* migrate(new_fmt) to converge", vector_layer.h).
MaintenanceExact ==
    vLast # "" /\ ~VlBusy =>
      LET own == Entries(vMem.type, vDb) IN
      /\ (vMem.type # "flat" /\ ~(vLast = "train" /\ VlStored(vDb) = {})) =>
           VlEntries(vDb, KindOf(vMem.type)) = own
      /\ vLast = "migrate" =>
           /\ vDb.aux = own /\ vDb.format = vMem.type
           /\ vMem.type # "ivf" => Centroids(vDb) = {}
           /\ vMem.type # "slsh" => vDb.proj = {}
=============================================================================
