--------------------------- MODULE WalManagerProofs ---------------------------
(***************************************************************************)
(* What the log has made safe stays recoverable: for every number of       *)
(* threads, keys, lives, files and compactions, thread IDs that recur and  *)
(* seconds that are used twice included, until a file is opened under a    *)
(* name that the manifest already knows (the history variable reused).     *)
(* That is the one way to lose a safe write.                               *)
(***************************************************************************)
EXTENDS WalManager, FiniteSetTheorems, TLAPS

(***************************************************************************)
(* The inductive invariant.                                                *)
(***************************************************************************)

Statuses == {"ACTIVE", "SEALED", "COMPACTED"}
ThreadLabels == {"idle", "get", "room", "compact", "merge", "mark", "unlink", "recheck", "seal",
                 "reopen", "append", "apply", "apply_unlogged"}
\* database_destroy from the seal of the first WAL on: the checkpoint is written.
Late == {"seal_all", "compact", "mark", "unlink", "closed"}
Destroying == Late \cup {"destroy_flush", "destroy_page"}
OwnerLabels == {"idle", "flush", "page"} \cup Destroying
Files == [data : Seq(Entries), synced : Nat]
JobRecords == [entry : Entries, sec : Seconds, size : Sizes]

FilesOK(f) ==
  /\ f \in [DOMAIN f -> Files] /\ DOMAIN f \subseteq Names
  /\ \A n \in DOMAIN f : f[n].synced <= Len(f[n].data)
DiskTypes ==
  /\ FilesOK(file)
  /\ manifest \in Seq(Names \X Statuses)
  /\ page.chain \in [Keys -> Seq(Ids)]
ProcTypes ==
  /\ phase \in {"up", "down"} /\ life \in 1 .. Len(LifeThreads)
  /\ phase = "down" => life < Len(LifeThreads)
  /\ now \in Seconds /\ next_id \in 1 .. (MaxWrites + 1) /\ config \in Configs
  /\ trie \in [Keys -> Seq(Ids)]
  /\ pc[Owner] \in Destroying => life < Len(LifeThreads)
WalTypes ==
  /\ threads \in Seq(Threads)
  /\ cur \in [Threads -> Names \cup {NoFile}] /\ orphan \in [Threads -> BOOLEAN]
  /\ entry_buf \in [Threads -> Seq(Entries)] /\ timer_active \in [Threads -> BOOLEAN]
  /\ newest \in [Threads -> 0 .. MaxSecond]
  /\ DOMAIN pc = Actors /\ pc[Owner] \in OwnerLabels
  /\ \A t \in Threads : pc[t] \in ThreadLabels
  /\ DOMAIN job = Threads /\ \A t \in Threads : pc[t] # "idle" => job[t] \in JobRecords
  /\ list \in [Actors -> Seq(Names)] /\ at \in [Actors -> Nat]
  /\ acked \in [Threads -> SUBSET Ids] /\ promised \subseteq Ids /\ dropped \in BOOLEAN

Readable(n) == \E i \in 1 .. Len(manifest) : manifest[i][1] = n /\ manifest[i][2] # "COMPACTED"
IsSealed(n) == \E i \in 1 .. Len(manifest) : manifest[i][1] = n /\ manifest[i][2] = "SEALED"

\* Calls run in a life of their own thread, and not during the end of the database.
Calls ==
  \A t \in Threads :
    /\ pc[t] # "idle" =>
         phase = "up" /\ t \in LifeThreads[life] /\ pc[Owner] \in {"idle", "flush", "page"}
    /\ pc[t] \notin {"idle", "get"} => cur[t] # NoFile
    /\ pc[t] \in {"compact", "merge", "mark", "unlink", "recheck", "seal", "reopen"} =>
         entry_buf[t] = <<>>

\* The file behind a descriptor belongs to the thread.  It is sealed, and may be
\* unlinked, only between the two halves of thread_wal_rotate.
Descriptors ==
  \A t \in Threads :
    /\ orphan[t] => pc[t] = "reopen"
    /\ cur[t] # NoFile =>
         /\ phase = "up" /\ t \in LifeThreads[life] /\ cur[t][1] = t /\ Readable(cur[t])
         /\ orphan[t] \/ cur[t] \in DOMAIN file
         /\ IsSealed(cur[t]) => pc[t] = "reopen"

\* The list of thread WALs.
Registered ==
  /\ \A t \in Threads : cur[t] # NoFile \/ acked[t] # {} => \E i \in 1 .. Len(threads) : threads[i] = t
  /\ \A i, j \in 1 .. Len(threads) : threads[i] = threads[j] => i = j
  /\ \A i \in 1 .. Len(threads) :
       pc[Owner] \notin Late \/ (pc[Owner] = "seal_all" /\ at[Owner] <= i) => cur[threads[i]] # NoFile
  /\ pc[Owner] \in {"flush", "destroy_flush", "seal_all"} => at[Owner] >= 1

\* A compacted file is named after a second that has been.
NamesKnown == \A n \in Names : Recorded(n) /\ n[1] = Nobody => n[2] <= now

\* The files that a compaction works on are sealed, and older than the one it writes.
Rank(n) == IF n[1] = Nobody THEN n[2] ELSE 0
Target(t) == list[t][Len(list[t])]
Lists ==
  /\ \A t \in Threads :
       /\ pc[t] = "merge" =>
            at[t] = 1 /\ list[t] # <<>> /\ \A i \in 1 .. Len(list[t]) : IsSealed(list[t][i])
       /\ pc[t] = "mark" =>
            /\ Len(list[t]) >= 2 /\ at[t] \in 1 .. Len(list[t])
            /\ Target(t)[1] = Nobody /\ Target(t)[2] \in 1 .. now
            /\ \A i \in 1 .. (Len(list[t]) - 1) :
                 IsSealed(list[t][i]) /\ Rank(list[t][i]) < Target(t)[2]
       /\ pc[t] = "unlink" =>
            at[t] \in 1 .. Len(list[t]) /\ \A i \in 1 .. Len(list[t]) : IsSealed(list[t][i])
  /\ pc[Owner] \in {"mark", "unlink"} =>
       at[Owner] \in 1 .. Len(list[Owner]) /\ \A i \in 1 .. Len(list[Owner]) : IsSealed(list[Owner][i])

\* A file that a compaction is about to unlink.
Doomed(n) == \E t \in Threads : pc[t] = "unlink" /\ \E i \in 1 .. Len(list[t]) : list[t][i] = n

Holds(d, len, i) == \E j \in 1 .. len : d[j].id = i
InData(i, n) == n \in DOMAIN file /\ Holds(file[n].data, Len(file[n].data), i)
InSynced(i, n) == n \in DOMAIN file /\ Holds(file[n].data, file[n].synced, i)
InBuffer(i, t) == Holds(entry_buf[t], Len(entry_buf[t]), i)
OnTrie(i) == \E k \in Keys : \E j \in 1 .. Len(trie[k]) : trie[k][j] = i
OnPage(i) == \E k \in Keys : \E j \in 1 .. Len(page.chain[k]) : page.chain[k][j] = i

\* The write is in the safe part of a file that recovery reads and that no compaction
\* is about to unlink; or in the checkpoint, once a destroy has dropped the log.
InLiveLog(i) == \E n \in DOMAIN file : InSynced(i, n) /\ Readable(n) /\ ~Doomed(n)
Kept(i) == InLiveLog(i) \/ (dropped /\ OnPage(i))

\* What a compaction between its merged file and its unlinks has read is in that file,
\* or in one that a later compaction has written.
Moved ==
  \A t \in Threads : pc[t] = "mark" =>
    \A m \in 1 .. (Len(list[t]) - 1) : \A i \in Ids : InData(i, list[t][m]) =>
      \E n \in DOMAIN file :
        /\ InSynced(i, n) /\ ~Doomed(n) /\ (Readable(n) \/ n = Target(t))
        /\ n[1] = Nobody /\ n[2] >= Target(t)[2]

\* Where an acknowledged write is before it is safe.
AckedReached ==
  \A t \in Threads : \A i \in acked[t] :
    Kept(i) \/ (pc[t] # "reopen" /\ (InData(i, cur[t]) \/ InBuffer(i, t)))
LoggedReached ==
  \A t \in Threads : pc[t] = "apply" =>
    LET i == job[t].entry.id IN
    /\ mode = "IMMEDIATE" => Kept(i)
    /\ Kept(i) \/ InData(i, cur[t]) \/ InBuffer(i, t)
PromisedKept == \A i \in promised : Kept(i)

\* A destroy runs alone, has made every acknowledged write safe before it writes the
\* checkpoint, and drops log files after that.
Destroy ==
  /\ pc[Owner] # "idle" => phase = "up"
  /\ pc[Owner] \in Destroying => \A t \in Threads : pc[t] = "idle"
  /\ pc[Owner] \in Late => \A i \in Ids : OnTrie(i) => OnPage(i)
  /\ pc[Owner] = "destroy_flush" =>
       \A j \in 1 .. Len(threads) : j < at[Owner] => acked[threads[j]] \subseteq promised
  /\ pc[Owner] \in Late \cup {"destroy_page"} => \A t \in Threads : acked[t] \subseteq promised

\* What the trie of a running process holds.
Memory ==
  /\ phase = "up" => \A i \in Ids : OnPage(i) \/ i \in promised => OnTrie(i)
  /\ \A t \in Threads : \A i \in acked[t] : phase = "up" /\ OnTrie(i)
  /\ Destroy

\* An ID has been given to one write, of one key, wherever it is.
Is(e, i, k) == e.id = i /\ e.key = k
InFiles(i, k) == \E n \in DOMAIN file : \E j \in 1 .. Len(file[n].data) : Is(file[n].data[j], i, k)
InBuffers(i, k) == \E t \in Threads : \E j \in 1 .. Len(entry_buf[t]) : Is(entry_buf[t][j], i, k)
InCalls(i, k) == \E t \in Threads : pc[t] # "idle" /\ Is(job[t].entry, i, k)
InTrie(i, k) == \E j \in 1 .. Len(trie[k]) : trie[k][j] = i
InPage(i, k) == \E j \in 1 .. Len(page.chain[k]) : page.chain[k][j] = i
Seen(i, k) == InFiles(i, k) \/ InBuffers(i, k) \/ InCalls(i, k) \/ InTrie(i, k) \/ InPage(i, k)
OneKey ==
  \A i \in Ids, k \in Keys : Seen(i, k) => i < next_id /\ \A l \in Keys : Seen(i, l) => k = l

IInv ==
  /\ DiskTypes /\ ProcTypes /\ WalTypes
  /\ Calls /\ Descriptors /\ Registered /\ NamesKnown /\ Lists
  /\ Moved /\ AckedReached /\ LoggedReached /\ PromisedKept
  /\ Memory /\ OneKey

(***************************************************************************)
(* The order of IDs and of records.                                        *)
(***************************************************************************)

\* Ascending lists a finite set of numbers: every member, nothing else, and the
\* largest one at the end.
LEMMA AscendingSpec ==
  ASSUME NEW S, S \subseteq Int, IsFiniteSet(S)
  PROVE  /\ Cardinality(S) \in Nat
         /\ Ascending(S) \in [1 .. Cardinality(S) -> S]
         /\ \A x \in S : \E i \in 1 .. Cardinality(S) : Ascending(S)[i] = x
         /\ S # {} => /\ Cardinality(S) \in 1 .. Cardinality(S)
                      /\ \A x \in S : x <= Ascending(S)[Cardinality(S)]
<1> DEFINE c == Cardinality(S)
           Low(x) == {y \in S : y <= x}
           r == [x \in S |-> Cardinality(Low(x))]
<1>1. c \in Nat
  BY FS_CardinalityType
<1>2. \A x \in S : IsFiniteSet(Low(x)) /\ Cardinality(Low(x)) <= c /\ (Cardinality(Low(x)) = c => Low(x) = S)
  BY FS_Subset
<1>3. \A x \in S : Cardinality(Low(x)) \in 1 .. c
  <2> SUFFICES ASSUME NEW x \in S  PROVE Cardinality(Low(x)) \in 1 .. c
    OBVIOUS
  <2>1. Cardinality(Low(x)) \in Nat
    BY <1>2, FS_CardinalityType
  <2>2. x \in Low(x)
    OBVIOUS
  <2>3. Cardinality(Low(x)) # 0
    BY <1>2, <2>2, FS_EmptySet
  <2> QED  BY <1>1, <1>2, <2>1, <2>3
<1>4. \A x, y \in S : r[x] = r[y] => x = y
  <2> SUFFICES ASSUME NEW x \in S, NEW y \in S, x < y  PROVE r[x] # r[y]
    OBVIOUS
  <2>1. Low(x) \in SUBSET Low(y) /\ y \in Low(y) /\ y \notin Low(x)
    <3>1. x \in Int /\ y \in Int /\ \A z \in S : z \in Int
      OBVIOUS
    <3>2. \A z \in S : z <= x => z <= y
      BY <3>1
    <3>3. Low(x) \subseteq Low(y)
      BY <3>2
    <3>4. y <= y /\ ~ (y <= x)
      BY <3>1
    <3> QED  BY <3>3, <3>4
  <2>2. IsFiniteSet(Low(y))
    BY <1>2
  <2> HIDE DEF Low
  <2>3. Cardinality(Low(x)) # Cardinality(Low(y))
    BY <2>1, <2>2, FS_Subset
  <2> QED  BY <2>3
<1>5. r \in Injection(S, 1 .. c)
  <2>1. r \in [S -> 1 .. c]
    BY <1>3
  <2> QED  BY <1>4, <2>1 DEF Injection, IsInjective
<1>6. IsFiniteSet(1 .. c) /\ Cardinality(1 .. c) = c
  BY <1>1, FS_Interval
<1>7. r \in Surjection(S, 1 .. c)
  <2> HIDE DEF r, c
  <2> QED  BY <1>5, <1>6, FS_Injection DEF c
<1>8. \A i \in 1 .. c : \E x \in S : r[x] = i
  BY <1>7 DEF Surjection
<1> HIDE DEF c, r
<1>9. \A i \in 1 .. c : Ascending(S)[i] = CHOOSE x \in S : r[x] = i
  BY DEF Ascending, c, r
<1>10. \A i \in 1 .. c : Ascending(S)[i] \in S /\ r[Ascending(S)[i]] = i
  BY <1>8, <1>9
<1>11. Ascending(S) \in [1 .. c -> S]
  BY <1>10 DEF Ascending, c
<1>12. ASSUME NEW x \in S  PROVE \E i \in 1 .. c : Ascending(S)[i] = x
  <2>1. r[x] \in 1 .. c
    BY <1>3 DEF r
  <2> QED  BY <1>4, <1>10, <2>1
<1>13. ASSUME S # {}  PROVE c \in 1 .. c /\ \A x \in S : x <= Ascending(S)[c]
  <2>1. c # 0
    BY <1>13, FS_EmptySet DEF c
  <2>2. c \in 1 .. c
    BY <1>1, <2>1
  <2>3. r[Ascending(S)[c]] = c /\ Ascending(S)[c] \in S
    BY <1>10, <2>2
  <2>4. Low(Ascending(S)[c]) = S
    BY <1>2, <2>3 DEF r
  <2> QED  BY <2>2, <2>4
<1> QED  BY <1>1, <1>11, <1>12, <1>13 DEF c

\* ById lists a set of entries in which no ID occurs twice.
LEMMA ByIdSpec ==
  ASSUME NEW es, es \subseteq Entries, \A x, y \in es : x.id = y.id => x = y
  PROVE  /\ ById(es) \in Seq(Entries)
         /\ \A i \in 1 .. Len(ById(es)) : ById(es)[i] \in es
         /\ \A e \in es : \E i \in 1 .. Len(ById(es)) : ById(es)[i] = e
<1> DEFINE ids == {e.id : e \in es}
           c == Cardinality(ids)
<1>1. ids \subseteq Int /\ IsFiniteSet(ids)
  <2>1. ids \in SUBSET (1 .. MaxWrites) /\ MaxWrites \in Int
    BY WalManagerAssumption DEF Entries, Ids
  <2>2. IsFiniteSet(1 .. MaxWrites)
    BY <2>1, FS_Interval
  <2> QED  BY <2>1, <2>2, FS_Subset
<1> HIDE DEF ids
<1>2. /\ c \in Nat
      /\ Ascending(ids) \in [1 .. c -> ids]
      /\ \A x \in ids : \E i \in 1 .. c : Ascending(ids)[i] = x
  BY <1>1, AscendingSpec
<1>3. ById(es) = [i \in 1 .. c |-> CHOOSE e \in es : e.id = Ascending(ids)[i]]
  BY DEF ById, ids
<1>4. \A i \in 1 .. c : ById(es)[i] \in es /\ ById(es)[i].id = Ascending(ids)[i]
  <2> SUFFICES ASSUME NEW i \in 1 .. c  PROVE ById(es)[i] \in es /\ ById(es)[i].id = Ascending(ids)[i]
    OBVIOUS
  <2>1. Ascending(ids)[i] \in ids
    BY <1>2
  <2>2. \E e \in es : e.id = Ascending(ids)[i]
    BY <2>1 DEF ids
  <2> QED  BY <1>3, <2>2
<1>5. ById(es) \in Seq(Entries) /\ Len(ById(es)) = c
  <2>1. ById(es) \in [1 .. c -> Entries]
    BY <1>3, <1>4
  <2> QED  BY <1>2, <2>1
<1>6. ASSUME NEW e \in es  PROVE \E i \in 1 .. c : ById(es)[i] = e
  <2>1. e.id \in ids
    BY DEF ids
  <2>2. PICK i \in 1 .. c : Ascending(ids)[i] = e.id
    BY <1>2, <2>1
  <2> QED  BY <1>4, <2>2
<1> QED  BY <1>4, <1>5, <1>6

(***************************************************************************)
(* Files only grow, except where they are unlinked and when power fails.   *)
(***************************************************************************)

Longer(a, b) ==
  /\ Len(a.data) <= Len(b.data) /\ a.synced <= b.synced
  /\ \A j \in 1 .. Len(a.data) : b.data[j] = a.data[j]

\* What names and labels are, for the provers.
LEMMA Constants ==
  /\ Owner \notin Threads /\ Nobody \notin Threads /\ Owner \in Actors /\ Threads \subseteq Actors
  /\ NoFile \notin Names /\ MaxWrites \in Nat /\ MaxSecond \in Nat
  /\ \A n \in Names : n[1] \in Threads \cup {Nobody} /\ n[2] \in 0 .. MaxSecond
  /\ \A t \in Threads \cup {Nobody}, s \in 0 .. MaxSecond :
       <<t, s>> \in Names /\ <<t, s>>[1] = t /\ <<t, s>>[2] = s
BY WalManagerAssumption DEF Actors, Names, NoFile

\* A file with entries es behind its own.
Joins(x, a, b) ==
  /\ \A j \in 1 .. Len(a) : j \in 1 .. Len(x) /\ x[j] = a[j]
  /\ \A j \in 1 .. Len(b) : \E l \in 1 .. Len(x) : x[l] = b[j]
  /\ \A l \in 1 .. Len(x) : \/ \E j \in 1 .. Len(a) : x[l] = a[j]
                            \/ \E j \in 1 .. Len(b) : x[l] = b[j]

\* Appended entries come after the ones that were there.
LEMMA LongerAppend ==
  ASSUME NEW X, NEW d \in Seq(X), NEW es \in Seq(X)
  PROVE  /\ d \o es \in Seq(X) /\ Len(d \o es) = Len(d) + Len(es)
         /\ Len(d) \in Nat /\ Len(es) \in Nat
         /\ \A j \in 1 .. Len(d) : (d \o es)[j] = d[j]
         /\ Joins(d \o es, d, es)
<1>1. /\ d \o es \in Seq(X) /\ Len(d \o es) = Len(d) + Len(es)
      /\ Len(d) \in Nat /\ Len(es) \in Nat
      /\ \A j \in 1 .. Len(d) : (d \o es)[j] = d[j]
  OBVIOUS
<1>2. ASSUME NEW j \in 1 .. Len(es)
      PROVE  Len(d) + j \in 1 .. Len(d \o es) /\ (d \o es)[Len(d) + j] = es[j]
  BY <1>1
<1>3. ASSUME NEW l \in 1 .. Len(d \o es)
      PROVE  \/ l \in 1 .. Len(d) /\ (d \o es)[l] = d[l]
             \/ l - Len(d) \in 1 .. Len(es) /\ (d \o es)[l] = es[l - Len(d)]
  BY <1>1
<1>4. \A j \in 1 .. Len(d) : j \in 1 .. Len(d \o es)
  BY <1>1
<1>5. Joins(d \o es, d, es)
  BY <1>1, <1>2, <1>3, <1>4, Zenon DEF Joins
<1> QED  BY <1>1, <1>5

\* open with O_CREAT.
LEMMA CreatedEffect ==
  ASSUME FilesOK(file), NEW n \in Names
  PROVE  /\ FilesOK(Created(n)) /\ DOMAIN Created(n) = DOMAIN file \cup {n}
         /\ \A m \in DOMAIN file : Created(n)[m] = file[m]
         /\ n \notin DOMAIN file => Created(n)[n].data = <<>> /\ Created(n)[n].synced = 0
<1> DEFINE new == [data |-> <<>>, synced |-> 0]
<1>1. new \in Files /\ new.data = <<>> /\ new.synced = 0 /\ Len(new.data) = 0
  BY DEF Files
<1>2. CASE n \in DOMAIN file
  BY <1>2 DEF Created, FilesOK
<1>3. CASE n \notin DOMAIN file
  <2>1. Created(n) = [m \in DOMAIN file \cup {n} |-> IF m = n THEN new ELSE file[m]]
    BY <1>3 DEF Created
  <2> HIDE DEF new
  <2>2. DOMAIN Created(n) = DOMAIN file \cup {n}
    BY <2>1
  <2>3. \A m \in DOMAIN file : Created(n)[m] = file[m]
    BY <1>3, <2>1
  <2>4. Created(n)[n] = new
    BY <2>1
  <2>5. FilesOK(Created(n))
    <3>1. \A m \in DOMAIN Created(n) : Created(n)[m] \in Files /\ Created(n)[m].synced <= Len(Created(n)[m].data)
      BY <1>1, <2>2, <2>3, <2>4 DEF FilesOK
    <3>2. Created(n) = [m \in DOMAIN Created(n) |-> Created(n)[m]]
      BY <2>1
    <3> QED  BY <2>2, <3>1, <3>2 DEF FilesOK
  <2> QED  BY <1>1, <2>2, <2>3, <2>4, <2>5
<1> QED  BY <1>2, <1>3

\* write, and fsync if asked.
LEMMA WrittenEffect ==
  ASSUME NEW f, FilesOK(f), NEW n \in DOMAIN f, NEW es \in Seq(Entries), NEW sync \in BOOLEAN
  PROVE  /\ FilesOK(Written(f, n, es, sync)) /\ DOMAIN Written(f, n, es, sync) = DOMAIN f
         /\ \A m \in DOMAIN f \ {n} : Written(f, n, es, sync)[m] = f[m]
         /\ Written(f, n, es, sync)[n].data = f[n].data \o es
         /\ sync => Written(f, n, es, sync)[n].synced = Len(Written(f, n, es, sync)[n].data)
         /\ Longer(f[n], Written(f, n, es, sync)[n])
<1> DEFINE d == f[n].data
           s == IF sync THEN Len(d) + Len(es) ELSE f[n].synced
           x == [data |-> d \o es, synced |-> s]
<1>1. d \in Seq(Entries) /\ f[n].synced \in Nat /\ f[n].synced <= Len(d)
  BY DEF FilesOK, Files
<1>2. d \o es \in Seq(Entries) /\ Len(d \o es) = Len(d) + Len(es) /\ Len(d) \in Nat /\ Len(es) \in Nat
      /\ \A j \in 1 .. Len(d) : (d \o es)[j] = d[j]
  BY <1>1, LongerAppend
<1>3. s \in Nat /\ s <= Len(d \o es) /\ f[n].synced <= s
  BY <1>1, <1>2
<1>4. Written(f, n, es, sync) = [f EXCEPT ![n] = x]
  BY DEF Written
<1>5. x \in Files /\ x.data = d \o es /\ x.synced = s
  BY <1>2, <1>3 DEF Files
<1> HIDE DEF x
<1>6. FilesOK(Written(f, n, es, sync)) /\ DOMAIN Written(f, n, es, sync) = DOMAIN f
      /\ Written(f, n, es, sync)[n] = x /\ \A m \in DOMAIN f \ {n} : Written(f, n, es, sync)[m] = f[m]
  BY <1>3, <1>4, <1>5 DEF FilesOK
<1>7. Longer(f[n], x)
  BY <1>1, <1>2, <1>3, <1>5 DEF Longer
<1> QED  BY <1>2, <1>5, <1>6, <1>7

\* No file is lost, and none loses entries.
Grown == \A n \in DOMAIN file : n \in DOMAIN file' /\ Longer(file[n], file'[n])

\* thread_wal_flush_buffer_locked.
LEMMA FlushEffect ==
  ASSUME FilesOK(file), WalTypes, Descriptors, NEW t \in Threads, pc[t] # "reopen",
         NEW extra \in Seq(Entries), NEW sync \in BOOLEAN, Flush(t, extra, sync)
  PROVE  /\ FilesOK(file') /\ DOMAIN file' = DOMAIN file /\ Grown
         /\ \A n \in DOMAIN file : n # cur[t] => file'[n] = file[n]
         /\ entry_buf' = [entry_buf EXCEPT ![t] = <<>>]
         /\ entry_buf' \in [Threads -> Seq(Entries)]
         /\ cur[t] # NoFile =>
              LET d == file'[cur[t]].data IN
              /\ cur[t] \in DOMAIN file
              /\ \A i : \/ Holds(file[cur[t]].data, Len(file[cur[t]].data), i)
                        \/ Holds(entry_buf[t], Len(entry_buf[t]), i)
                        \/ Holds(extra, Len(extra), i)
                        => Holds(d, Len(d), i)
              /\ sync => file'[cur[t]].synced = Len(d)
              /\ \A j \in 1 .. Len(d) :
                   \/ \E l \in 1 .. Len(file[cur[t]].data) : d[j] = file[cur[t]].data[l]
                   \/ \E l \in 1 .. Len(entry_buf[t]) : d[j] = entry_buf[t][l]
                   \/ \E l \in 1 .. Len(extra) : d[j] = extra[l]
<1> DEFINE es == entry_buf[t] \o extra
           c == cur[t]
<1>1. entry_buf[t] \in Seq(Entries) /\ ~orphan[t] /\ (c # NoFile => c \in DOMAIN file)
  BY DEF WalTypes, Descriptors
<1>2. es \in Seq(Entries) /\ Joins(es, entry_buf[t], extra)
  BY <1>1, LongerAppend
<1>3. entry_buf' = [entry_buf EXCEPT ![t] = <<>>] /\ entry_buf' \in [Threads -> Seq(Entries)]
  BY DEF Flush, WalTypes
<1> HIDE DEF es
<1>4. CASE c = NoFile
  <2>1. file' = file
    BY <1>4 DEF Flush
  <2>2. Grown
    BY <2>1 DEF Grown, Longer, FilesOK, Files
  <2> QED  BY <1>3, <1>4, <2>1, <2>2
<1>5. CASE c # NoFile
  <2>1. file' = Written(file, c, es, sync) /\ c \in DOMAIN file
    BY <1>1, <1>5 DEF Flush, es
  <2>2. LET W == Written(file, c, es, sync) IN
        /\ FilesOK(W) /\ DOMAIN W = DOMAIN file
        /\ \A m \in DOMAIN file \ {c} : W[m] = file[m]
        /\ W[c].data = file[c].data \o es
        /\ sync => W[c].synced = Len(W[c].data)
        /\ Longer(file[c], W[c])
    <3>1. c \in DOMAIN file /\ sync \in BOOLEAN /\ FilesOK(file)
      BY <2>1
    <3> HIDE DEF c
    <3> QED  BY <1>2, <3>1, WrittenEffect, Zenon
  <2>3. /\ FilesOK(file') /\ DOMAIN file' = DOMAIN file
        /\ \A m \in DOMAIN file \ {c} : file'[m] = file[m]
        /\ file'[c].data = file[c].data \o es
        /\ (sync => file'[c].synced = Len(file'[c].data))
        /\ Longer(file[c], file'[c])
    BY <2>1, <2>2
  <2>4. Grown
    <3>1. \A n \in DOMAIN file : Longer(file[n], file[n])
      BY DEF Longer, FilesOK, Files
    <3> QED  BY <2>3, <3>1 DEF Grown
  <2> DEFINE o == file[c].data
             d == file'[c].data
  <2>5. Joins(d, o, es)
    <3>1. file[c].data \in Seq(Entries)
      BY <2>1 DEF FilesOK, Files
    <3>2. Joins(o \o es, o, es)
      BY <1>2, <3>1, LongerAppend
    <3> QED  BY <2>3, <3>2
  <2> HIDE DEF o, d
  <2>6. \A i : Holds(o, Len(o), i) \/ Holds(es, Len(es), i) => Holds(d, Len(d), i)
    BY <2>5, ZenonT(60) DEF Holds, Joins
  <2>7. \A i : Holds(entry_buf[t], Len(entry_buf[t]), i) \/ Holds(extra, Len(extra), i) => Holds(es, Len(es), i)
    BY <1>2, ZenonT(60) DEF Holds, Joins
  <2>8. \A j \in 1 .. Len(d) : \/ \E l \in 1 .. Len(o) : d[j] = o[l]
                               \/ \E l \in 1 .. Len(entry_buf[t]) : d[j] = entry_buf[t][l]
                               \/ \E l \in 1 .. Len(extra) : d[j] = extra[l]
    <3> SUFFICES ASSUME NEW j \in 1 .. Len(d)
                 PROVE  \/ \E l \in 1 .. Len(o) : d[j] = o[l]
                        \/ \E l \in 1 .. Len(entry_buf[t]) : d[j] = entry_buf[t][l]
                        \/ \E l \in 1 .. Len(extra) : d[j] = extra[l]
      OBVIOUS
    <3>1. \/ \E l \in 1 .. Len(o) : d[j] = o[l]
          \/ \E l \in 1 .. Len(es) : d[j] = es[l]
      BY <2>5, Zenon DEF Joins
    <3>2. ASSUME NEW l \in 1 .. Len(es)
          PROVE  \/ \E k \in 1 .. Len(entry_buf[t]) : es[l] = entry_buf[t][k]
                 \/ \E k \in 1 .. Len(extra) : es[l] = extra[k]
      BY <1>2, Zenon DEF Joins
    <3> QED  BY <3>1, <3>2
  <2> QED  BY <1>3, <2>1, <2>3, <2>4, <2>6, <2>7, <2>8 DEF o, d
<1> QED  BY <1>4, <1>5

\* The merged file of a compaction holds what its sources hold, and is safe.
LEMMA MergeEffect ==
  ASSUME FilesOK(file), ProcTypes, WalTypes, OneKey, NEW t \in Threads, CompactMerge(t)
  PROVE  LET g == <<Nobody, now>> IN
         /\ FilesOK(file') /\ DOMAIN file' = DOMAIN file \cup {g} /\ Grown
         /\ \A n \in DOMAIN file \ {g} : file'[n] = file[n]
         /\ file'[g].synced = Len(file'[g].data)
         /\ \A m \in 1 .. Len(list[t]), i \in Ids :
              InData(i, list[t][m]) => Holds(file'[g].data, Len(file'[g].data), i)
         /\ \A j \in 1 .. Len(file'[g].data) :
              \E n \in DOMAIN file : \E l \in 1 .. Len(file[n].data) : file'[g].data[j] = file[n].data[l]
<1> DEFINE g == <<Nobody, now>>
           present == {i \in 1 .. Len(list[t]) : list[t][i] \in DOMAIN file}
           es == UNION {ToSet(file[list[t][i]].data) : i \in present}
           b == ById(es)
           f == Created(g)
<1>0. g \in Names
  BY Constants DEF ProcTypes, Seconds
<1>1. \A n \in DOMAIN file : file[n].data \in Seq(Entries) /\ Len(file[n].data) \in Nat
  BY DEF FilesOK, Files
<1>2. \A e : e \in es <=> \E i \in present : \E j \in 1 .. Len(file[list[t][i]].data) : e = file[list[t][i]].data[j]
  BY <1>1 DEF ToSet
<1>3. es \subseteq Entries /\ \A x, y \in es : x.id = y.id => x = y
  <2>1. ASSUME NEW x \in es  PROVE x \in Entries /\ x.id \in Ids /\ x.key \in Keys /\ Seen(x.id, x.key)
    <3>1. PICK i \in present : \E j \in 1 .. Len(file[list[t][i]].data) : x = file[list[t][i]].data[j]
      BY <1>2
    <3>2. PICK j \in 1 .. Len(file[list[t][i]].data) : x = file[list[t][i]].data[j]
      BY <3>1
    <3>3. list[t][i] \in DOMAIN file
      BY <3>1
    <3>4. x \in Entries
      BY <1>1, <3>2, <3>3
    <3> QED  BY <3>2, <3>3, <3>4 DEF Seen, InFiles, Is, Entries
  <2>2. \A x, y \in Entries : x.id = y.id /\ x.key = y.key => x = y
    BY DEF Entries
  <2> QED  BY <2>1, <2>2 DEF OneKey
<1>4. /\ b \in Seq(Entries)
      /\ \A i \in 1 .. Len(b) : b[i] \in es
      /\ \A e \in es : \E i \in 1 .. Len(b) : b[i] = e
  <2> HIDE DEF es
  <2> QED  BY <1>3, ByIdSpec
<1>5. file' = Written(f, g, b, TRUE)
  BY DEF CompactMerge
<1> HIDE DEF b, es
<1>6. /\ FilesOK(f) /\ DOMAIN f = DOMAIN file \cup {g}
      /\ \A m \in DOMAIN file : f[m] = file[m]
      /\ g \notin DOMAIN file => f[g].data = <<>> /\ f[g].synced = 0
  BY <1>0, CreatedEffect
<1> HIDE DEF f
<1>7. LET W == Written(f, g, b, TRUE) IN
      /\ FilesOK(W) /\ DOMAIN W = DOMAIN f
      /\ \A m \in DOMAIN f \ {g} : W[m] = f[m]
      /\ W[g].data = f[g].data \o b
      /\ W[g].synced = Len(W[g].data)
      /\ Longer(f[g], W[g])
  <2>1. g \in DOMAIN f /\ TRUE \in BOOLEAN
    BY <1>6
  <2> HIDE DEF g
  <2>2. ASSUME NEW sync \in BOOLEAN
        PROVE  LET W == Written(f, g, b, sync) IN
               /\ FilesOK(W) /\ DOMAIN W = DOMAIN f
               /\ \A m \in DOMAIN f \ {g} : W[m] = f[m]
               /\ W[g].data = f[g].data \o b
               /\ sync => W[g].synced = Len(W[g].data)
               /\ Longer(f[g], W[g])
    <3>1. FilesOK(f) /\ b \in Seq(Entries)
      BY <1>4, <1>6
    <3> QED  BY <2>1, <3>1, WrittenEffect, Zenon
  <2> QED  BY <2>2
<1>8. /\ FilesOK(file') /\ DOMAIN file' = DOMAIN file \cup {g}
      /\ \A m \in DOMAIN file \ {g} : file'[m] = file[m]
      /\ file'[g].data = f[g].data \o b
      /\ file'[g].synced = Len(file'[g].data)
      /\ Longer(f[g], file'[g])
  BY <1>5, <1>6, <1>7
<1> DEFINE o == f[g].data
           d == file'[g].data
<1>9. Joins(d, o, b)
  <2>1. o \in Seq(Entries)
    BY <1>6 DEF FilesOK, Files
  <2>2. Joins(o \o b, o, b)
    BY <1>4, <2>1, LongerAppend
  <2> QED  BY <1>8, <2>2
<1>10. Grown
  <2>1. \A n \in DOMAIN file : Longer(file[n], file[n])
    BY DEF Longer, FilesOK, Files
  <2>2. g \in DOMAIN file => f[g] = file[g]
    BY <1>6
  <2> QED  BY <1>8, <2>1, <2>2 DEF Grown
<1>11. ASSUME NEW m \in 1 .. Len(list[t]), NEW i \in Ids, InData(i, list[t][m])
       PROVE  Holds(d, Len(d), i)
  <2>1. list[t][m] \in DOMAIN file
    BY <1>11 DEF InData
  <2>2. PICK j \in 1 .. Len(file[list[t][m]].data) : file[list[t][m]].data[j].id = i
    BY <1>11 DEF InData, Holds
  <2>3. file[list[t][m]].data[j] \in es
    BY <1>2, <2>1
  <2>4. PICK l \in 1 .. Len(b) : b[l] = file[list[t][m]].data[j]
    BY <1>4, <2>3
  <2>5. PICK k \in 1 .. Len(d) : d[k] = b[l]
    BY <1>9 DEF Joins
  <2> QED  BY <2>2, <2>4, <2>5 DEF Holds
<1>12. ASSUME NEW j \in 1 .. Len(d)
       PROVE  \E n \in DOMAIN file : \E l \in 1 .. Len(file[n].data) : d[j] = file[n].data[l]
  <2>1. \A l \in 1 .. Len(b) : \E n \in DOMAIN file : \E k \in 1 .. Len(file[n].data) : b[l] = file[n].data[k]
    BY <1>2, <1>4
  <2>2. \A l \in 1 .. Len(o) : g \in DOMAIN file /\ o[l] = file[g].data[l] /\ l \in 1 .. Len(file[g].data)
    BY <1>6
  <2> HIDE DEF o, d, g
  <2>3. \/ \E l \in 1 .. Len(o) : d[j] = o[l]
        \/ \E l \in 1 .. Len(b) : d[j] = b[l]
    BY <1>9, Zenon DEF Joins
  <2> QED  BY <2>1, <2>2, <2>3
<1> HIDE DEF d
<1>13. /\ \A m \in 1 .. Len(list[t]), i \in Ids : InData(i, list[t][m]) => Holds(d, Len(d), i)
       /\ \A j \in 1 .. Len(d) :
            \E n \in DOMAIN file : \E l \in 1 .. Len(file[n].data) : d[j] = file[n].data[l]
  BY <1>11, <1>12, Zenon
<1> QED  BY <1>8, <1>10, <1>13 DEF d

\* A power failure keeps at least the safe part of every file.
LEMMA SurvivorEffect ==
  ASSUME FilesOK(file), file' \in Survivors
  PROVE  /\ FilesOK(file') /\ DOMAIN file' = DOMAIN file
         /\ \A n \in DOMAIN file :
              /\ file[n].synced <= file'[n].synced /\ file'[n].synced = Len(file'[n].data)
              /\ Len(file'[n].data) <= Len(file[n].data)
              /\ \A j \in 1 .. Len(file'[n].data) : file'[n].data[j] = file[n].data[j]
<1>1. /\ DOMAIN file' = DOMAIN file /\ file' = [n \in DOMAIN file |-> file'[n]]
      /\ \A n \in DOMAIN file : \E m \in file[n].synced .. Len(file[n].data) :
           file'[n] = [data |-> SubSeq(file[n].data, 1, m), synced |-> m]
  BY DEF Survivors
<1>2. ASSUME NEW n \in DOMAIN file
      PROVE  /\ file'[n] \in Files
             /\ file[n].synced <= file'[n].synced /\ file'[n].synced = Len(file'[n].data)
             /\ Len(file'[n].data) <= Len(file[n].data)
             /\ \A j \in 1 .. Len(file'[n].data) : file'[n].data[j] = file[n].data[j]
  <2> DEFINE d == file[n].data
  <2>1. d \in Seq(Entries) /\ file[n].synced \in Nat
    BY DEF FilesOK, Files
  <2>2. PICK m \in file[n].synced .. Len(d) : file'[n] = [data |-> SubSeq(d, 1, m), synced |-> m]
    BY <1>1
  <2>3. m \in Nat /\ m <= Len(d) /\ Len(d) \in Nat
    BY <2>1, <2>2
  <2> HIDE DEF d
  <2>4. SubSeq(d, 1, m) \in Seq(Entries) /\ Len(SubSeq(d, 1, m)) = m
        /\ \A j \in 1 .. m : SubSeq(d, 1, m)[j] = d[j]
    BY <2>1, <2>3
  <2>5. file'[n].data = SubSeq(d, 1, m) /\ file'[n].synced = m
    BY <2>2
  <2>6. file'[n] \in Files
    BY <2>2, <2>3, <2>4 DEF Files
  <2> QED  BY <2>2, <2>3, <2>4, <2>5, <2>6 DEF d
<1>3. FilesOK(file')
  BY <1>1, <1>2 DEF FilesOK, Files
<1> QED  BY <1>1, <1>2, <1>3

\* What a manifest record changes.
LEMMA RecordEffect ==
  ASSUME manifest \in Seq(Names \X Statuses), NEW n \in Names, NEW st \in Statuses, Record(n, st)
  PROVE  /\ manifest' \in Seq(Names \X Statuses)
         /\ \A m : Recorded(m)' <=> Recorded(m) \/ m = n
         /\ \A m : Readable(m)' <=> Readable(m) \/ (m = n /\ st # "COMPACTED")
         /\ \A m : IsSealed(m)' <=> IsSealed(m) \/ (m = n /\ st = "SEALED")
<1> DEFINE r == <<n, st>>
           k == Len(manifest)
<1>1. manifest' = Append(manifest, r) /\ r \in Names \X Statuses /\ r[1] = n /\ r[2] = st
  BY DEF Record
<1> HIDE DEF r
<1>2. /\ manifest' \in Seq(Names \X Statuses) /\ k \in Nat /\ Len(manifest') = k + 1
      /\ manifest'[k + 1] = r /\ \A i \in 1 .. k : manifest'[i] = manifest[i]
  BY <1>1
<1>3. \A i \in 1 .. Len(manifest') : i \in 1 .. k \/ i = k + 1
  BY <1>2
<1>4. k + 1 \in 1 .. Len(manifest') /\ \A i \in 1 .. k : i \in 1 .. Len(manifest')
  BY <1>2
<1>5. \A m : Recorded(m)' <=> Recorded(m) \/ m = n
  BY <1>1, <1>2, <1>3, <1>4 DEF Recorded
<1>6. \A m : Readable(m)' <=> Readable(m) \/ (m = n /\ st # "COMPACTED")
  BY <1>1, <1>2, <1>3, <1>4 DEF Readable
<1>7. \A m : IsSealed(m)' <=> IsSealed(m) \/ (m = n /\ st = "SEALED")
  BY <1>1, <1>2, <1>3, <1>4 DEF IsSealed
<1> QED  BY <1>2, <1>5, <1>6, <1>7

\* An unchanged manifest records the same files.
LEMMA RecordsSame ==
  ASSUME manifest' = manifest
  PROVE  /\ \A m : Recorded(m)' <=> Recorded(m)
         /\ \A m : Readable(m)' <=> Readable(m)
         /\ \A m : IsSealed(m)' <=> IsSealed(m)
BY DEF Recorded, Readable, IsSealed

\* A sealed file is read by recovery, and has a record.
LEMMA RecordsKinds ==
  \A n : (IsSealed(n) => Readable(n)) /\ (Readable(n) => Recorded(n))
BY DEF Recorded, Readable, IsSealed

\* The list of a compaction has the files with a SEALED record.
LEMMA SealedSpec ==
  ASSUME manifest \in Seq(Names \X Statuses)
  PROVE  Sealed \in Seq(Names) /\ \A i \in 1 .. Len(Sealed) : IsSealed(Sealed[i])
<1> DEFINE c == Cardinality(SealedAt)
<1>1. SealedAt \in SUBSET (1 .. Len(manifest)) /\ Len(manifest) \in Int /\ SealedAt \subseteq Int
  BY DEF SealedAt
<1>2. IsFiniteSet(SealedAt)
  <2>1. IsFiniteSet(1 .. Len(manifest))
    BY <1>1, FS_Interval
  <2> QED  BY <1>1, <2>1, FS_Subset
<1>3. c \in Nat /\ Ascending(SealedAt) \in [1 .. c -> SealedAt]
  BY <1>1, <1>2, AscendingSpec
<1>4. Sealed = [j \in 1 .. c |-> manifest[Ascending(SealedAt)[j]][1]]
  BY DEF Sealed
<1> HIDE DEF c
<1>5. ASSUME NEW j \in 1 .. c  PROVE Sealed[j] \in Names /\ IsSealed(Sealed[j])
  <2>1. Ascending(SealedAt)[j] \in SealedAt
    BY <1>3
  <2>2. PICK i \in 1 .. Len(manifest) : i = Ascending(SealedAt)[j] /\ manifest[i][2] = "SEALED"
    BY <2>1 DEF SealedAt
  <2>3. manifest[i] \in Names \X Statuses
    BY <2>2
  <2>4. manifest[i][1] \in Names
    BY <2>3
  <2>5. Sealed[j] = manifest[i][1]
    BY <1>4, <2>2
  <2> QED  BY <2>2, <2>4, <2>5 DEF IsSealed
<1>6. Sealed \in [1 .. c -> Names]
  BY <1>4, <1>5
<1> QED  BY <1>3, <1>5, <1>6

\* Replay puts the logged IDs of a key on top of its chain, the largest one first.
LEMMA ReplayedSpec ==
  ASSUME NEW k \in Keys, page.chain[k] \in Seq(Ids), NEW es, es \subseteq Entries
  PROVE  LET ids == {e.id : e \in {x \in es : x.key = k}}
             r == Replayed(k, es)
         IN
         /\ r \in Seq(Ids)
         /\ \A i \in ids : \E j \in 1 .. Len(r) : r[j] = i
         /\ \A l \in 1 .. Len(page.chain[k]) : \E j \in 1 .. Len(r) : r[j] = page.chain[k][l]
         /\ \A j \in 1 .. Len(r) : r[j] \in ids \/ \E l \in 1 .. Len(page.chain[k]) : r[j] = page.chain[k][l]
         /\ ids # {} => r # <<>> /\ r[1] \in ids /\ \A i \in ids : i <= r[1]
<1> DEFINE ids == {e.id : e \in {x \in es : x.key = k}}
           c == Cardinality(ids)
           v == Reverse(Ascending(ids))
           r == Replayed(k, es)
           p == page.chain[k]
<1>1. ids \in SUBSET (1 .. MaxWrites) /\ MaxWrites \in Int
  BY WalManagerAssumption DEF Entries, Ids
<1>2. ids \subseteq Int /\ IsFiniteSet(ids) /\ ids \subseteq Ids
  <2>1. IsFiniteSet(1 .. MaxWrites)
    BY <1>1, FS_Interval
  <2> HIDE DEF ids
  <2>2. IsFiniteSet(ids)
    BY <1>1, <2>1, FS_Subset
  <2>3. ids \subseteq Ids /\ \A i \in ids : i \in Int
    BY <1>1 DEF Ids
  <2> QED  BY <2>2, <2>3
<1>3. r = v \o p
  BY DEF Replayed
<1> HIDE DEF ids, r
<1>4. /\ c \in Nat
      /\ Ascending(ids) \in [1 .. c -> ids]
      /\ \A x \in ids : \E i \in 1 .. c : Ascending(ids)[i] = x
      /\ ids # {} => /\ c \in 1 .. c
                     /\ \A x \in ids : x <= Ascending(ids)[c]
  BY <1>2, AscendingSpec
<1> HIDE DEF c
<1>5. Ascending(ids) \in Seq(ids) /\ Len(Ascending(ids)) = c
  BY <1>4
<1>6. v = [i \in 1 .. c |-> Ascending(ids)[(c - i) + 1]]
  BY <1>5 DEF Reverse
<1> HIDE DEF v
<1>7. \A i \in 1 .. c : (c - i) + 1 \in 1 .. c /\ v[i] = Ascending(ids)[(c - i) + 1] /\ v[i] \in ids
  BY <1>4, <1>6
<1>8. v \in [1 .. c -> ids]
  BY <1>6, <1>7
<1>9. v \in Seq(Ids) /\ Len(v) = c
  <2>1. v \in [1 .. c -> Ids]
    BY <1>2, <1>8
  <2> QED  BY <1>4, <2>1
<1>10. r \in Seq(Ids) /\ Joins(r, v, p) /\ \A j \in 1 .. Len(v) : r[j] = v[j]
  <2>1. v \in Seq(Ids) /\ p \in Seq(Ids)
    BY <1>9
  <2> HIDE DEF p
  <2>2. v \o p \in Seq(Ids) /\ Joins(v \o p, v, p) /\ \A j \in 1 .. Len(v) : (v \o p)[j] = v[j]
    BY <2>1, LongerAppend, Zenon
  <2> QED  BY <1>3, <2>2
<1>11. ASSUME NEW x \in ids  PROVE \E j \in 1 .. c : v[j] = x
  <2>1. PICK i \in 1 .. c : Ascending(ids)[i] = x
    BY <1>4
  <2>2. (c - i) + 1 \in 1 .. c /\ (c - ((c - i) + 1)) + 1 = i
    BY <1>4
  <2> QED  BY <1>6, <2>1, <2>2
<1>12. ASSUME ids # {}  PROVE r # <<>> /\ r[1] \in ids /\ \A i \in ids : i <= r[1]
  <2>1. 1 \in 1 .. c /\ (c - 1) + 1 = c
    BY <1>4, <1>12
  <2>2. v[1] = Ascending(ids)[c] /\ v[1] \in ids
    BY <1>7, <2>1
  <2>3. 1 \in 1 .. Len(r)
    BY <1>9, <1>10, <2>1 DEF Joins
  <2>4. r # <<>>
    BY <2>3
  <2> QED  BY <1>4, <1>9, <1>10, <1>12, <2>1, <2>2, <2>4
<1>13. \A i \in ids : \E j \in 1 .. Len(r) : r[j] = i
  BY <1>9, <1>10, <1>11 DEF Joins
<1>14. \A j \in 1 .. Len(r) : r[j] \in ids \/ \E l \in 1 .. Len(p) : r[j] = p[l]
  BY <1>7, <1>9, <1>10 DEF Joins
<1>15. \A l \in 1 .. Len(p) : \E j \in 1 .. Len(r) : r[j] = p[l]
  BY <1>10 DEF Joins
<1> QED  BY <1>10, <1>12, <1>13, <1>14, <1>15 DEF ids, r

(***************************************************************************)
(* What a step does to the disk.                                           *)
(***************************************************************************)

\* A sealed file is not written to, nor made anew.
Untouched ==
  \A n : IsSealed(n) /\ n \in DOMAIN file' => n \in DOMAIN file /\ file'[n] = file[n]
MoreRecords ==
  \A n : (Recorded(n) => Recorded(n)') /\ (Readable(n) => Readable(n)') /\ (IsSealed(n) => IsSealed(n)')

\* Unchanged files have neither grown nor been touched.
LEMMA FileSame ==
  ASSUME FilesOK(file), file' = file
  PROVE  FilesOK(file') /\ Grown /\ Untouched
BY DEF FilesOK, Files, Grown, Longer, Untouched

\* A file under a new name changes no other file.
LEMMA CreateGrows ==
  ASSUME FilesOK(file), NEW n \in Names, file' = Created(n), ~Recorded(n)
  PROVE  FilesOK(file') /\ Grown /\ Untouched /\ DOMAIN file' = DOMAIN file \cup {n}
         /\ \A m \in DOMAIN file : file'[m] = file[m]
         /\ n \notin DOMAIN file => file'[n].data = <<>>
<1>1. /\ FilesOK(file') /\ DOMAIN file' = DOMAIN file \cup {n}
      /\ \A m \in DOMAIN file : file'[m] = file[m]
      /\ n \notin DOMAIN file => file'[n].data = <<>>
  BY CreatedEffect
<1>2. \A m \in DOMAIN file : Longer(file[m], file[m])
  BY DEF Longer, FilesOK, Files
<1>3. Grown
  BY <1>1, <1>2 DEF Grown
<1>4. Untouched
  BY <1>1, RecordsKinds DEF Untouched
<1> QED  BY <1>1, <1>3, <1>4

\* A flush writes to a file that is not sealed.
LEMMA FlushGrows ==
  ASSUME IInv, NEW t \in Threads, pc[t] # "reopen",
         NEW extra \in Seq(Entries), NEW sync \in BOOLEAN, Flush(t, extra, sync)
  PROVE  FilesOK(file') /\ Grown /\ Untouched
<1>1. FilesOK(file) /\ WalTypes /\ Descriptors
  BY DEF IInv, DiskTypes
<1>2. /\ FilesOK(file') /\ DOMAIN file' = DOMAIN file /\ Grown
      /\ \A n \in DOMAIN file : n # cur[t] => file'[n] = file[n]
  BY <1>1, FlushEffect, Zenon
<1>3. cur[t] \in DOMAIN file => ~IsSealed(cur[t])
  BY <1>1, Constants DEF Descriptors, FilesOK
<1> QED  BY <1>2, <1>3 DEF Untouched

\* thread_wal_rotate begins with the thread's own file, which is not sealed yet.
LEMMA SealEffect ==
  ASSUME IInv, NEW t \in Threads, Seal(t)
  PROVE  LET c == cur[t] IN
         /\ c \in DOMAIN file /\ c \in Names /\ ~IsSealed(c) /\ Readable(c)
         /\ FilesOK(file') /\ DOMAIN file' = DOMAIN file /\ Grown /\ Untouched
         /\ \A n \in DOMAIN file : n # c => file'[n] = file[n]
         /\ file'[c].data = file[c].data \o <<>>
         /\ file'[c].synced = Len(file'[c].data)
<1> DEFINE c == cur[t]
<1>1. /\ c \in DOMAIN file /\ c \in Names /\ ~IsSealed(c) /\ Readable(c) /\ ~orphan[t]
  BY ZenonT(60) DEF IInv, Calls, Descriptors, WalTypes, Seal
<1>2. file' = Written(file, c, <<>>, TRUE)
  BY <1>1 DEF Seal
<1>3. FilesOK(file)
  BY DEF IInv, DiskTypes
<1> HIDE DEF c
<1>4. ASSUME NEW sync \in BOOLEAN
      PROVE  LET W == Written(file, c, <<>>, sync) IN
             /\ FilesOK(W) /\ DOMAIN W = DOMAIN file
             /\ \A m \in DOMAIN file \ {c} : W[m] = file[m]
             /\ W[c].data = file[c].data \o <<>>
             /\ sync => W[c].synced = Len(W[c].data)
             /\ Longer(file[c], W[c])
  <2>1. <<>> \in Seq(Entries) /\ c \in DOMAIN file
    BY <1>1
  <2> QED  BY <1>3, <2>1, WrittenEffect, Zenon
<1>5. /\ FilesOK(file') /\ DOMAIN file' = DOMAIN file
      /\ \A m \in DOMAIN file \ {c} : file'[m] = file[m]
      /\ file'[c].data = file[c].data \o <<>>
      /\ file'[c].synced = Len(file'[c].data)
      /\ Longer(file[c], file'[c])
  BY <1>2, <1>4
<1>6. \A m \in DOMAIN file : Longer(file[m], file[m])
  BY <1>3 DEF Longer, FilesOK, Files
<1>7. Grown
  BY <1>5, <1>6 DEF Grown
<1>8. Untouched
  BY <1>1, <1>5 DEF Untouched
<1> QED  BY <1>1, <1>5, <1>7, <1>8 DEF c

\* A thread that has no file yet in this life makes one that nobody knows.
LEMMA FirstName ==
  ASSUME NEW t \in Threads, GetThreadWal(t), cur[t] = NoFile, ~reused'
  PROVE  <<t, 0>> \in Names /\ ~Recorded(<<t, 0>>)
<1>1. <<t, 0>> \in Names
  BY Constants
<1>2. Reuse(<<t, 0>>)
  BY DEF GetThreadWal
<1> QED  BY <1>1, <1>2 DEF Reuse

\* So does one that rotates or compacts.
LEMMA NextName ==
  ASSUME NEW n \in Names, Reuse(n), ~reused'
  PROVE  ~Recorded(n)
BY DEF Reuse

\* The thread WAL that wal_manager_flush or wal_manager_seal_and_compact is at.
LEMMA AtThread ==
  ASSUME IInv, pc[Owner] \in {"flush", "destroy_flush", "seal_all"}, at[Owner] <= Len(threads)
  PROVE  /\ at[Owner] \in 1 .. Len(threads) /\ threads[at[Owner]] \in Threads
         /\ cur[threads[at[Owner]]] # NoFile /\ cur[threads[at[Owner]]] \in Names
<1>1. at[Owner] \in Nat /\ threads \in Seq(Threads)
  BY Constants DEF IInv, WalTypes
<1>2. at[Owner] \in 1 .. Len(threads)
  BY <1>1 DEF IInv, Registered
<1>3. threads[at[Owner]] \in Threads
  BY <1>1, <1>2
<1>4. pc[Owner] \notin Late \/ (pc[Owner] = "seal_all" /\ at[Owner] <= at[Owner])
  BY <1>1 DEF Late
<1>5. cur[threads[at[Owner]]] # NoFile
  BY <1>2, <1>4 DEF IInv, Registered
<1> QED  BY <1>2, <1>3, <1>5 DEF IInv, WalTypes

\* Files grow, records stay; only a crash and an unlink take something away.
LEMMA DiskStep ==
  ASSUME IInv, ~reused', [Next]_vars
  PROVE  /\ DiskTypes' /\ MoreRecords
         /\ Crash \/ Untouched
         /\ Crash \/ (\E a \in Actors : CompactUnlink(a)) \/ Grown
<1> DEFINE Goal == /\ DiskTypes' /\ MoreRecords
                   /\ Crash \/ Untouched
                   /\ Crash \/ (\E a \in Actors : CompactUnlink(a)) \/ Grown
<1>a. FilesOK(file) /\ manifest \in Seq(Names \X Statuses) /\ page.chain \in [Keys -> Seq(Ids)]
  BY DEF IInv, DiskTypes
<1>b. ASSUME manifest' = manifest  PROVE manifest' \in Seq(Names \X Statuses) /\ MoreRecords
  BY <1>a, <1>b, RecordsSame DEF MoreRecords
<1>c. ASSUME NEW n \in Names, NEW st \in Statuses, Record(n, st)
      PROVE  manifest' \in Seq(Names \X Statuses) /\ MoreRecords
  BY <1>a, <1>c, RecordEffect DEF MoreRecords
<1>d. ASSUME file' = file  PROVE FilesOK(file') /\ Grown /\ Untouched
  BY <1>a, <1>d, FileSame
<1>e. \A n : <<>> \in Seq(n)
  OBVIOUS
<1>1. ASSUME NEW t \in Threads, StartPut(t)  PROVE Goal
  BY <1>a, <1>b, <1>d, <1>1 DEF StartPut, DiskTypes, disk
<1>2. ASSUME NEW t \in Threads, GetThreadWal(t)  PROVE Goal
  <2>1. CASE cur[t] # NoFile
    BY <1>a, <1>b, <1>d, <1>2, <2>1 DEF GetThreadWal, DiskTypes, twals
  <2>2. CASE cur[t] = NoFile
    <3>1. <<t, 0>> \in Names /\ ~Recorded(<<t, 0>>)
      BY <1>2, <2>2, FirstName DEF GetThreadWal
    <3>2. file' = Created(<<t, 0>>) /\ Record(<<t, 0>>, "ACTIVE") /\ page' = page
      BY <1>2, <2>2 DEF GetThreadWal
    <3>3. FilesOK(file') /\ Grown /\ Untouched
      BY <1>a, <3>1, <3>2, CreateGrows
    <3> QED  BY <1>a, <1>c, <3>1, <3>2, <3>3 DEF Statuses, DiskTypes
  <2> QED  BY <2>1, <2>2
<1>3. ASSUME NEW t \in Threads, MakeRoom(t)  PROVE Goal
  <2>1. CASE UNCHANGED file
    BY <1>a, <1>b, <1>d, <1>3, <2>1 DEF MakeRoom, DiskTypes
  <2>2. CASE Flush(t, <<>>, mode = "IMMEDIATE")
    <3>1. FilesOK(file') /\ Grown /\ Untouched
      BY <1>3, <1>e, <2>2, FlushGrows DEF MakeRoom
    <3> QED  BY <1>a, <1>b, <1>3, <3>1 DEF MakeRoom, DiskTypes
  <2> QED  BY <1>3, <2>1, <2>2 DEF MakeRoom
<1>4. ASSUME NEW t \in Threads, Seal(t)  PROVE Goal
  <2>1. cur[t] \in Names /\ FilesOK(file') /\ Grown /\ Untouched
    BY <1>4, SealEffect
  <2>2. Record(cur[t], "SEALED") /\ page' = page
    BY <1>4 DEF Seal
  <2> QED  BY <1>a, <1>c, <2>1, <2>2 DEF Statuses, DiskTypes
<1>5. ASSUME NEW t \in Threads, Reopen(t)  PROVE Goal
  <2> DEFINE n == <<t, newest[t]>>
  <2>1. n \in Names
    BY Constants DEF IInv, WalTypes
  <2>2. file' = Created(n) /\ Record(n, "ACTIVE") /\ page' = page /\ Reuse(n)
    BY <1>5 DEF Reopen
  <2> HIDE DEF n
  <2>3. FilesOK(file') /\ Grown /\ Untouched
    BY <1>a, <2>1, <2>2, NextName, CreateGrows
  <2> QED  BY <1>a, <1>c, <2>1, <2>2, <2>3 DEF Statuses, DiskTypes
<1>6. ASSUME NEW t \in Threads, WalAppend(t)  PROVE Goal
  <2>1. CASE UNCHANGED file
    BY <1>a, <1>b, <1>d, <1>6, <2>1 DEF WalAppend, DiskTypes
  <2>2. CASE Flush(t, <<job[t].entry>>, mode = "IMMEDIATE" \/ (job[t].size = "direct" /\ mode = "DEBOUNCED"))
    <3>1. job[t] \in JobRecords /\ pc[t] # "reopen"
      BY <1>6 DEF WalAppend, IInv, WalTypes
    <3>2. <<job[t].entry>> \in Seq(Entries)
      BY <3>1 DEF JobRecords
    <3>3. FilesOK(file') /\ Grown /\ Untouched
      BY <2>2, <3>1, <3>2, FlushGrows
    <3> QED  BY <1>a, <1>b, <1>6, <3>3 DEF WalAppend, DiskTypes
  <2> QED  BY <1>6, <2>1, <2>2 DEF WalAppend
<1>7. ASSUME NEW t \in Threads, Apply(t)  PROVE Goal
  BY <1>a, <1>b, <1>d, <1>7 DEF Apply, DiskTypes, disk
<1>8. ASSUME NEW t \in Threads, TimerFire(t)  PROVE Goal
  <2>1. FilesOK(file') /\ Grown /\ Untouched
    BY <1>8, <1>e, FlushGrows DEF TimerFire, LockFree
  <2> QED  BY <1>a, <1>b, <1>8, <2>1 DEF TimerFire, DiskTypes
<1>9. ASSUME NEW t \in Threads, CompactMerge(t)  PROVE Goal
  <2> DEFINE g == <<Nobody, now>>
  <2>1. g \in Names /\ ~Recorded(g)
    BY <1>9, Constants, NextName DEF CompactMerge, IInv, ProcTypes, Seconds
  <2>2. /\ FilesOK(file') /\ DOMAIN file' = DOMAIN file \cup {g} /\ Grown
        /\ \A n \in DOMAIN file \ {g} : file'[n] = file[n]
    BY <1>a, <1>9, MergeEffect DEF IInv
  <2> HIDE DEF g
  <2>3. Untouched
    BY <2>1, <2>2, RecordsKinds DEF Untouched
  <2> QED  BY <1>a, <1>b, <1>9, <2>2, <2>3 DEF CompactMerge, DiskTypes
<1>10. ASSUME NEW t \in Threads, Recheck(t)  PROVE Goal
  BY <1>a, <1>b, <1>d, <1>10 DEF Recheck, DiskTypes, disk
<1>11. ASSUME NEW a \in Actors, CompactRead(a)  PROVE Goal
  BY <1>a, <1>b, <1>d, <1>11 DEF CompactRead, DiskTypes, disk
<1>12. ASSUME NEW a \in Actors, CompactMark(a)  PROVE Goal
  <2> DEFINE n == list[a][at[a]]
             st == IF at[a] = Len(list[a]) /\ a # Owner THEN "SEALED" ELSE "COMPACTED"
  <2>1. at[a] \in 1 .. Len(list[a]) /\ list[a] \in Seq(Names)
    BY <1>12 DEF CompactMark, IInv, Lists, WalTypes, Actors
  <2>2. n \in Names /\ st \in Statuses
    BY <2>1 DEF Statuses
  <2>3. Record(n, st) /\ file' = file /\ page' = page
    BY <1>12 DEF CompactMark
  <2> HIDE DEF n, st
  <2> QED  BY <1>a, <1>c, <1>d, <2>2, <2>3 DEF DiskTypes
<1>13. ASSUME NEW a \in Actors, CompactUnlink(a)  PROVE Goal
  <2> DEFINE n == list[a][at[a]]
  <2>1. file' = [m \in DOMAIN file \ {n} |-> file[m]]
    BY <1>13 DEF CompactUnlink
  <2> HIDE DEF n
  <2>2. FilesOK(file') /\ Untouched
    BY <1>a, <2>1 DEF FilesOK, Untouched
  <2> QED  BY <1>a, <1>b, <1>13, <2>2 DEF CompactUnlink, DiskTypes
<1>14. ASSUME StartSnapshot  PROVE Goal
  BY <1>a, <1>b, <1>d, <1>14 DEF StartSnapshot, DiskTypes, disk
<1>15. ASSUME StartDestroy  PROVE Goal
  BY <1>a, <1>b, <1>d, <1>15 DEF StartDestroy, DiskTypes, disk
<1>16. ASSUME FlushOne  PROVE Goal
  <2> DEFINE t == threads[at[Owner]]
  <2>1. t \in Threads /\ Flush(t, <<>>, TRUE) /\ pc[t] # "reopen"
    BY <1>16, AtThread DEF FlushOne, LockFree
  <2> HIDE DEF t
  <2>2. FilesOK(file') /\ Grown /\ Untouched
    BY <1>e, <2>1, FlushGrows
  <2> QED  BY <1>a, <1>b, <1>16, <2>2 DEF FlushOne, DiskTypes
<1>17. ASSUME FlushEnd  PROVE Goal
  BY <1>a, <1>b, <1>d, <1>17 DEF FlushEnd, DiskTypes, disk
<1>18. ASSUME Persist  PROVE Goal
  BY <1>a, <1>b, <1>d, <1>18 DEF Persist, IInv, ProcTypes, DiskTypes
<1>19. ASSUME SealOne  PROVE Goal
  <2> DEFINE n == cur[threads[at[Owner]]]
  <2>1. n \in Names /\ Record(n, "SEALED") /\ file' = file /\ page' = page
    BY <1>19, AtThread DEF SealOne
  <2> HIDE DEF n
  <2> QED  BY <1>a, <1>c, <1>d, <2>1 DEF Statuses, DiskTypes
<1>20. ASSUME SealEnd  PROVE Goal
  BY <1>a, <1>b, <1>d, <1>20 DEF SealEnd, DiskTypes, disk
<1>21. ASSUME Closed  PROVE Goal
  BY <1>a, <1>b, <1>d, <1>21 DEF Closed, DiskTypes, disk
<1>22. ASSUME Tick  PROVE Goal
  BY <1>a, <1>b, <1>d, <1>22 DEF Tick, DiskTypes, disk
<1>23. ASSUME Crash  PROVE Goal
  <2>1. FilesOK(file')
    BY <1>a, <1>d, <1>23, SurvivorEffect DEF Crash
  <2> QED  BY <1>a, <1>b, <1>23, <2>1 DEF Crash, DiskTypes
<1>24. ASSUME Recover  PROVE Goal
  BY <1>a, <1>b, <1>d, <1>24 DEF Recover, DiskTypes, disk
<1>25. ASSUME UNCHANGED vars  PROVE Goal
  BY <1>a, <1>b, <1>d, <1>25 DEF DiskTypes, disk, vars
<1> QED  BY <1>1, <1>2, <1>3, <1>4, <1>5, <1>6, <1>7, <1>8, <1>9, <1>10, <1>11, <1>12, <1>13, <1>14, <1>15, <1>16, <1>17, <1>18, <1>19, <1>20, <1>21, <1>22, <1>23, <1>24, <1>25 DEF Next, ThreadStep, OwnerStep

\* Types of the process.
LEMMA ProcStep ==
  ASSUME IInv, [Next]_vars
  PROVE  ProcTypes'
<1>a. ProcTypes /\ WalTypes
  BY DEF IInv
<1>1. ASSUME NEW t \in Threads, StartPut(t)  PROVE ProcTypes'
  BY <1>a, <1>1, Constants, SMTT(60) DEF StartPut, ProcTypes, WalTypes, Goto, mem
<1>2. ASSUME NEW t \in Threads, GetThreadWal(t)  PROVE ProcTypes'
  BY <1>a, <1>2, Constants DEF GetThreadWal, ProcTypes, WalTypes, Goto, proc, mem, Destroying, Late
<1>3. ASSUME NEW t \in Threads, MakeRoom(t)  PROVE ProcTypes'
  BY <1>a, <1>3, Constants DEF MakeRoom, ProcTypes, WalTypes, Goto, proc, mem, Destroying, Late
<1>4. ASSUME NEW t \in Threads, Seal(t)  PROVE ProcTypes'
  BY <1>a, <1>4, Constants DEF Seal, ProcTypes, WalTypes, Goto, proc, mem, Destroying, Late
<1>5. ASSUME NEW t \in Threads, Reopen(t)  PROVE ProcTypes'
  BY <1>a, <1>5, Constants DEF Reopen, ProcTypes, WalTypes, Goto, proc, mem, Destroying, Late
<1>6. ASSUME NEW t \in Threads, WalAppend(t)  PROVE ProcTypes'
  BY <1>a, <1>6, Constants DEF WalAppend, ProcTypes, WalTypes, Goto, proc, mem, Destroying, Late
<1>7. ASSUME NEW t \in Threads, Apply(t)  PROVE ProcTypes'
  <2> DEFINE e == job[t].entry
  <2>1. e.key \in Keys /\ e.id \in Ids
    BY <1>a, <1>7 DEF Apply, WalTypes, JobRecords, Entries
  <2>2. trie' = [trie EXCEPT ![e.key] = <<e.id>> \o @]
    BY <1>7 DEF Apply
  <2> HIDE DEF e
  <2>3. trie[e.key] \in Seq(Ids) /\ <<e.id>> \in Seq(Ids)
    BY <1>a, <2>1 DEF ProcTypes
  <2>4. <<e.id>> \o trie[e.key] \in Seq(Ids)
    BY <2>3
  <2>5. trie' \in [Keys -> Seq(Ids)]
    BY <1>a, <2>1, <2>2, <2>4 DEF ProcTypes
  <2> QED  BY <1>a, <1>7, <2>5, Constants DEF Apply, ProcTypes, WalTypes, Goto, proc, Destroying, Late
<1>8. ASSUME NEW t \in Threads, TimerFire(t)  PROVE ProcTypes'
  BY <1>a, <1>8, Constants DEF TimerFire, ProcTypes, WalTypes, Goto, proc, mem, Destroying, Late
<1>9. ASSUME NEW t \in Threads, CompactMerge(t)  PROVE ProcTypes'
  BY <1>a, <1>9, Constants DEF CompactMerge, ProcTypes, WalTypes, Goto, proc, mem, Destroying, Late
<1>10. ASSUME NEW t \in Threads, Recheck(t)  PROVE ProcTypes'
  BY <1>a, <1>10, Constants DEF Recheck, ProcTypes, WalTypes, Goto, proc, mem, Destroying, Late
<1>11. ASSUME NEW a \in Actors, CompactRead(a)  PROVE ProcTypes'
  BY <1>a, <1>11, Constants DEF CompactRead, ProcTypes, WalTypes, Goto, proc, mem, Destroying, Late
<1>12. ASSUME NEW a \in Actors, CompactMark(a)  PROVE ProcTypes'
  BY <1>a, <1>12, Constants DEF CompactMark, ProcTypes, WalTypes, Goto, proc, mem, Destroying, Late
<1>13. ASSUME NEW a \in Actors, CompactUnlink(a)  PROVE ProcTypes'
  BY <1>a, <1>13, Constants DEF CompactUnlink, ProcTypes, WalTypes, Goto, proc, mem, Destroying, Late
<1>14. ASSUME StartSnapshot  PROVE ProcTypes'
  BY <1>a, <1>14, Constants DEF StartSnapshot, ProcTypes, WalTypes, Goto, proc, mem, Destroying, Late
<1>15. ASSUME StartDestroy  PROVE ProcTypes'
  BY <1>a, <1>15, Constants DEF StartDestroy, ProcTypes, WalTypes, Goto, proc, mem
<1>16. ASSUME FlushOne  PROVE ProcTypes'
  BY <1>a, <1>16, Constants DEF FlushOne, ProcTypes, WalTypes, Goto, proc, mem, Destroying, Late
<1>17. ASSUME FlushEnd  PROVE ProcTypes'
  BY <1>a, <1>17, Constants DEF FlushEnd, ProcTypes, WalTypes, Goto, proc, mem, Destroying, Late
<1>18. ASSUME Persist  PROVE ProcTypes'
  BY <1>a, <1>18, Constants DEF Persist, ProcTypes, WalTypes, Goto, proc, mem, Destroying, Late
<1>19. ASSUME SealOne  PROVE ProcTypes'
  BY <1>a, <1>19, Constants DEF SealOne, ProcTypes, WalTypes, Goto, proc, mem, Destroying, Late
<1>20. ASSUME SealEnd  PROVE ProcTypes'
  BY <1>a, <1>20, Constants DEF SealEnd, ProcTypes, WalTypes, Goto, proc, mem, Destroying, Late
<1>21. ASSUME Closed  PROVE ProcTypes'
  BY <1>a, <1>21, Constants DEF Closed, ProcTypes, WalTypes, Goto, Stop, proc, mem, Destroying, Late
<1>22. ASSUME Tick  PROVE ProcTypes'
  BY <1>a, <1>22, Constants DEF Tick, ProcTypes, WalTypes, Goto, Seconds, proc, mem, Destroying, Late
<1>23. ASSUME Crash  PROVE ProcTypes'
  BY <1>a, <1>23, Constants DEF Crash, ProcTypes, WalTypes, Goto, Stop, proc, mem, Destroying, Late
<1>24. ASSUME Recover  PROVE ProcTypes'
  <2> DEFINE es == UNION {ToSet(file[n].data) : n \in RecoveryReads}
  <2>1. es \subseteq Entries /\ page.chain \in [Keys -> Seq(Ids)]
    BY DEF IInv, DiskTypes, FilesOK, Files, RecoveryReads, ToSet
  <2>2. trie' = [k \in Keys |-> Replayed(k, es)]
    BY <1>24 DEF Recover
  <2> HIDE DEF es
  <2>3. ASSUME NEW k \in Keys  PROVE Replayed(k, es) \in Seq(Ids)
    <3>1. page.chain[k] \in Seq(Ids)
      BY <2>1
    <3> QED  BY <2>1, <3>1, ReplayedSpec
  <2>4. trie' \in [Keys -> Seq(Ids)]
    BY <2>2, <2>3
  <2>5. life < Len(LifeThreads) /\ pc[Owner] \notin Destroying
    BY <1>a, <1>24 DEF Recover, IInv, Memory, Destroy, ProcTypes, Destroying, Late
  <2>6. Len(LifeThreads) \in Nat
    BY WalManagerAssumption
  <2> QED  BY <1>a, <1>24, <2>4, <2>5, <2>6 DEF Recover, ProcTypes
<1>25. ASSUME UNCHANGED vars  PROVE ProcTypes'
  BY <1>a, <1>25 DEF ProcTypes, proc, mem, vars
<1> QED  BY <1>1, <1>2, <1>3, <1>4, <1>5, <1>6, <1>7, <1>8, <1>9, <1>10, <1>11, <1>12, <1>13, <1>14, <1>15, <1>16, <1>17, <1>18, <1>19, <1>20, <1>21, <1>22, <1>23, <1>24, <1>25 DEF Next, ThreadStep, OwnerStep

\* A function after an update.
LEMMA Updated ==
  ASSUME NEW S, NEW R, NEW f \in [S -> R], NEW x \in S, NEW v \in R
  PROVE  [f EXCEPT ![x] = v] \in [S -> R]
OBVIOUS

\* Types of the thread WALs and of the calls.
LEMMA WalStep ==
  ASSUME IInv, [Next]_vars
  PROVE  WalTypes'
<1>a. WalTypes
  BY DEF IInv
<1>1. ASSUME NEW t \in Threads, StartPut(t)  PROVE WalTypes'
  <2>1. [id |-> next_id, key |-> 0].id = next_id /\ next_id \in Ids /\ now \in Seconds
    BY <1>1 DEF StartPut, IInv, ProcTypes, Ids
  <2>2. PICK k \in Keys, z \in Sizes :
          job' = [job EXCEPT ![t] = [entry |-> [id |-> next_id, key |-> k], sec |-> now, size |-> z]]
    BY <1>1 DEF StartPut
  <2>3. [entry |-> [id |-> next_id, key |-> k], sec |-> now, size |-> z] \in JobRecords
    BY <2>1 DEF JobRecords, Entries
  <2> QED  BY <1>a, <1>1, <2>2, <2>3, Constants DEF StartPut, WalTypes, Goto, ThreadLabels, twals, cmp, history
<1>2. ASSUME NEW t \in Threads, GetThreadWal(t)  PROVE WalTypes'
  <2>1. <<t, 0>> \in Names
    BY Constants
  <2>2. cur' \in [Threads -> Names \cup {NoFile}] /\ threads' \in Seq(Threads)
    <3>1. \/ cur' = cur /\ threads' = threads
          \/ cur' = [cur EXCEPT ![t] = <<t, 0>>] /\ threads' = Append(threads, t)
      BY <1>2 DEF GetThreadWal, twals
    <3>2. cur \in [Threads -> Names \cup {NoFile}] /\ threads \in Seq(Threads)
      BY <1>a DEF WalTypes
    <3>3. <<t, 0>> \in Names \cup {NoFile} /\ Append(threads, t) \in Seq(Threads)
      BY <2>1, <3>2
    <3> QED  BY <3>1, <3>2, <3>3, Updated, Zenon
  <2>3. UNCHANGED <<orphan, entry_buf, timer_active, newest>>
    BY <1>2 DEF GetThreadWal, twals
  <2> QED  BY <1>a, <1>2, <2>2, <2>3, Constants, ZenonT(60) DEF GetThreadWal, WalTypes, Goto, ThreadLabels, cmp, history
<1>3. ASSUME NEW t \in Threads, MakeRoom(t)  PROVE WalTypes'
  <2>1. entry_buf' \in [Threads -> Seq(Entries)]
    <3>1. entry_buf' = entry_buf \/ entry_buf' = [entry_buf EXCEPT ![t] = <<>>]
      BY <1>3 DEF MakeRoom, Flush
    <3>2. entry_buf \in [Threads -> Seq(Entries)] /\ <<>> \in Seq(Entries)
      BY <1>a DEF WalTypes
    <3> QED  BY <3>1, <3>2, Updated, Zenon
  <2>2. pc' = [pc EXCEPT ![t] = pc'[t]] /\ pc'[t] \in ThreadLabels
    BY <1>a, <1>3, Constants DEF MakeRoom, WalTypes, Goto, ThreadLabels
  <2> QED  BY <1>a, <1>3, <2>1, <2>2, Constants DEF MakeRoom, WalTypes, cmp, history
<1>4. ASSUME NEW t \in Threads, Seal(t)  PROVE WalTypes'
  BY <1>a, <1>4, Constants DEF Seal, WalTypes, Goto, ThreadLabels, twals, cmp, history
<1>5. ASSUME NEW t \in Threads, Reopen(t)  PROVE WalTypes'
  <2>1. <<t, newest[t]>> \in Names
    BY <1>a, Constants DEF WalTypes
  <2> QED  BY <1>a, <1>5, <2>1, Constants DEF Reopen, WalTypes, Goto, ThreadLabels, cmp, history
<1>6. ASSUME NEW t \in Threads, WalAppend(t)  PROVE WalTypes'
  <2>1. job[t] \in JobRecords
    BY <1>a, <1>6 DEF WalAppend, WalTypes
  <2>2. job[t].sec \in 0 .. MaxSecond /\ job[t].entry \in Entries
    BY <2>1, Constants DEF JobRecords, Seconds
  <2>3. entry_buf' \in [Threads -> Seq(Entries)]
    <3>1. \/ entry_buf' = [entry_buf EXCEPT ![t] = Append(entry_buf[t], job[t].entry)]
          \/ entry_buf' = [entry_buf EXCEPT ![t] = <<>>]
      BY <1>6 DEF WalAppend, Flush
    <3>2. entry_buf \in [Threads -> Seq(Entries)] /\ <<>> \in Seq(Entries)
      BY <1>a DEF WalTypes
    <3>3. Append(entry_buf[t], job[t].entry) \in Seq(Entries)
      BY <2>2, <3>2
    <3> QED  BY <3>1, <3>2, <3>3, Updated, Zenon
  <2>4. timer_active' \in [Threads -> BOOLEAN]
    <3>1. \/ timer_active' = timer_active
          \/ timer_active' = [timer_active EXCEPT ![t] =
                  timer_active[t] \/ (config.drain /\ Len(Append(entry_buf[t], job[t].entry)) = 1)]
      BY <1>6 DEF WalAppend
    <3>2. timer_active \in [Threads -> BOOLEAN]
      BY <1>a DEF WalTypes
    <3> QED  BY <3>1, <3>2, Zenon
  <2>5. newest' \in [Threads -> 0 .. MaxSecond]
    BY <1>a, <1>6, <2>2 DEF WalAppend, WalTypes
  <2>6. pc' = [pc EXCEPT ![t] = "apply"] /\ UNCHANGED <<threads, cur, orphan, job, list, at, acked, promised, dropped>>
    BY <1>6 DEF WalAppend, Goto, cmp, history
  <2> QED  BY <1>a, <2>1, <2>3, <2>4, <2>5, <2>6, Constants DEF WalTypes, ThreadLabels
<1>7. ASSUME NEW t \in Threads, Apply(t)  PROVE WalTypes'
  <2>1. job[t].entry.id \in Ids
    BY <1>a, <1>7 DEF Apply, WalTypes, JobRecords, Entries
  <2>2. acked' \in [Threads -> SUBSET Ids] /\ promised' \subseteq Ids
    <3>1. \/ acked' = acked /\ promised' = promised
          \/ /\ acked' = [acked EXCEPT ![t] = acked[t] \cup {job[t].entry.id}]
             /\ promised' = promised \/ promised' = promised \cup {job[t].entry.id}
      BY <1>7 DEF Apply
    <3>2. acked \in [Threads -> SUBSET Ids] /\ promised \subseteq Ids
      BY <1>a DEF WalTypes
    <3>3. acked[t] \cup {job[t].entry.id} \in SUBSET Ids /\ promised \cup {job[t].entry.id} \subseteq Ids
      BY <2>1, <3>2
    <3>4. acked' \in [Threads -> SUBSET Ids]
      BY <3>1, <3>2, <3>3, Updated, Zenon
    <3>5. promised' \subseteq Ids
      BY <3>1, <3>2, <3>3
    <3> QED  BY <3>4, <3>5
  <2>3. /\ pc' = [pc EXCEPT ![t] = "idle"] /\ job' = [job EXCEPT ![t] = <<>>] /\ UNCHANGED <<list, at, dropped>>
        /\ UNCHANGED <<threads, cur, orphan, entry_buf, timer_active, newest>>
    BY <1>7 DEF Apply, Goto, twals, cmp
  <2> QED  BY <1>a, <2>2, <2>3, Constants DEF WalTypes, ThreadLabels
<1>8. ASSUME NEW t \in Threads, TimerFire(t)  PROVE WalTypes'
  BY <1>a, <1>8, Constants DEF TimerFire, WalTypes, Flush, cmp
<1>9. ASSUME NEW t \in Threads, CompactMerge(t)  PROVE WalTypes'
  <2>1. <<Nobody, now>> \in Names
    BY Constants DEF IInv, ProcTypes, Seconds
  <2>2. list' \in [Actors -> Seq(Names)]
    BY <1>a, <1>9, <2>1, Constants DEF CompactMerge, WalTypes
  <2>3. /\ pc' = [pc EXCEPT ![t] = "mark"] /\ pc[t] = "merge" /\ UNCHANGED <<job, at, acked, promised, dropped>>
        /\ UNCHANGED <<threads, cur, orphan, entry_buf, timer_active, newest>>
    BY <1>9 DEF CompactMerge, Goto, twals, history
  <2> QED  BY <1>a, <2>2, <2>3, Constants DEF WalTypes, ThreadLabels
<1>10. ASSUME NEW t \in Threads, Recheck(t)  PROVE WalTypes'
  BY <1>a, <1>10, Constants DEF Recheck, WalTypes, Goto, ThreadLabels, twals, cmp, history
<1>11. ASSUME NEW a \in Actors, CompactRead(a)  PROVE WalTypes'
  <2>1. Sealed \in Seq(Names)
    BY SealedSpec DEF IInv, DiskTypes
  <2>2. list' \in [Actors -> Seq(Names)] /\ at' \in [Actors -> Nat]
    BY <1>a, <1>11, <2>1 DEF CompactRead, WalTypes
  <2>3. CASE a = Owner
    BY <1>a, <1>11, <2>2, <2>3, Constants DEF CompactRead, WalTypes, Goto, OwnerLabels, Destroying, Late, twals, history
  <2>4. CASE a \in Threads
    BY <1>a, <1>11, <2>2, <2>4, Constants, SMTT(60) DEF CompactRead, WalTypes, Goto, ThreadLabels, twals, history
  <2> QED  BY <2>3, <2>4 DEF Actors
<1>12. ASSUME NEW a \in Actors, CompactMark(a)  PROVE WalTypes'
  <2>1. list[a] \in Seq(Names) /\ at[a] \in 1 .. Len(list[a])
    BY <1>12 DEF CompactMark, IInv, Lists, WalTypes, Actors
  <2>2. Front(list[a]) \in Seq(Names)
    BY <2>1 DEF Front
  <2>3. list' \in [Actors -> Seq(Names)] /\ at' \in [Actors -> Nat]
    BY <1>a, <1>12, <2>1, <2>2 DEF CompactMark, WalTypes
  <2>4. CASE a = Owner
    BY <1>a, <1>12, <2>3, <2>4, Constants DEF CompactMark, WalTypes, Goto, OwnerLabels, Destroying, Late, twals, history
  <2>5. CASE a \in Threads
    BY <1>a, <1>12, <2>3, <2>5, Constants, ZenonT(60) DEF CompactMark, WalTypes, Goto, ThreadLabels, twals, history
  <2> QED  BY <2>4, <2>5 DEF Actors
<1>13. ASSUME NEW a \in Actors, CompactUnlink(a)  PROVE WalTypes'
  <2>1. list' \in [Actors -> Seq(Names)] /\ at' \in [Actors -> Nat]
    BY <1>a, <1>13 DEF CompactUnlink, WalTypes
  <2>2. orphan' \in [Threads -> BOOLEAN] /\ dropped' \in BOOLEAN
    BY <1>a, <1>13 DEF CompactUnlink, WalTypes
  <2>3. CASE a = Owner
    BY <1>a, <1>13, <2>1, <2>2, <2>3, Constants DEF CompactUnlink, WalTypes, Goto, OwnerLabels, Destroying, Late
  <2>4. CASE a \in Threads
    BY <1>a, <1>13, <2>1, <2>2, <2>4, Constants DEF CompactUnlink, WalTypes, Goto, ThreadLabels
  <2> QED  BY <2>3, <2>4 DEF Actors
<1>14. ASSUME StartSnapshot  PROVE WalTypes'
  BY <1>a, <1>14, Constants DEF StartSnapshot, WalTypes, Goto, OwnerLabels, Destroying, Late, twals, cmp, history
<1>15. ASSUME StartDestroy  PROVE WalTypes'
  BY <1>a, <1>15, Constants DEF StartDestroy, WalTypes, Goto, OwnerLabels, Destroying, Late, twals, cmp, history
<1>16. ASSUME FlushOne  PROVE WalTypes'
  <2> DEFINE t == threads[at[Owner]]
  <2>1. t \in Threads
    BY <1>16, AtThread DEF FlushOne
  <2>2. /\ entry_buf' = [entry_buf EXCEPT ![t] = <<>>]
        /\ timer_active' = [timer_active EXCEPT ![t] = FALSE]
        /\ promised' = promised \cup acked[t] /\ at' = [at EXCEPT ![Owner] = at[Owner] + 1]
        /\ UNCHANGED <<threads, cur, orphan, newest, pc, job, list, acked, dropped>>
    BY <1>16 DEF FlushOne, Flush
  <2> HIDE DEF t
  <2> QED  BY <1>a, <2>1, <2>2, Constants DEF WalTypes
<1>17. ASSUME FlushEnd  PROVE WalTypes'
  BY <1>a, <1>17, Constants DEF FlushEnd, WalTypes, Goto, OwnerLabels, Destroying, Late, twals, cmp, history
<1>18. ASSUME Persist  PROVE WalTypes'
  BY <1>a, <1>18, Constants DEF Persist, WalTypes, Goto, OwnerLabels, Destroying, Late, twals, cmp, history
<1>19. ASSUME SealOne  PROVE WalTypes'
  <2>1. cur' \in [Threads -> Names \cup {NoFile}] /\ at' \in [Actors -> Nat]
    <3>1. /\ cur' = [cur EXCEPT ![threads[at[Owner]]] = NoFile]
          /\ at' = [at EXCEPT ![Owner] = at[Owner] + 1]
      BY <1>19 DEF SealOne
    <3>2. threads[at[Owner]] \in Threads
      BY <1>19, AtThread DEF SealOne
    <3>3. cur \in [Threads -> Names \cup {NoFile}] /\ at \in [Actors -> Nat] /\ NoFile \in Names \cup {NoFile}
      BY <1>a DEF WalTypes
    <3>4. Owner \in Actors /\ at[Owner] + 1 \in Nat
      BY <3>3, Constants
    <3> QED  BY <3>1, <3>2, <3>3, <3>4, Updated, Zenon
  <2> QED  BY <1>a, <1>19, <2>1 DEF SealOne, WalTypes, history
<1>20. ASSUME SealEnd  PROVE WalTypes'
  BY <1>a, <1>20, Constants DEF SealEnd, WalTypes, Goto, OwnerLabels, Destroying, Late, twals, cmp, history
<1>21. ASSUME Closed  PROVE WalTypes'
  BY <1>a, <1>21, Constants DEF Closed, WalTypes, Stop, ThreadLabels, OwnerLabels
<1>22. ASSUME Tick  PROVE WalTypes'
  BY <1>a, <1>22 DEF Tick, WalTypes, twals, cmp, history
<1>23. ASSUME Crash  PROVE WalTypes'
  BY <1>a, <1>23, Constants DEF Crash, WalTypes, Stop, ThreadLabels, OwnerLabels
<1>24. ASSUME Recover  PROVE WalTypes'
  BY <1>a, <1>24 DEF Recover, WalTypes, twals, cmp, history
<1>25. ASSUME UNCHANGED vars  PROVE WalTypes'
  BY <1>a, <1>25 DEF WalTypes, twals, cmp, history, vars
<1> QED  BY <1>1, <1>2, <1>3, <1>4, <1>5, <1>6, <1>7, <1>8, <1>9, <1>10, <1>11, <1>12, <1>13, <1>14, <1>15, <1>16, <1>17, <1>18, <1>19, <1>20, <1>21, <1>22, <1>23, <1>24, <1>25 DEF Next, ThreadStep, OwnerStep

\* Calls.
LEMMA CallsStep ==
  ASSUME IInv, [Next]_vars
  PROVE  Calls'
<1>a. WalTypes /\ Calls
  BY DEF IInv
<1>1. ASSUME NEW t \in Threads, StartPut(t)  PROVE Calls'
  BY <1>a, <1>1, Constants DEF StartPut, Goto, twals, cmp, Calls, WalTypes
<1>2. ASSUME NEW t \in Threads, GetThreadWal(t)  PROVE Calls'
  <2>1. /\ pc[t] = "get" /\ pc' = [pc EXCEPT ![t] = "room"] /\ UNCHANGED <<phase, life, entry_buf>>
        /\ (cur' = cur /\ cur[t] # NoFile) \/ cur' = [cur EXCEPT ![t] = <<t, 0>>]
    BY <1>2 DEF GetThreadWal, Goto, proc, twals
  <2>2. <<t, 0>> # NoFile
    BY Constants
  <2>3. cur'[t] # NoFile /\ \A u \in Threads : u # t => cur'[u] = cur[u]
    <3>1. cur \in [Threads -> Names \cup {NoFile}]
      BY <1>a DEF WalTypes
    <3>2. CASE cur' = cur /\ cur[t] # NoFile
      BY <3>2
    <3>3. CASE cur' = [cur EXCEPT ![t] = <<t, 0>>]
      BY <2>2, <3>1, <3>3
    <3> QED  BY <2>1, <3>2, <3>3
  <2> QED  BY <1>a, <2>1, <2>3, Constants, SMTT(60) DEF Calls, WalTypes
<1>3. ASSUME NEW t \in Threads, MakeRoom(t)  PROVE Calls'
  <2>1. pc[t] = "room" /\ UNCHANGED <<phase, life, cur>>
    BY <1>3 DEF MakeRoom, proc
  <2>2. CASE pc' = [pc EXCEPT ![t] = "append"] /\ entry_buf' = entry_buf
    BY <1>a, <2>1, <2>2, Constants DEF Calls, WalTypes
  <2>3. CASE /\ pc' = [pc EXCEPT ![t] = IF MaxSealed > 0 /\ sealed_count >= MaxSealed THEN "compact" ELSE "seal"]
             /\ entry_buf' = [entry_buf EXCEPT ![t] = <<>>]
    BY <1>a, <2>1, <2>3, Constants DEF Calls, WalTypes
  <2> QED  BY <1>3, <2>2, <2>3 DEF MakeRoom, Goto, Flush
<1>4. ASSUME NEW t \in Threads, Seal(t)  PROVE Calls'
  BY <1>a, <1>4, Constants DEF Seal, Goto, proc, twals, cmp, Calls, WalTypes
<1>5. ASSUME NEW t \in Threads, Reopen(t)  PROVE Calls'
  BY <1>a, <1>5, Constants DEF Reopen, Goto, proc, cmp, Calls, WalTypes
<1>6. ASSUME NEW t \in Threads, WalAppend(t)  PROVE Calls'
  <2>1. /\ pc[t] = "append" /\ pc' = [pc EXCEPT ![t] = "apply"] /\ UNCHANGED <<phase, life, cur>>
        /\ \E x : entry_buf' = [entry_buf EXCEPT ![t] = x]
    BY <1>6 DEF WalAppend, Goto, Flush, proc
  <2> QED  BY <1>a, <2>1, Constants DEF Calls, WalTypes
<1>7. ASSUME NEW t \in Threads, Apply(t)  PROVE Calls'
  BY <1>a, <1>7, Constants DEF Apply, Goto, proc, twals, cmp, Calls, WalTypes
<1>8. ASSUME NEW t \in Threads, TimerFire(t)  PROVE Calls'
  BY <1>a, <1>8, Constants DEF TimerFire, Flush, LockFree, proc, cmp, Calls, WalTypes
<1>9. ASSUME NEW t \in Threads, CompactMerge(t)  PROVE Calls'
  BY <1>a, <1>9, Constants DEF CompactMerge, Goto, proc, twals, Calls, WalTypes
<1>10. ASSUME NEW t \in Threads, Recheck(t)  PROVE Calls'
  BY <1>a, <1>10, Constants DEF Recheck, Goto, proc, twals, cmp, Calls, WalTypes
<1>11. ASSUME NEW a \in Actors, CompactRead(a)  PROVE Calls'
  BY <1>a, <1>11, Constants DEF CompactRead, Goto, proc, twals, Calls, WalTypes
<1>12. ASSUME NEW a \in Actors, CompactMark(a)  PROVE Calls'
  BY <1>a, <1>12, Constants DEF CompactMark, Goto, proc, twals, Calls, WalTypes, Actors
<1>13. ASSUME NEW a \in Actors, CompactUnlink(a)  PROVE Calls'
  BY <1>a, <1>13, Constants DEF CompactUnlink, Goto, proc, Calls, WalTypes
<1>14. ASSUME StartSnapshot  PROVE Calls'
  BY <1>a, <1>14, Constants DEF StartSnapshot, Goto, twals, Calls, WalTypes
<1>15. ASSUME StartDestroy  PROVE Calls'
  BY <1>a, <1>15, Constants DEF StartDestroy, Goto, proc, twals, Calls, WalTypes
<1>16. ASSUME FlushOne  PROVE Calls'
  <2>1. threads[at[Owner]] \in Threads
    BY <1>16, AtThread DEF FlushOne
  <2> QED  BY <1>a, <1>16, <2>1 DEF FlushOne, Flush, Calls, WalTypes, proc
<1>17. ASSUME FlushEnd  PROVE Calls'
  BY <1>a, <1>17, Constants DEF FlushEnd, Calls, WalTypes, Goto, proc, twals
<1>18. ASSUME Persist  PROVE Calls'
  BY <1>a, <1>18, Constants DEF Persist, Goto, proc, twals, Calls, WalTypes
<1>19. ASSUME SealOne  PROVE Calls'
  <2>1. \A u \in Threads : pc'[u] = "idle"
    BY <1>a, <1>19 DEF SealOne, Calls, WalTypes
  <2> QED  BY <2>1 DEF Calls
<1>20. ASSUME SealEnd  PROVE Calls'
  BY <1>a, <1>20, Constants DEF SealEnd, Goto, proc, twals, cmp, Calls, WalTypes
<1>21. ASSUME Closed  PROVE Calls'
  <2>1. \A u \in Threads : pc'[u] = "idle"
    BY <1>21, Constants DEF Closed, Stop
  <2> QED  BY <2>1 DEF Calls
<1>22. ASSUME Tick  PROVE Calls'
  BY <1>a, <1>22, Constants DEF Tick, twals, cmp, Calls, WalTypes
<1>23. ASSUME Crash  PROVE Calls'
  <2>1. \A u \in Threads : pc'[u] = "idle"
    BY <1>23, Constants DEF Crash, Stop
  <2> QED  BY <2>1 DEF Calls
<1>24. ASSUME Recover  PROVE Calls'
  <2>1. \A u \in Threads : pc'[u] = "idle"
    BY <1>a, <1>24 DEF Recover, Calls
  <2> QED  BY <2>1 DEF Calls
<1>25. ASSUME UNCHANGED vars  PROVE Calls'
  BY <1>a, <1>25, Constants DEF vars, proc, twals, cmp, Calls, WalTypes
<1> QED  BY <1>1, <1>2, <1>3, <1>4, <1>5, <1>6, <1>7, <1>8, <1>9, <1>10, <1>11, <1>12, <1>13, <1>14, <1>15, <1>16, <1>17, <1>18, <1>19, <1>20, <1>21, <1>22, <1>23, <1>24, <1>25 DEF Next, ThreadStep, OwnerStep

\* What is recorded: thread files of this life, and compacted files of this second or
\* an earlier one.
LEMMA RecordsStep ==
  ASSUME IInv, [Next]_vars
  PROVE  /\ \A n : IsSealed(n)' => \/ IsSealed(n) \/ n[1] = Nobody
                                \/ \E t \in Threads : n = cur[t] /\ (pc'[t] = "reopen" \/ cur'[t] = NoFile)
         /\ \A n : Recorded(n)' => \/ Recorded(n) \/ (n[1] = Nobody /\ n[2] <= now)
                                \/ \E t \in Threads : n[1] = t /\ t \in LifeThreads[life] /\ cur'[t] # NoFile
<1> DEFINE NewSealed(n) == \/ IsSealed(n) \/ n[1] = Nobody
                           \/ \E t \in Threads : n = cur[t] /\ (pc'[t] = "reopen" \/ cur'[t] = NoFile)
           NewRecord(n) == \/ Recorded(n) \/ (n[1] = Nobody /\ n[2] <= now)
                           \/ \E t \in Threads : n[1] = t /\ t \in LifeThreads[life] /\ cur'[t] # NoFile
           Goal == (\A n : IsSealed(n)' => NewSealed(n)) /\ (\A n : Recorded(n)' => NewRecord(n))
<1>a. WalTypes /\ manifest \in Seq(Names \X Statuses)
  BY DEF IInv, DiskTypes
<1>b. ASSUME manifest' = manifest  PROVE Goal
  BY <1>b, RecordsSame
<1>c. ASSUME NEW n \in Names, NEW st \in Statuses, Record(n, st),
             st = "SEALED" => NewSealed(n), NewRecord(n)
      PROVE  Goal
  BY <1>a, <1>c, RecordEffect
<1> HIDE DEF Goal
<1>1. ASSUME NEW t \in Threads, StartPut(t)  PROVE Goal
  BY <1>b, <1>1 DEF StartPut, disk
<1>2. ASSUME NEW t \in Threads, GetThreadWal(t)  PROVE Goal
  <2>1. CASE cur[t] # NoFile
    BY <1>b, <1>2, <2>1 DEF GetThreadWal
  <2>2. CASE cur[t] = NoFile
    <3>1. <<t, 0>> \in Names /\ <<t, 0>>[1] = t /\ <<t, 0>> # NoFile
      BY Constants
    <3>2. Record(<<t, 0>>, "ACTIVE") /\ cur'[t] = <<t, 0>> /\ t \in LifeThreads[life]
      BY <1>a, <1>2, <2>2 DEF GetThreadWal, WalTypes, IInv, Calls
    <3>3. NewRecord(<<t, 0>>)
      BY <3>1, <3>2
    <3> QED  BY <1>c, <3>1, <3>2, <3>3 DEF Statuses
  <2> QED  BY <2>1, <2>2
<1>3. ASSUME NEW t \in Threads, MakeRoom(t)  PROVE Goal
  BY <1>b, <1>3 DEF MakeRoom
<1>4. ASSUME NEW t \in Threads, Seal(t)  PROVE Goal
  <2>1. cur[t] \in Names /\ Readable(cur[t])
    BY <1>4, SealEffect
  <2>2. Record(cur[t], "SEALED") /\ pc'[t] = "reopen"
    BY <1>a, <1>4, Constants DEF Seal, Goto, WalTypes
  <2>3. NewSealed(cur[t]) /\ NewRecord(cur[t])
    BY <2>1, <2>2, RecordsKinds
  <2> QED  BY <1>c, <2>1, <2>2, <2>3 DEF Statuses
<1>5. ASSUME NEW t \in Threads, Reopen(t)  PROVE Goal
  <2> DEFINE n == <<t, newest[t]>>
  <2>1. n \in Names /\ n[1] = t /\ n # NoFile
    BY <1>a, Constants DEF WalTypes
  <2>2. Record(n, "ACTIVE") /\ cur'[t] = n /\ t \in LifeThreads[life]
    BY <1>a, <1>5 DEF Reopen, WalTypes, IInv, Calls
  <2> HIDE DEF n
  <2>3. NewRecord(n)
    BY <2>1, <2>2
  <2> QED  BY <1>c, <2>1, <2>2, <2>3 DEF Statuses
<1>6. ASSUME NEW t \in Threads, WalAppend(t)  PROVE Goal
  BY <1>b, <1>6 DEF WalAppend
<1>7. ASSUME NEW t \in Threads, Apply(t)  PROVE Goal
  BY <1>b, <1>7 DEF Apply, disk
<1>8. ASSUME NEW t \in Threads, TimerFire(t)  PROVE Goal
  BY <1>b, <1>8 DEF TimerFire
<1>9. ASSUME NEW t \in Threads, CompactMerge(t)  PROVE Goal
  BY <1>b, <1>9 DEF CompactMerge
<1>10. ASSUME NEW t \in Threads, Recheck(t)  PROVE Goal
  BY <1>b, <1>10 DEF Recheck, disk
<1>11. ASSUME NEW a \in Actors, CompactRead(a)  PROVE Goal
  BY <1>b, <1>11 DEF CompactRead, disk
<1>12. ASSUME NEW a \in Actors, CompactMark(a)  PROVE Goal
  <2> DEFINE n == list[a][at[a]]
             st == IF at[a] = Len(list[a]) /\ a # Owner THEN "SEALED" ELSE "COMPACTED"
  <2>1. at[a] \in 1 .. Len(list[a]) /\ list[a] \in Seq(Names)
    BY <1>12 DEF CompactMark, IInv, Lists, WalTypes, Actors
  <2>2. n \in Names /\ st \in Statuses
    BY <2>1 DEF Statuses
  <2>3. Record(n, st)
    BY <1>12 DEF CompactMark
  <2>4. CASE a = Owner
    <3>1. IsSealed(n)
      BY <1>12, <2>1, <2>4 DEF CompactMark, IInv, Lists
    <3> QED  BY <1>c, <2>2, <2>3, <3>1, RecordsKinds
  <2>5. CASE a \in Threads /\ at[a] = Len(list[a])
    <3>1. n[1] = Nobody /\ n[2] <= now
      BY <1>12, <2>5 DEF CompactMark, IInv, Lists, Target
    <3> QED  BY <1>c, <2>2, <2>3, <3>1
  <2>6. CASE a \in Threads /\ at[a] # Len(list[a])
    <3>1. at[a] \in 1 .. (Len(list[a]) - 1)
      BY <2>1, <2>6
    <3>2. IsSealed(n)
      BY <1>12, <2>6, <3>1 DEF CompactMark, IInv, Lists
    <3> QED  BY <1>c, <2>2, <2>3, <3>2, RecordsKinds
  <2> QED  BY <2>4, <2>5, <2>6 DEF Actors
<1>13. ASSUME NEW a \in Actors, CompactUnlink(a)  PROVE Goal
  BY <1>b, <1>13 DEF CompactUnlink
<1>14. ASSUME StartSnapshot  PROVE Goal
  BY <1>b, <1>14 DEF StartSnapshot, disk
<1>15. ASSUME StartDestroy  PROVE Goal
  BY <1>b, <1>15 DEF StartDestroy, disk
<1>16. ASSUME FlushOne  PROVE Goal
  BY <1>b, <1>16 DEF FlushOne
<1>17. ASSUME FlushEnd  PROVE Goal
  BY <1>b, <1>17 DEF FlushEnd, disk
<1>18. ASSUME Persist  PROVE Goal
  BY <1>b, <1>18 DEF Persist
<1>19. ASSUME SealOne  PROVE Goal
  <2> DEFINE t == threads[at[Owner]]
  <2>1. t \in Threads /\ cur[t] # NoFile /\ cur[t] \in Names
    BY <1>19, AtThread DEF SealOne
  <2>2. Record(cur[t], "SEALED") /\ cur' = [cur EXCEPT ![t] = NoFile]
    BY <1>19 DEF SealOne
  <2> HIDE DEF t
  <2>3. cur'[t] = NoFile
    BY <1>a, <2>1, <2>2 DEF WalTypes
  <2>4. Readable(cur[t])
    BY <2>1 DEF IInv, Descriptors
  <2>5. NewSealed(cur[t]) /\ NewRecord(cur[t])
    BY <2>1, <2>3, <2>4, RecordsKinds
  <2> QED  BY <1>c, <2>1, <2>2, <2>5 DEF Statuses
<1>20. ASSUME SealEnd  PROVE Goal
  BY <1>b, <1>20 DEF SealEnd, disk
<1>21. ASSUME Closed  PROVE Goal
  BY <1>b, <1>21 DEF Closed, disk
<1>22. ASSUME Tick  PROVE Goal
  BY <1>b, <1>22 DEF Tick, disk
<1>23. ASSUME Crash  PROVE Goal
  BY <1>b, <1>23 DEF Crash
<1>24. ASSUME Recover  PROVE Goal
  BY <1>b, <1>24 DEF Recover, disk
<1>25. ASSUME UNCHANGED vars  PROVE Goal
  BY <1>b, <1>25 DEF vars, disk
<1> QED  BY <1>1, <1>2, <1>3, <1>4, <1>5, <1>6, <1>7, <1>8, <1>9, <1>10, <1>11, <1>12, <1>13, <1>14, <1>15, <1>16, <1>17, <1>18, <1>19, <1>20, <1>21, <1>22, <1>23, <1>24, <1>25 DEF Next, ThreadStep, OwnerStep, Goal

\* A descriptor is closed at the end of a life only.
LEMMA LifeStep ==
  ASSUME IInv, [Next]_vars
  PROVE  /\ now <= now'
         /\ Recover \/ (life' = life /\ \A t \in Threads :
              phase' = "up" /\ cur'[t] = NoFile /\ pc'[Owner] \notin Late =>
                phase = "up" /\ cur[t] = NoFile /\ pc[Owner] \notin Late)
<1> DEFINE Goal == /\ now <= now'
                   /\ Recover \/ (life' = life /\ \A t \in Threads :
                        phase' = "up" /\ cur'[t] = NoFile /\ pc'[Owner] \notin Late =>
                          phase = "up" /\ cur[t] = NoFile /\ pc[Owner] \notin Late)
<1>a. WalTypes /\ now \in Int
  BY DEF IInv, ProcTypes, Seconds
<1>1. ASSUME NEW t \in Threads, StartPut(t)  PROVE Goal
  BY <1>a, <1>1, Constants DEF StartPut, Goto, twals, cmp, WalTypes
<1>2. ASSUME NEW t \in Threads, GetThreadWal(t)  PROVE Goal
  <2>1. pc'[Owner] = pc[Owner] /\ life' = life /\ now' = now /\ phase' = phase
    BY <1>a, <1>2, Constants DEF GetThreadWal, Goto, WalTypes, proc
  <2>2. \A u \in Threads : cur'[u] = NoFile => cur[u] = NoFile
    <3>1. CASE cur' = cur
      BY <3>1
    <3>2. CASE cur' = [cur EXCEPT ![t] = <<t, 0>>]
      BY <1>a, <3>2, Constants DEF WalTypes
    <3> QED  BY <1>2, <3>1, <3>2 DEF GetThreadWal, twals
  <2> QED  BY <1>a, <2>1, <2>2
<1>3. ASSUME NEW t \in Threads, MakeRoom(t)  PROVE Goal
  <2>1. PICK x : pc' = [pc EXCEPT ![t] = x]
    BY <1>3 DEF MakeRoom, Goto
  <2>2. pc'[Owner] = pc[Owner]
    BY <1>a, <2>1, Constants DEF WalTypes
  <2> QED  BY <1>a, <1>3, <2>2 DEF MakeRoom, proc
<1>4. ASSUME NEW t \in Threads, Seal(t)  PROVE Goal
  BY <1>a, <1>4, Constants DEF Seal, Goto, proc, twals, cmp, WalTypes
<1>5. ASSUME NEW t \in Threads, Reopen(t)  PROVE Goal
  <2>1. pc[t] = "reopen" /\ pc'[Owner] = pc[Owner] /\ life' = life /\ now' = now /\ phase' = phase
    BY <1>a, <1>5, Constants DEF Reopen, Goto, WalTypes, proc
  <2>2. \A u \in Threads : cur'[u] = NoFile => cur[u] = NoFile
    BY <1>a, <1>5, Constants DEF Reopen, WalTypes
  <2> QED  BY <1>a, <2>1, <2>2
<1>6. ASSUME NEW t \in Threads, WalAppend(t)  PROVE Goal
  BY <1>a, <1>6, Constants DEF WalAppend, Goto, proc, cmp, WalTypes
<1>7. ASSUME NEW t \in Threads, Apply(t)  PROVE Goal
  BY <1>a, <1>7, Constants DEF Apply, Goto, proc, twals, cmp, WalTypes
<1>8. ASSUME NEW t \in Threads, TimerFire(t)  PROVE Goal
  BY <1>a, <1>8, Constants DEF TimerFire, proc, cmp, WalTypes
<1>9. ASSUME NEW t \in Threads, CompactMerge(t)  PROVE Goal
  BY <1>a, <1>9, Constants DEF CompactMerge, Goto, proc, twals, WalTypes
<1>10. ASSUME NEW t \in Threads, Recheck(t)  PROVE Goal
  BY <1>a, <1>10, Constants DEF Recheck, Goto, proc, twals, cmp, WalTypes
<1>11. ASSUME NEW a \in Actors, CompactRead(a)  PROVE Goal
  BY <1>a, <1>11, Constants DEF CompactRead, Goto, proc, twals, WalTypes, Late, Actors
<1>12. ASSUME NEW a \in Actors, CompactMark(a)  PROVE Goal
  BY <1>a, <1>12, Constants DEF CompactMark, Goto, proc, twals, WalTypes, Late, Actors
<1>13. ASSUME NEW a \in Actors, CompactUnlink(a)  PROVE Goal
  BY <1>a, <1>13, Constants DEF CompactUnlink, Goto, proc, WalTypes, Late, Actors
<1>14. ASSUME StartSnapshot  PROVE Goal
  BY <1>a, <1>14, Constants DEF StartSnapshot, Goto, twals, WalTypes, Late, Actors
<1>15. ASSUME StartDestroy  PROVE Goal
  BY <1>a, <1>15, Constants DEF StartDestroy, Goto, proc, twals, WalTypes, Late, Actors
<1>16. ASSUME FlushOne  PROVE Goal
  BY <1>a, <1>16, Constants DEF FlushOne, proc, WalTypes
<1>17. ASSUME FlushEnd  PROVE Goal
  BY <1>a, <1>17, Constants DEF FlushEnd, Goto, proc, twals, cmp, WalTypes, Late, Actors
<1>18. ASSUME Persist  PROVE Goal
  BY <1>a, <1>18, Constants DEF Persist, Goto, proc, twals, WalTypes, Late, Actors
<1>19. ASSUME SealOne  PROVE Goal
  BY <1>a, <1>19, Constants DEF SealOne, proc, WalTypes, Late, Actors
<1>20. ASSUME SealEnd  PROVE Goal
  BY <1>a, <1>20, Constants DEF SealEnd, Goto, proc, twals, cmp, WalTypes, Late, Actors
<1>21. ASSUME Closed  PROVE Goal
  BY <1>a, <1>21, Constants DEF Closed, Stop, WalTypes
<1>22. ASSUME Tick  PROVE Goal
  BY <1>a, <1>22, Constants DEF Tick, twals, cmp, WalTypes
<1>23. ASSUME Crash  PROVE Goal
  BY <1>a, <1>23, Constants DEF Crash, Stop, WalTypes
<1>24. ASSUME Recover  PROVE Goal
  BY <1>a, <1>24, Constants DEF Recover, twals, cmp, WalTypes
<1>25. ASSUME UNCHANGED vars  PROVE Goal
  BY <1>a, <1>25, Constants DEF vars, proc, twals, cmp, WalTypes
<1> QED  BY <1>1, <1>2, <1>3, <1>4, <1>5, <1>6, <1>7, <1>8, <1>9, <1>10, <1>11, <1>12, <1>13, <1>14, <1>15, <1>16, <1>17, <1>18, <1>19, <1>20, <1>21, <1>22, <1>23, <1>24, <1>25 DEF Next, ThreadStep, OwnerStep

\* A compaction names its file after the present second.
LEMMA NamesStep ==
  ASSUME IInv, [Next]_vars
  PROVE  NamesKnown'
<1>1. NamesKnown /\ now \in Int /\ now' \in Int /\ now <= now'
  BY ProcStep, LifeStep DEF IInv, ProcTypes, Seconds
<1>2. \A n : Recorded(n)' => \/ Recorded(n) \/ (n[1] = Nobody /\ n[2] <= now)
                             \/ \E t \in Threads : n[1] = t /\ t \in LifeThreads[life] /\ cur'[t] # NoFile
  BY RecordsStep
<1>3. ASSUME NEW n \in Names, Recorded(n)', n[1] = Nobody  PROVE n[2] <= now'
  <2>1. n[2] \in Int
    BY Constants
  <2> QED  BY <1>1, <1>2, <1>3, <2>1, Constants DEF NamesKnown
<1> QED  BY <1>3 DEF NamesKnown

\* The file behind a descriptor.
LEMMA DescriptorsStep ==
  ASSUME IInv, ~reused', [Next]_vars
  PROVE  Descriptors'
<1> DEFINE D(u) == /\ orphan[u] => pc[u] = "reopen"
                   /\ cur[u] # NoFile =>
                        /\ phase = "up" /\ u \in LifeThreads[life] /\ cur[u][1] = u /\ Readable(cur[u])
                        /\ orphan[u] \/ cur[u] \in DOMAIN file
                        /\ IsSealed(cur[u]) => pc[u] = "reopen"
<1>a. WalTypes /\ \A u \in Threads : D(u)
  BY DEF IInv, Descriptors
<1>b. /\ MoreRecords /\ (Crash \/ (\E a \in Actors : CompactUnlink(a)) \/ Grown)
      /\ \A n : IsSealed(n)' => \/ IsSealed(n) \/ n[1] = Nobody
                                \/ \E t \in Threads : n = cur[t] /\ (pc'[t] = "reopen" \/ cur'[t] = NoFile)
  BY DiskStep, RecordsStep
<1>c. ASSUME NEW u \in Threads, pc[u] = "reopen" => pc'[u] = "reopen", orphan'[u] => pc'[u] = "reopen",
             cur'[u] = cur[u], cur[u] # NoFile => phase' = phase /\ life' = life,
             cur[u] \in DOMAIN file /\ ~orphan[u] => orphan'[u] \/ cur[u] \in DOMAIN file',
             orphan[u] => orphan'[u]
      PROVE  D(u)'
  <2>1. CASE cur[u] = NoFile
    BY <1>c, <2>1
  <2>2. CASE cur[u] # NoFile
    <3>1. Readable(cur[u])' /\ cur[u][1] = u /\ u # Nobody
      BY <1>a, <1>b, <1>c, <2>2, Constants DEF MoreRecords
    <3>2. \A t \in Threads : cur[t] = cur[u] => t = u
      BY <1>a, <2>2
    <3>3. IsSealed(cur[u])' => pc'[u] = "reopen"
      BY <1>a, <1>b, <1>c, <2>2, <3>1, <3>2
    <3> QED  BY <1>a, <1>c, <2>2, <3>1, <3>3
  <2> QED  BY <2>1, <2>2
<1>d. ASSUME cur' = cur, orphan' = orphan, phase' = phase, life' = life, Grown,
             \A u \in Threads : pc[u] = "reopen" => pc'[u] = "reopen"
      PROVE  Descriptors'
  <2> SUFFICES ASSUME NEW u \in Threads  PROVE D(u)'
    BY DEF Descriptors
  <2>1. cur[u] \in DOMAIN file => cur[u] \in DOMAIN file'
    BY <1>d DEF Grown
  <2>2. orphan[u] => pc[u] = "reopen"
    BY <1>a
  <2> HIDE DEF D
  <2> QED  BY <1>c, <1>d, <2>1, <2>2
<1> HIDE DEF D
<1>1. ASSUME NEW t \in Threads, StartPut(t), Grown  PROVE Descriptors'
  <2>1. cur' = cur /\ orphan' = orphan /\ phase' = phase /\ life' = life
    BY <1>1 DEF StartPut, twals
  <2>2. \A u \in Threads : pc[u] = "reopen" => pc'[u] = "reopen"
    BY <1>a, <1>1, Constants DEF StartPut, Goto, twals, WalTypes
  <2> QED  BY <1>d, <1>1, <2>1, <2>2
<1>2. ASSUME NEW t \in Threads, GetThreadWal(t), Grown  PROVE Descriptors'
  <2>1. CASE cur[t] # NoFile
    <3>1. cur' = cur /\ orphan' = orphan /\ phase' = phase /\ life' = life
      BY <1>2, <2>1 DEF GetThreadWal, proc, twals
    <3>2. \A u \in Threads : pc[u] = "reopen" => pc'[u] = "reopen"
      BY <1>a, <1>2, Constants DEF GetThreadWal, Goto, WalTypes
    <3> QED  BY <1>d, <1>2, <3>1, <3>2
  <2>2. CASE cur[t] = NoFile
    <3> DEFINE n == <<t, 0>>
    <3>1. n \in Names /\ n[1] = t /\ ~Recorded(n)
      BY <1>2, <2>2, Constants, FirstName DEF GetThreadWal
    <3>2. /\ file' = Created(n) /\ Record(n, "ACTIVE") /\ cur' = [cur EXCEPT ![t] = n]
          /\ orphan' = orphan /\ phase' = phase /\ life' = life /\ pc[t] = "get" /\ pc' = [pc EXCEPT ![t] = "room"]
      BY <1>2, <2>2 DEF GetThreadWal, proc, Goto
    <3> HIDE DEF n
    <3>3. n \in DOMAIN file'
      BY <3>1, <3>2, CreateGrows DEF IInv, DiskTypes
    <3>4. Readable(n)' /\ ~IsSealed(n)'
      BY <3>1, <3>2, RecordEffect, RecordsKinds DEF IInv, DiskTypes, Statuses
    <3>5. ~orphan[t] /\ phase = "up" /\ t \in LifeThreads[life]
      BY <1>2, <3>2 DEF IInv, Descriptors, Calls
    <3>6. D(t)'
      BY <1>a, <3>1, <3>2, <3>3, <3>4, <3>5 DEF D, WalTypes
    <3>7. ASSUME NEW u \in Threads, u # t  PROVE D(u)'
      <4>1. cur'[u] = cur[u] /\ pc'[u] = pc[u] /\ orphan'[u] = orphan[u]
        BY <1>a, <3>2, <3>7, Constants DEF WalTypes
      <4>2. cur[u] \in DOMAIN file => cur[u] \in DOMAIN file'
        BY <1>2 DEF Grown
      <4>3. orphan[u] => pc[u] = "reopen"
        BY <1>a DEF D
      <4> QED  BY <1>c, <3>2, <4>1, <4>2, <4>3
    <3> QED  BY <3>6, <3>7 DEF Descriptors, D
  <2> QED  BY <2>1, <2>2
<1>3. ASSUME NEW t \in Threads, MakeRoom(t), Grown  PROVE Descriptors'
  <2>1. cur' = cur /\ orphan' = orphan /\ phase' = phase /\ life' = life
    BY <1>3 DEF MakeRoom, proc
  <2>2. \A u \in Threads : pc[u] = "reopen" => pc'[u] = "reopen"
    BY <1>a, <1>3, Constants DEF MakeRoom, Goto, proc, WalTypes
  <2> QED  BY <1>d, <1>3, <2>1, <2>2
<1>4. ASSUME NEW t \in Threads, Seal(t), Grown  PROVE Descriptors'
  <2>1. cur' = cur /\ orphan' = orphan /\ phase' = phase /\ life' = life
    BY <1>4 DEF Seal, proc, twals
  <2>2. \A u \in Threads : pc[u] = "reopen" => pc'[u] = "reopen"
    BY <1>a, <1>4, Constants DEF Seal, Goto, proc, twals, WalTypes
  <2> QED  BY <1>d, <1>4, <2>1, <2>2
<1>5. ASSUME NEW t \in Threads, Reopen(t), Grown  PROVE Descriptors'
  <2>0. PICK n \in Names : n = <<t, newest[t]>>
    BY <1>a, Constants DEF WalTypes
  <2>1. n[1] = t /\ Reuse(n)
    BY <1>5, <2>0 DEF Reopen
  <2>2. /\ file' = Created(n) /\ Record(n, "ACTIVE") /\ cur' = [cur EXCEPT ![t] = n]
        /\ orphan' = [orphan EXCEPT ![t] = FALSE] /\ phase' = phase /\ life' = life
        /\ pc[t] = "reopen" /\ pc' = [pc EXCEPT ![t] = "append"]
    BY <1>5, <2>0 DEF Reopen, proc, Goto
  <2>3. ~Recorded(n) /\ n \in DOMAIN file'
    BY <2>1, <2>2, NextName, CreateGrows DEF IInv, DiskTypes
  <2>4. Readable(n)' /\ ~IsSealed(n)'
    BY <2>1, <2>2, <2>3, RecordEffect, RecordsKinds DEF IInv, DiskTypes, Statuses
  <2>5. phase = "up" /\ t \in LifeThreads[life]
    BY <1>5, <2>2 DEF IInv, Calls
  <2>6. D(t)'
    BY <1>a, <2>1, <2>2, <2>3, <2>4, <2>5 DEF D, WalTypes
  <2>7. ASSUME NEW u \in Threads, u # t  PROVE D(u)'
    <3>1. cur'[u] = cur[u] /\ pc'[u] = pc[u] /\ orphan'[u] = orphan[u]
      BY <1>a, <2>2, <2>7, Constants DEF WalTypes
    <3>2. cur[u] \in DOMAIN file => cur[u] \in DOMAIN file'
      BY <1>5 DEF Grown
    <3>3. orphan[u] => pc[u] = "reopen"
      BY <1>a DEF D
    <3> QED  BY <1>c, <2>2, <3>1, <3>2, <3>3
  <2> QED  BY <2>6, <2>7 DEF Descriptors, D
<1>6. ASSUME NEW t \in Threads, WalAppend(t), Grown  PROVE Descriptors'
  <2>1. cur' = cur /\ orphan' = orphan /\ phase' = phase /\ life' = life
    BY <1>6 DEF WalAppend, proc
  <2>2. \A u \in Threads : pc[u] = "reopen" => pc'[u] = "reopen"
    BY <1>a, <1>6, Constants DEF WalAppend, Goto, proc, WalTypes
  <2> QED  BY <1>d, <1>6, <2>1, <2>2
<1>7. ASSUME NEW t \in Threads, Apply(t), Grown  PROVE Descriptors'
  <2>1. cur' = cur /\ orphan' = orphan /\ phase' = phase /\ life' = life
    BY <1>7 DEF Apply, proc, twals
  <2>2. \A u \in Threads : pc[u] = "reopen" => pc'[u] = "reopen"
    BY <1>a, <1>7, Constants DEF Apply, Goto, proc, twals, WalTypes
  <2> QED  BY <1>d, <1>7, <2>1, <2>2
<1>8. ASSUME NEW t \in Threads, TimerFire(t), Grown  PROVE Descriptors'
  <2>1. cur' = cur /\ orphan' = orphan /\ phase' = phase /\ life' = life
    BY <1>8 DEF TimerFire, proc
  <2>2. \A u \in Threads : pc[u] = "reopen" => pc'[u] = "reopen"
    BY <1>a, <1>8, Constants DEF TimerFire, proc, WalTypes
  <2> QED  BY <1>d, <1>8, <2>1, <2>2
<1>9. ASSUME NEW t \in Threads, CompactMerge(t), Grown  PROVE Descriptors'
  <2>1. cur' = cur /\ orphan' = orphan /\ phase' = phase /\ life' = life
    BY <1>9 DEF CompactMerge, proc, twals
  <2>2. \A u \in Threads : pc[u] = "reopen" => pc'[u] = "reopen"
    BY <1>a, <1>9, Constants DEF CompactMerge, Goto, proc, twals, WalTypes
  <2> QED  BY <1>d, <1>9, <2>1, <2>2
<1>10. ASSUME NEW t \in Threads, Recheck(t), Grown  PROVE Descriptors'
  <2>1. cur' = cur /\ orphan' = orphan /\ phase' = phase /\ life' = life
    BY <1>10 DEF Recheck, proc, twals
  <2>2. \A u \in Threads : pc[u] = "reopen" => pc'[u] = "reopen"
    BY <1>a, <1>10, Constants DEF Recheck, Goto, proc, twals, WalTypes
  <2> QED  BY <1>d, <1>10, <2>1, <2>2
<1>11. ASSUME NEW a \in Actors, CompactRead(a), Grown  PROVE Descriptors'
  <2>1. cur' = cur /\ orphan' = orphan /\ phase' = phase /\ life' = life
    BY <1>11 DEF CompactRead, proc, twals
  <2>2. \A u \in Threads : pc[u] = "reopen" => pc'[u] = "reopen"
    BY <1>a, <1>11, Constants DEF CompactRead, Goto, proc, twals, WalTypes
  <2> QED  BY <1>d, <1>11, <2>1, <2>2
<1>12. ASSUME NEW a \in Actors, CompactMark(a), Grown  PROVE Descriptors'
  <2>1. cur' = cur /\ orphan' = orphan /\ phase' = phase /\ life' = life
    BY <1>12 DEF CompactMark, proc, twals
  <2>2. \A u \in Threads : pc[u] = "reopen" => pc'[u] = "reopen"
    BY <1>a, <1>12, Constants DEF CompactMark, Goto, proc, twals, WalTypes
  <2> QED  BY <1>d, <1>12, <2>1, <2>2
<1>13. ASSUME NEW a \in Actors, CompactUnlink(a)  PROVE Descriptors'
  <2> DEFINE n == list[a][at[a]]
  <2>1. /\ pc[a] = "unlink" /\ file' = [m \in DOMAIN file \ {n} |-> file[m]]
        /\ orphan' = [t \in Threads |-> orphan[t] \/ cur[t] = n]
        /\ cur' = cur /\ phase' = phase /\ life' = life
    BY <1>13 DEF CompactUnlink, proc
  <2>2. at[a] \in 1 .. Len(list[a]) /\ list[a] \in Seq(Names) /\ IsSealed(n)
    BY <1>a, <2>1 DEF IInv, Lists, WalTypes, Actors
  <2>3. n \in Names
    BY <2>2
  <2>4. \A u \in Threads : pc[u] = "reopen" => pc'[u] = "reopen"
    BY <1>a, <1>13, <2>1, Constants DEF CompactUnlink, Goto, WalTypes
  <2> HIDE DEF n
  <2> SUFFICES ASSUME NEW u \in Threads  PROVE D(u)'
    BY DEF Descriptors, D
  <2>5. orphan'[u] <=> orphan[u] \/ cur[u] = n
    BY <2>1
  <2>6. orphan'[u] => pc'[u] = "reopen"
    BY <1>a, <2>2, <2>3, <2>4, <2>5, Constants DEF D
  <2>7. cur[u] \in DOMAIN file => orphan'[u] \/ cur[u] \in DOMAIN file'
    BY <2>1, <2>5
  <2> QED  BY <1>c, <2>1, <2>4, <2>5, <2>6, <2>7
<1>14. ASSUME StartSnapshot, Grown  PROVE Descriptors'
  <2>1. cur' = cur /\ orphan' = orphan /\ phase' = phase /\ life' = life
    BY <1>14 DEF StartSnapshot, twals
  <2>2. \A u \in Threads : pc[u] = "reopen" => pc'[u] = "reopen"
    BY <1>a, <1>14, Constants DEF StartSnapshot, Goto, twals, WalTypes
  <2> QED  BY <1>d, <1>14, <2>1, <2>2
<1>15. ASSUME StartDestroy, Grown  PROVE Descriptors'
  <2>1. cur' = cur /\ orphan' = orphan /\ phase' = phase /\ life' = life
    BY <1>15 DEF StartDestroy, proc, twals
  <2>2. \A u \in Threads : pc[u] = "reopen" => pc'[u] = "reopen"
    BY <1>a, <1>15, Constants DEF StartDestroy, Goto, proc, twals, WalTypes
  <2> QED  BY <1>d, <1>15, <2>1, <2>2
<1>16. ASSUME FlushOne, Grown  PROVE Descriptors'
  <2>1. cur' = cur /\ orphan' = orphan /\ phase' = phase /\ life' = life
    BY <1>16 DEF FlushOne, proc
  <2>2. \A u \in Threads : pc[u] = "reopen" => pc'[u] = "reopen"
    BY <1>a, <1>16, Constants DEF FlushOne, proc, WalTypes
  <2> QED  BY <1>d, <1>16, <2>1, <2>2
<1>17. ASSUME FlushEnd, Grown  PROVE Descriptors'
  <2>1. cur' = cur /\ orphan' = orphan /\ phase' = phase /\ life' = life
    BY <1>17 DEF FlushEnd, proc, twals
  <2>2. \A u \in Threads : pc[u] = "reopen" => pc'[u] = "reopen"
    BY <1>a, <1>17, Constants DEF FlushEnd, Goto, proc, twals, WalTypes
  <2> QED  BY <1>d, <1>17, <2>1, <2>2
<1>18. ASSUME Persist, Grown  PROVE Descriptors'
  <2>1. cur' = cur /\ orphan' = orphan /\ phase' = phase /\ life' = life
    BY <1>18 DEF Persist, proc, twals
  <2>2. \A u \in Threads : pc[u] = "reopen" => pc'[u] = "reopen"
    BY <1>a, <1>18, Constants DEF Persist, Goto, proc, twals, WalTypes
  <2> QED  BY <1>d, <1>18, <2>1, <2>2
<1>19. ASSUME SealOne, Grown  PROVE Descriptors'
  <2> DEFINE t == threads[at[Owner]]
  <2>1. t \in Threads
    BY <1>19, AtThread DEF SealOne
  <2>2. /\ cur' = [cur EXCEPT ![t] = NoFile] /\ orphan' = orphan /\ pc' = pc /\ phase' = phase /\ life' = life
    BY <1>19 DEF SealOne, proc
  <2> HIDE DEF t
  <2> SUFFICES ASSUME NEW u \in Threads  PROVE D(u)'
    BY DEF Descriptors, D
  <2>3. CASE u = t
    BY <1>a, <2>1, <2>2, <2>3 DEF D, WalTypes
  <2>4. CASE u # t
    <3>1. cur'[u] = cur[u]
      BY <1>a, <2>1, <2>2, <2>4 DEF WalTypes
    <3>2. cur[u] \in DOMAIN file => cur[u] \in DOMAIN file'
      BY <1>19 DEF Grown
    <3>3. orphan[u] => pc[u] = "reopen"
      BY <1>a DEF D
    <3> QED  BY <1>c, <2>2, <3>1, <3>2, <3>3
  <2> QED  BY <2>3, <2>4
<1>20. ASSUME SealEnd, Grown  PROVE Descriptors'
  <2>1. cur' = cur /\ orphan' = orphan /\ phase' = phase /\ life' = life
    BY <1>20 DEF SealEnd, proc, twals
  <2>2. \A u \in Threads : pc[u] = "reopen" => pc'[u] = "reopen"
    BY <1>a, <1>20, Constants DEF SealEnd, Goto, proc, twals, WalTypes
  <2> QED  BY <1>d, <1>20, <2>1, <2>2
<1>21. ASSUME Closed  PROVE Descriptors'
  BY <1>21 DEF Closed, Stop, Descriptors
<1>22. ASSUME Tick, Grown  PROVE Descriptors'
  <2>1. cur' = cur /\ orphan' = orphan /\ phase' = phase /\ life' = life
    BY <1>22 DEF Tick, twals
  <2>2. \A u \in Threads : pc[u] = "reopen" => pc'[u] = "reopen"
    BY <1>a, <1>22, Constants DEF Tick, twals, WalTypes
  <2> QED  BY <1>d, <1>22, <2>1, <2>2
<1>23. ASSUME Crash  PROVE Descriptors'
  BY <1>23 DEF Crash, Stop, Descriptors
<1>24. ASSUME Recover  PROVE Descriptors'
  <2>1. \A u \in Threads : cur'[u] = NoFile /\ ~orphan'[u]
    BY <1>a, <1>24 DEF Recover, twals, D, IInv, Calls
  <2> QED  BY <2>1 DEF Descriptors
<1>25. ASSUME UNCHANGED vars, Grown  PROVE Descriptors'
  <2>1. cur' = cur /\ orphan' = orphan /\ phase' = phase /\ life' = life
    BY <1>25 DEF vars, proc, twals
  <2>2. \A u \in Threads : pc[u] = "reopen" => pc'[u] = "reopen"
    BY <1>a, <1>25, Constants DEF vars, proc, twals, WalTypes
  <2> QED  BY <1>d, <1>25, <2>1, <2>2
<1> QED  BY <1>b, <1>1, <1>2, <1>3, <1>4, <1>5, <1>6, <1>7, <1>8, <1>9, <1>10, <1>11, <1>12, <1>13, <1>14, <1>15, <1>16, <1>17, <1>18, <1>19, <1>20, <1>21, <1>22, <1>23, <1>24, <1>25 DEF Next, ThreadStep, OwnerStep

\* The list of thread WALs.
LEMMA RegisteredStep ==
  ASSUME IInv, [Next]_vars
  PROVE  Registered'
<1>a. WalTypes /\ Registered
  BY DEF IInv
<1>b. \A i \in 1 .. Len(threads) : threads[i] \in Threads
  BY <1>a DEF WalTypes
<1>c. ASSUME threads' = threads, acked' = acked, pc'[Owner] = pc[Owner], at'[Owner] = at[Owner],
             \A t \in Threads : cur'[t] = NoFile <=> cur[t] = NoFile
      PROVE  Registered'
  BY <1>a, <1>b, <1>c DEF Registered
<1>d. ASSUME threads' = threads, acked' = acked, cur' = cur, pc'[Owner] \notin Late => pc[Owner] \notin Late,
             pc'[Owner] = "seal_all" => pc[Owner] \notin Late,
             pc'[Owner] \in {"flush", "destroy_flush", "seal_all"} => at'[Owner] >= 1
      PROVE  Registered'
  BY <1>a, <1>b, <1>d DEF Registered, Late
<1>1. ASSUME NEW t \in Threads, StartPut(t)  PROVE Registered'
  BY <1>a, <1>c, <1>1, Constants DEF StartPut, Goto, twals, cmp, history, WalTypes
<1>2. ASSUME NEW t \in Threads, GetThreadWal(t)  PROVE Registered'
  <2>1. pc'[Owner] = pc[Owner] /\ pc[Owner] \notin Late /\ acked' = acked /\ at' = at
    BY <1>a, <1>2, Constants DEF GetThreadWal, Goto, WalTypes, cmp, history, IInv, Calls, Late
  <2>2. CASE cur[t] # NoFile
    BY <1>c, <1>2, <2>1, <2>2 DEF GetThreadWal, twals
  <2>3. CASE cur[t] = NoFile
    <3>1. threads' = Append(threads, t) /\ cur' = [cur EXCEPT ![t] = <<t, 0>>] /\ <<t, 0>> # NoFile
      BY <1>2, <2>3, Constants DEF GetThreadWal
    <3>2. /\ Len(threads) \in Nat /\ Len(threads') = Len(threads) + 1 /\ threads'[Len(threads) + 1] = t
          /\ \A i \in 1 .. Len(threads) : threads'[i] = threads[i]
      BY <1>a, <3>1 DEF WalTypes
    <3>3. \A i \in 1 .. Len(threads') : i \in 1 .. Len(threads) \/ i = Len(threads) + 1
      BY <3>2
    <3>4. \A i \in 1 .. Len(threads) : i \in 1 .. Len(threads') /\ Len(threads) + 1 \in 1 .. Len(threads')
      BY <3>2
    <3>5. \A i \in 1 .. Len(threads) : cur[threads[i]] # NoFile /\ threads[i] # t
      BY <1>a, <2>1, <2>3 DEF Registered
    <3>6. cur'[t] # NoFile /\ \A u \in Threads : u # t => cur'[u] = cur[u]
      BY <1>a, <3>1 DEF WalTypes
    <3>7. \A u \in Threads : cur'[u] # NoFile \/ acked'[u] # {} => \E i \in 1 .. Len(threads') : threads'[i] = u
      <4> SUFFICES ASSUME NEW u \in Threads, cur'[u] # NoFile \/ acked'[u] # {}
                   PROVE  \E i \in 1 .. Len(threads') : threads'[i] = u
        OBVIOUS
      <4>1. CASE u = t
        <5>1. Len(threads) + 1 \in 1 .. Len(threads')
          BY <3>2
        <5> QED  BY <3>2, <4>1, <5>1
      <4>2. CASE u # t
        <5>1. \E i \in 1 .. Len(threads) : threads[i] = u
          BY <1>a, <2>1, <3>6, <4>2 DEF Registered
        <5> QED  BY <3>2, <3>4, <5>1
      <4> QED  BY <4>1, <4>2
    <3>8. \A i, j \in 1 .. Len(threads') : threads'[i] = threads'[j] => i = j
      BY <1>a, <3>2, <3>3, <3>5 DEF Registered
    <3>9. \A i \in 1 .. Len(threads') : cur'[threads'[i]] # NoFile
      BY <1>b, <3>2, <3>3, <3>5, <3>6
    <3> QED  BY <1>a, <2>1, <3>7, <3>8, <3>9 DEF Registered, Late
  <2> QED  BY <2>2, <2>3
<1>3. ASSUME NEW t \in Threads, MakeRoom(t)  PROVE Registered'
  <2>1. PICK x : pc' = [pc EXCEPT ![t] = x]
    BY <1>3 DEF MakeRoom, Goto
  <2>2. pc'[Owner] = pc[Owner]
    BY <1>a, <2>1, Constants DEF WalTypes
  <2> QED  BY <1>c, <1>3, <2>2 DEF MakeRoom, cmp, history
<1>4. ASSUME NEW t \in Threads, Seal(t)  PROVE Registered'
  BY <1>a, <1>c, <1>4, Constants DEF Seal, Goto, twals, cmp, history, WalTypes
<1>5. ASSUME NEW t \in Threads, Reopen(t)  PROVE Registered'
  <2>1. cur' = [cur EXCEPT ![t] = <<t, newest[t]>>] /\ cur[t] # NoFile /\ <<t, newest[t]>> # NoFile
    <3>1. newest[t] \in 0 .. MaxSecond
      BY <1>a DEF WalTypes
    <3>2. <<t, newest[t]>> # NoFile
      BY <3>1, Constants
    <3> QED  BY <1>5, <3>2 DEF Reopen, IInv, Calls
  <2>2. \A u \in Threads : cur'[u] = NoFile <=> cur[u] = NoFile
    BY <1>a, <2>1 DEF WalTypes
  <2>3. pc'[Owner] = pc[Owner] /\ threads' = threads /\ acked' = acked /\ at' = at
    BY <1>a, <1>5, Constants DEF Reopen, Goto, WalTypes, cmp, history
  <2> QED  BY <1>c, <2>2, <2>3
<1>6. ASSUME NEW t \in Threads, WalAppend(t)  PROVE Registered'
  BY <1>a, <1>c, <1>6, Constants DEF WalAppend, Goto, cmp, history, WalTypes
<1>7. ASSUME NEW t \in Threads, Apply(t)  PROVE Registered'
  <2>1. pc'[Owner] = pc[Owner] /\ threads' = threads /\ cur' = cur /\ at' = at /\ cur[t] # NoFile
    BY <1>a, <1>7, Constants DEF Apply, Goto, WalTypes, twals, cmp, IInv, Calls
  <2>2. \A u \in Threads : u # t => acked'[u] = acked[u]
    <3>1. CASE acked' = acked
      BY <3>1
    <3>2. CASE acked' = [acked EXCEPT ![t] = acked[t] \cup {job[t].entry.id}]
      BY <1>a, <3>2 DEF WalTypes
    <3> QED  BY <1>7, <3>1, <3>2 DEF Apply
  <2>3. \A u \in Threads : cur'[u] # NoFile \/ acked'[u] # {} => \E i \in 1 .. Len(threads) : threads[i] = u
    BY <1>a, <2>1, <2>2 DEF Registered
  <2> QED  BY <1>a, <1>b, <2>1, <2>3 DEF Registered
<1>8. ASSUME NEW t \in Threads, TimerFire(t)  PROVE Registered'
  BY <1>a, <1>c, <1>8, Constants DEF TimerFire, cmp, WalTypes
<1>9. ASSUME NEW t \in Threads, CompactMerge(t)  PROVE Registered'
  BY <1>a, <1>c, <1>9, Constants DEF CompactMerge, Goto, twals, history, WalTypes
<1>10. ASSUME NEW t \in Threads, Recheck(t)  PROVE Registered'
  BY <1>a, <1>c, <1>10, Constants DEF Recheck, Goto, twals, cmp, history, WalTypes
<1>11. ASSUME NEW a \in Actors, CompactRead(a)  PROVE Registered'
  <2>1. threads' = threads /\ cur' = cur /\ acked' = acked
    BY <1>11 DEF CompactRead, twals, history
  <2>2. CASE a = Owner
    BY <1>a, <1>d, <1>11, <2>1, <2>2, Constants DEF CompactRead, Goto, WalTypes, Late
  <2>3. CASE a # Owner
    <3>1. pc'[Owner] = pc[Owner] /\ at'[Owner] = at[Owner]
      BY <1>a, <1>11, <2>3, Constants DEF CompactRead, Goto, WalTypes
    <3> QED  BY <1>c, <2>1, <3>1
  <2> QED  BY <2>2, <2>3
<1>12. ASSUME NEW a \in Actors, CompactMark(a)  PROVE Registered'
  <2>1. threads' = threads /\ cur' = cur /\ acked' = acked
    BY <1>12 DEF CompactMark, twals, history
  <2>2. CASE a = Owner
    BY <1>a, <1>d, <1>12, <2>1, <2>2, Constants DEF CompactMark, Goto, WalTypes, Late
  <2>3. CASE a # Owner
    <3>1. pc'[Owner] = pc[Owner] /\ at'[Owner] = at[Owner]
      BY <1>a, <1>12, <2>3, Constants DEF CompactMark, Goto, WalTypes
    <3> QED  BY <1>c, <2>1, <3>1
  <2> QED  BY <2>2, <2>3
<1>13. ASSUME NEW a \in Actors, CompactUnlink(a)  PROVE Registered'
  <2>1. threads' = threads /\ cur' = cur /\ acked' = acked
    BY <1>13 DEF CompactUnlink
  <2>2. CASE a = Owner
    BY <1>a, <1>d, <1>13, <2>1, <2>2, Constants DEF CompactUnlink, Goto, WalTypes, Late
  <2>3. CASE a # Owner
    <3>1. pc'[Owner] = pc[Owner] /\ at'[Owner] = at[Owner]
      BY <1>a, <1>13, <2>3, Constants DEF CompactUnlink, Goto, WalTypes
    <3> QED  BY <1>c, <2>1, <3>1
  <2> QED  BY <2>2, <2>3
<1>14. ASSUME StartSnapshot  PROVE Registered'
  BY <1>a, <1>d, <1>14, Constants DEF StartSnapshot, Goto, twals, history, WalTypes, Late
<1>15. ASSUME StartDestroy  PROVE Registered'
  BY <1>a, <1>d, <1>15, Constants DEF StartDestroy, Goto, twals, history, WalTypes, Late
<1>16. ASSUME FlushOne  PROVE Registered'
  <2>1. threads' = threads /\ cur' = cur /\ acked' = acked /\ pc' = pc /\ at' = [at EXCEPT ![Owner] = at[Owner] + 1]
    BY <1>16 DEF FlushOne
  <2>2. at[Owner] \in Nat /\ at'[Owner] = at[Owner] + 1 /\ at[Owner] >= 1 /\ pc[Owner] \notin Late
    <3>1. at[Owner] \in 1 .. Len(threads) /\ pc[Owner] \notin Late
      BY <1>16, AtThread DEF FlushOne, Late
    <3>2. at'[Owner] = at[Owner] + 1
      BY <1>a, <2>1, Constants DEF WalTypes
    <3> QED  BY <3>1, <3>2
  <2> QED  BY <1>d, <2>1, <2>2
<1>17. ASSUME FlushEnd  PROVE Registered'
  BY <1>a, <1>d, <1>17, Constants DEF FlushEnd, Goto, twals, cmp, history, WalTypes, Late
<1>18. ASSUME Persist  PROVE Registered'
  BY <1>a, <1>d, <1>18, Constants DEF Persist, Goto, twals, history, WalTypes, Late
<1>19. ASSUME SealOne  PROVE Registered'
  <2> DEFINE k == at[Owner]
  <2>1. k \in 1 .. Len(threads) /\ threads[k] \in Threads
    BY <1>19, AtThread DEF SealOne
  <2>2. /\ threads' = threads /\ acked' = acked /\ pc' = pc /\ pc[Owner] = "seal_all"
        /\ cur' = [cur EXCEPT ![threads[k]] = NoFile] /\ at' = [at EXCEPT ![Owner] = k + 1]
    BY <1>19 DEF SealOne, history
  <2>3. at'[Owner] = k + 1 /\ k \in Nat
    BY <1>a, <2>2, Constants DEF WalTypes
  <2> HIDE DEF k
  <2>4. \A u \in Threads : cur'[u] = IF u = threads[k] THEN NoFile ELSE cur[u]
    BY <1>a, <2>1, <2>2 DEF WalTypes
  <2>5. \A u \in Threads : cur'[u] # NoFile \/ acked'[u] # {} => \E i \in 1 .. Len(threads) : threads[i] = u
    BY <1>a, <2>2, <2>4 DEF Registered
  <2>6. \A i \in 1 .. Len(threads) : k + 1 <= i => cur'[threads[i]] # NoFile
    <3> SUFFICES ASSUME NEW i \in 1 .. Len(threads), k + 1 <= i  PROVE cur'[threads[i]] # NoFile
      OBVIOUS
    <3>1. k <= i /\ k # i
      BY <2>3
    <3>2. threads[i] # threads[k] /\ cur[threads[i]] # NoFile
      BY <1>a, <2>1, <2>2, <3>1 DEF Registered, k
    <3> QED  BY <1>b, <2>4, <3>2
  <2> QED  BY <1>a, <2>2, <2>3, <2>5, <2>6 DEF Registered, Late
<1>20. ASSUME SealEnd  PROVE Registered'
  BY <1>a, <1>d, <1>20, Constants DEF SealEnd, Goto, twals, cmp, history, WalTypes, Late
<1>21. ASSUME Closed  PROVE Registered'
  BY <1>21, Constants DEF Closed, Stop, Registered
<1>22. ASSUME Tick  PROVE Registered'
  BY <1>a, <1>c, <1>22, Constants DEF Tick, twals, cmp, history, WalTypes
<1>23. ASSUME Crash  PROVE Registered'
  BY <1>23, Constants DEF Crash, Stop, Registered
<1>24. ASSUME Recover  PROVE Registered'
  BY <1>a, <1>c, <1>24, Constants DEF Recover, twals, cmp, history, WalTypes
<1>25. ASSUME UNCHANGED vars  PROVE Registered'
  BY <1>c, <1>25 DEF vars, twals, cmp, history
<1> QED  BY <1>1, <1>2, <1>3, <1>4, <1>5, <1>6, <1>7, <1>8, <1>9, <1>10, <1>11, <1>12, <1>13, <1>14, <1>15, <1>16, <1>17, <1>18, <1>19, <1>20, <1>21, <1>22, <1>23, <1>24, <1>25 DEF Next, ThreadStep, OwnerStep

\* The files that a compaction works on.
LEMMA ListsStep ==
  ASSUME IInv, ~reused', [Next]_vars
  PROVE  Lists'
<1> DEFINE L(u) == /\ pc[u] = "merge" =>
                        at[u] = 1 /\ list[u] # <<>> /\ \A i \in 1 .. Len(list[u]) : IsSealed(list[u][i])
                   /\ pc[u] = "mark" =>
                        /\ Len(list[u]) >= 2 /\ at[u] \in 1 .. Len(list[u])
                        /\ Target(u)[1] = Nobody /\ Target(u)[2] \in 1 .. now
                        /\ \A i \in 1 .. (Len(list[u]) - 1) :
                             IsSealed(list[u][i]) /\ Rank(list[u][i]) < Target(u)[2]
                   /\ pc[u] = "unlink" =>
                        at[u] \in 1 .. Len(list[u]) /\ \A i \in 1 .. Len(list[u]) : IsSealed(list[u][i])
           O == pc[Owner] \in {"mark", "unlink"} =>
                  at[Owner] \in 1 .. Len(list[Owner]) /\ \A i \in 1 .. Len(list[Owner]) : IsSealed(list[Owner][i])
<1>a. WalTypes /\ O /\ now \in Int /\ now' \in Int /\ now <= now'
  <2>1. WalTypes /\ O
    BY DEF IInv, Lists
  <2>2. ProcTypes /\ ProcTypes'
    BY ProcStep DEF IInv
  <2>3. now \in Int /\ now' \in Int
    BY <2>2 DEF ProcTypes, Seconds
  <2>4. now <= now'
    BY LifeStep
  <2> QED  BY <2>1, <2>3, <2>4
<1>b. \A u \in Threads : L(u)
  BY DEF IInv, Lists
<1>c. \A n : IsSealed(n) => IsSealed(n)'
  BY DiskStep DEF MoreRecords
<1>d. ASSUME NEW u \in Threads, pc'[u] = pc[u] /\ list'[u] = list[u] /\ at'[u] = at[u]
      PROVE  L(u)'
  BY <1>a, <1>b, <1>c, <1>d DEF Target, Rank
<1>e. ASSUME NEW u \in Threads, pc'[u] \notin {"merge", "mark", "unlink"}  PROVE L(u)'
  BY <1>e
<1>f. ASSUME pc'[Owner] = pc[Owner] /\ list'[Owner] = list[Owner] /\ at'[Owner] = at[Owner]  PROVE O'
  BY <1>a, <1>c, <1>f
<1>g. ASSUME pc'[Owner] \notin {"mark", "unlink"}  PROVE O'
  BY <1>g
<1>h. ASSUME O', \A u \in Threads : L(u)'  PROVE Lists'
  BY <1>h DEF Lists
<1> HIDE DEF L, O
<1>1. ASSUME NEW t \in Threads, StartPut(t)  PROVE Lists'
  <2>1. /\ pc'[t] \notin {"merge", "mark", "unlink"} \/ (pc'[t] = pc[t] /\ list' = list /\ at' = at)
        /\ \A u \in Actors : u # t => pc'[u] = pc[u] /\ list'[u] = list[u] /\ at'[u] = at[u]
    BY <1>a, <1>1, Constants DEF StartPut, Goto, cmp, WalTypes
  <2> QED  BY <1>d, <1>e, <1>f, <1>h, <2>1, Constants
<1>2. ASSUME NEW t \in Threads, GetThreadWal(t)  PROVE Lists'
  <2>1. /\ pc'[t] \notin {"merge", "mark", "unlink"} \/ (pc'[t] = pc[t] /\ list' = list /\ at' = at)
        /\ \A u \in Actors : u # t => pc'[u] = pc[u] /\ list'[u] = list[u] /\ at'[u] = at[u]
    BY <1>a, <1>2, Constants DEF GetThreadWal, Goto, cmp, WalTypes
  <2> QED  BY <1>d, <1>e, <1>f, <1>h, <2>1, Constants
<1>3. ASSUME NEW t \in Threads, MakeRoom(t)  PROVE Lists'
  <2>1. PICK x \in {"append", "compact", "seal"} : pc' = [pc EXCEPT ![t] = x] /\ list' = list /\ at' = at
    BY <1>3 DEF MakeRoom, Goto, cmp
  <2>2. pc'[t] = x /\ \A u \in Actors : u # t => pc'[u] = pc[u]
    BY <1>a, <2>1, Constants DEF WalTypes
  <2> QED  BY <1>d, <1>e, <1>f, <1>h, <2>1, <2>2, Constants
<1>4. ASSUME NEW t \in Threads, Seal(t)  PROVE Lists'
  <2>1. /\ pc'[t] \notin {"merge", "mark", "unlink"} \/ (pc'[t] = pc[t] /\ list' = list /\ at' = at)
        /\ \A u \in Actors : u # t => pc'[u] = pc[u] /\ list'[u] = list[u] /\ at'[u] = at[u]
    BY <1>a, <1>4, Constants DEF Seal, Goto, cmp, WalTypes
  <2> QED  BY <1>d, <1>e, <1>f, <1>h, <2>1, Constants
<1>5. ASSUME NEW t \in Threads, Reopen(t)  PROVE Lists'
  <2>1. /\ pc'[t] \notin {"merge", "mark", "unlink"} \/ (pc'[t] = pc[t] /\ list' = list /\ at' = at)
        /\ \A u \in Actors : u # t => pc'[u] = pc[u] /\ list'[u] = list[u] /\ at'[u] = at[u]
    BY <1>a, <1>5, Constants DEF Reopen, Goto, cmp, WalTypes
  <2> QED  BY <1>d, <1>e, <1>f, <1>h, <2>1, Constants
<1>6. ASSUME NEW t \in Threads, WalAppend(t)  PROVE Lists'
  <2>1. /\ pc'[t] \notin {"merge", "mark", "unlink"} \/ (pc'[t] = pc[t] /\ list' = list /\ at' = at)
        /\ \A u \in Actors : u # t => pc'[u] = pc[u] /\ list'[u] = list[u] /\ at'[u] = at[u]
    BY <1>a, <1>6, Constants DEF WalAppend, Goto, cmp, WalTypes
  <2> QED  BY <1>d, <1>e, <1>f, <1>h, <2>1, Constants
<1>7. ASSUME NEW t \in Threads, Apply(t)  PROVE Lists'
  <2>1. /\ pc'[t] \notin {"merge", "mark", "unlink"} \/ (pc'[t] = pc[t] /\ list' = list /\ at' = at)
        /\ \A u \in Actors : u # t => pc'[u] = pc[u] /\ list'[u] = list[u] /\ at'[u] = at[u]
    BY <1>a, <1>7, Constants DEF Apply, Goto, cmp, WalTypes
  <2> QED  BY <1>d, <1>e, <1>f, <1>h, <2>1, Constants
<1>8. ASSUME NEW t \in Threads, TimerFire(t)  PROVE Lists'
  BY <1>d, <1>f, <1>h, <1>8 DEF TimerFire, cmp
<1>9. ASSUME NEW t \in Threads, CompactMerge(t)  PROVE Lists'
  <2>0. PICK g : g = <<Nobody, now>>
    OBVIOUS
  <2>1. g \in Names /\ g[1] = Nobody /\ g[2] = now /\ now \in Nat /\ now >= 1
    BY <2>0, Constants DEF IInv, ProcTypes, Seconds
  <2>2. /\ pc[t] = "merge" /\ Reuse(g) /\ pc' = [pc EXCEPT ![t] = "mark"] /\ at' = at /\ now' = now
        /\ list' = [list EXCEPT ![t] = Append(list[t], g)]
    BY <1>9, <2>0 DEF CompactMerge, Goto, proc
  <2>3. pc'[t] = "mark" /\ list'[t] = Append(list[t], g)
        /\ \A u \in Actors : u # t => pc'[u] = pc[u] /\ list'[u] = list[u] /\ at'[u] = at[u]
    BY <1>a, <2>2, Constants DEF WalTypes
  <2>4. /\ at[t] = 1 /\ list[t] # <<>> /\ \A i \in 1 .. Len(list[t]) : IsSealed(list[t][i])
        /\ list[t] \in Seq(Names)
    BY <1>a, <1>b, <2>2, Constants DEF L, WalTypes
  <2>5. Len(list[t]) \in Nat /\ Len(list[t]) >= 1
    BY <2>4
  <2>6. /\ Len(list'[t]) = Len(list[t]) + 1 /\ list'[t][Len(list[t]) + 1] = g
        /\ \A i \in 1 .. Len(list[t]) : list'[t][i] = list[t][i]
    BY <2>1, <2>3, <2>4
  <2>7. ASSUME NEW i \in 1 .. Len(list[t])  PROVE IsSealed(list[t][i]) /\ Rank(list[t][i]) < now
    <3>1. list[t][i] \in Names /\ Recorded(list[t][i]) /\ ~Recorded(g) /\ IsSealed(list[t][i])
      BY <2>1, <2>2, <2>4, RecordsKinds, NextName
    <3>2. PICK n \in Names : n = list[t][i]
      BY <3>1
    <3>3. n[1] = Nobody => n[2] <= now /\ n[2] # now
      <4>1. n[1] = Nobody => n[2] <= now
        BY <3>1, <3>2 DEF IInv, NamesKnown
      <4>2. n = <<n[1], n[2]>>
        BY DEF Names
      <4>3. n # g
        BY <3>1, <3>2
      <4> QED  BY <2>0, <4>1, <4>2, <4>3
    <3>4. n[2] \in Int
      BY Constants
    <3> QED  BY <2>1, <3>1, <3>2, <3>3, <3>4 DEF Rank
  <2>8. Target(t)' = g
    BY <2>6 DEF Target
  <2>9. L(t)'
    <3>1. Len(list'[t]) >= 2 /\ at'[t] \in 1 .. Len(list'[t]) /\ Len(list'[t]) - 1 = Len(list[t])
      BY <2>2, <2>4, <2>5, <2>6
    <3>2. \A i \in 1 .. Len(list[t]) : IsSealed(list[t][i])' /\ Rank(list'[t][i]) < now
      BY <1>c, <2>6, <2>7
    <3> QED  BY <2>1, <2>2, <2>3, <2>8, <3>1, <3>2 DEF L, Rank
  <2> QED  BY <1>d, <1>f, <1>h, <2>3, <2>9, Constants
<1>10. ASSUME NEW t \in Threads, Recheck(t)  PROVE Lists'
  <2>1. /\ pc'[t] \notin {"merge", "mark", "unlink"} \/ (pc'[t] = pc[t] /\ list' = list /\ at' = at)
        /\ \A u \in Actors : u # t => pc'[u] = pc[u] /\ list'[u] = list[u] /\ at'[u] = at[u]
    BY <1>a, <1>10, Constants DEF Recheck, Goto, cmp, WalTypes
  <2> QED  BY <1>d, <1>e, <1>f, <1>h, <2>1, Constants
<1>11. ASSUME NEW a \in Actors, CompactRead(a)  PROVE Lists'
  <2>1. Sealed \in Seq(Names) /\ \A i \in 1 .. Len(Sealed) : IsSealed(Sealed[i])
    BY SealedSpec DEF IInv, DiskTypes
  <2>2. /\ list' = [list EXCEPT ![a] = Sealed] /\ at' = [at EXCEPT ![a] = 1]
        /\ pc' = [pc EXCEPT ![a] = IF Sealed = <<>> THEN (IF a = Owner THEN "closed" ELSE "recheck")
                                 ELSE IF a = Owner THEN "mark" ELSE "merge"]
    BY <1>11 DEF CompactRead, Goto
  <2>3. /\ list'[a] = Sealed /\ at'[a] = 1
        /\ pc'[a] = IF Sealed = <<>> THEN (IF a = Owner THEN "closed" ELSE "recheck")
                    ELSE IF a = Owner THEN "mark" ELSE "merge"
        /\ \A u \in Actors : u # a => pc'[u] = pc[u] /\ list'[u] = list[u] /\ at'[u] = at[u]
    BY <1>a, <2>2 DEF WalTypes
  <2>4. Sealed # <<>> => 1 \in 1 .. Len(Sealed)
    BY <2>1
  <2>5. PICK s : s = Sealed
    OBVIOUS
  <2>6. \A i \in 1 .. Len(s) : IsSealed(s[i])'
    BY <1>c, <2>1, <2>5
  <2>7. CASE a = Owner
    <3>1. O'
      BY <2>3, <2>4, <2>5, <2>6, <2>7 DEF O
    <3> QED  BY <1>d, <1>h, <2>3, <2>7, <3>1, Constants
  <2>8. CASE a \in Threads
    <3>1. L(a)'
      BY <2>3, <2>5, <2>6, <2>8, Constants DEF L
    <3> QED  BY <1>d, <1>f, <1>h, <2>3, <2>8, <3>1, Constants
  <2> QED  BY <2>7, <2>8 DEF Actors
<1>12. ASSUME NEW a \in Actors, CompactMark(a)  PROVE Lists'
  <2>1. list[a] \in Seq(Names) /\ at[a] \in 1 .. Len(list[a]) /\ pc[a] = "mark"
    BY <1>a, <1>b, <1>12 DEF CompactMark, WalTypes, L, O, Actors
  <2>2. PICK k \in Nat : k = Len(list[a]) /\ k >= 1
    BY <2>1
  <2>3. /\ at' = [at EXCEPT ![a] = IF at[a] = k THEN 1 ELSE at[a] + 1]
        /\ list' = IF at[a] = k /\ a # Owner THEN [list EXCEPT ![a] = Front(list[a])] ELSE list
        /\ pc' = [pc EXCEPT ![a] = IF at[a] = k THEN "unlink" ELSE "mark"]
        /\ now' = now
    BY <1>12, <2>2 DEF CompactMark, Goto, proc
  <2>4. /\ at'[a] = IF at[a] = k THEN 1 ELSE at[a] + 1
        /\ list'[a] = IF at[a] = k /\ a # Owner THEN Front(list[a]) ELSE list[a]
        /\ pc'[a] = IF at[a] = k THEN "unlink" ELSE "mark"
        /\ \A u \in Actors : u # a => pc'[u] = pc[u] /\ list'[u] = list[u] /\ at'[u] = at[u]
    <3>1. CASE at[a] = k /\ a # Owner
      BY <1>a, <2>3, <3>1 DEF WalTypes
    <3>2. CASE ~(at[a] = k /\ a # Owner)
      BY <1>a, <2>3, <3>2 DEF WalTypes
    <3> QED  BY <3>1, <3>2
  <2>5. /\ Len(Front(list[a])) = k - 1 /\ \A i \in 1 .. (k - 1) : Front(list[a])[i] = list[a][i]
    BY <2>1, <2>2 DEF Front
  <2>6. at'[a] \in 1 .. k
    BY <2>1, <2>2, <2>4
  <2>7. CASE a = Owner
    <3>1. list'[a] = list[a] /\ \A i \in 1 .. k : IsSealed(list[a][i])
      BY <1>a, <2>1, <2>2, <2>4, <2>7 DEF O
    <3>2. O'
      BY <1>c, <2>2, <2>6, <2>7, <3>1 DEF O
    <3> QED  BY <1>d, <1>h, <2>4, <2>7, <3>2, Constants
  <2>8. CASE a \in Threads
    <3>1. /\ k >= 2 /\ Target(a)[1] = Nobody /\ Target(a)[2] \in 1 .. now
          /\ \A i \in 1 .. (k - 1) : IsSealed(list[a][i]) /\ Rank(list[a][i]) < Target(a)[2]
      BY <1>b, <2>1, <2>2, <2>8 DEF L
    <3>2. ASSUME at[a] = k  PROVE L(a)'
      <4>1. Len(list'[a]) = k - 1 /\ at'[a] = 1 /\ pc'[a] = "unlink" /\ \A i \in 1 .. (k - 1) : list'[a][i] = list[a][i]
        BY <2>4, <2>5, <2>8, <3>2, Constants
      <4>2. \A i \in 1 .. (k - 1) : IsSealed(list[a][i])'
        BY <1>c, <3>1, <4>1
      <4> QED  BY <2>2, <3>1, <4>1, <4>2 DEF L
    <3>3. ASSUME at[a] # k  PROVE L(a)'
      <4>1. list'[a] = list[a] /\ pc'[a] = "mark" /\ Target(a)' = Target(a)
        BY <2>4, <3>3 DEF Target
      <4>2. \A i \in 1 .. (k - 1) : IsSealed(list[a][i])' /\ Rank(list'[a][i]) < Target(a)[2]
        BY <1>c, <3>1, <4>1
      <4> QED  BY <2>2, <2>3, <2>6, <3>1, <4>1, <4>2 DEF L, Rank
    <3>4. L(a)'
      BY <3>2, <3>3
    <3> QED  BY <1>d, <1>f, <1>h, <2>4, <2>8, <3>4, Constants
  <2> QED  BY <2>7, <2>8 DEF Actors
<1>13. ASSUME NEW a \in Actors, CompactUnlink(a)  PROVE Lists'
  <2>1. list[a] \in Seq(Names) /\ at[a] \in 1 .. Len(list[a]) /\ pc[a] = "unlink"
    BY <1>a, <1>b, <1>13 DEF CompactUnlink, WalTypes, L, O, Actors
  <2>2. CASE at[a] = Len(list[a])
    <3>1. \/ a = Owner /\ pc' = [pc EXCEPT ![a] = "closed"]
          \/ a # Owner /\ pc' = [pc EXCEPT ![a] = "recheck"]
      BY <1>13, <2>2 DEF CompactUnlink, Goto
    <3>2. at' = [at EXCEPT ![a] = 0] /\ list' = [list EXCEPT ![a] = <<>>]
      BY <1>13, <2>2 DEF CompactUnlink
    <3>3. /\ pc'[a] \notin {"merge", "mark", "unlink"}
          /\ \A u \in Actors : u # a => pc'[u] = pc[u] /\ list'[u] = list[u] /\ at'[u] = at[u]
      BY <1>a, <3>1, <3>2 DEF WalTypes
    <3>4. O'
      BY <1>f, <1>g, <3>3, Constants
    <3>5. \A u \in Threads : L(u)'
      BY <1>d, <1>e, <3>3, Constants
    <3> QED  BY <1>h, <3>4, <3>5
  <2>3. CASE at[a] # Len(list[a])
    <3>1. pc' = [pc EXCEPT ![a] = "unlink"] /\ at' = [at EXCEPT ![a] = at[a] + 1] /\ list' = list
      BY <1>13, <2>3 DEF CompactUnlink, Goto
    <3>2. /\ pc'[a] = pc[a] /\ at'[a] \in 1 .. Len(list[a])
          /\ \A u \in Actors : u # a => pc'[u] = pc[u] /\ list'[u] = list[u] /\ at'[u] = at[u]
      BY <1>a, <2>1, <2>3, <3>1 DEF WalTypes
    <3>3. \A i \in 1 .. Len(list[a]) : IsSealed(list[a][i])
      BY <1>a, <1>b, <2>1 DEF L, O, Actors
    <3>4. CASE a = Owner
      <4>1. O'
        BY <1>c, <3>1, <3>2, <3>3, <3>4 DEF O
      <4> QED  BY <1>d, <1>h, <3>2, <3>4, <4>1, Constants
    <3>5. CASE a \in Threads
      <4>1. L(a)'
        BY <1>c, <2>1, <3>1, <3>2, <3>3 DEF L
      <4> QED  BY <1>d, <1>f, <1>h, <3>2, <3>5, <4>1, Constants
    <3> QED  BY <3>4, <3>5 DEF Actors
  <2> QED  BY <2>2, <2>3
<1>14. ASSUME StartSnapshot  PROVE Lists'
  <2>1. /\ pc'[Owner] \notin {"mark", "unlink"}
        /\ \A u \in Threads : pc'[u] = pc[u] /\ list'[u] = list[u] /\ at'[u] = at[u]
    BY <1>a, <1>14, Constants DEF StartSnapshot, Goto, WalTypes
  <2> QED  BY <1>d, <1>g, <1>h, <2>1
<1>15. ASSUME StartDestroy  PROVE Lists'
  <2>1. /\ pc'[Owner] \notin {"mark", "unlink"}
        /\ \A u \in Threads : pc'[u] = pc[u] /\ list'[u] = list[u] /\ at'[u] = at[u]
    BY <1>a, <1>15, Constants DEF StartDestroy, Goto, WalTypes
  <2> QED  BY <1>d, <1>g, <1>h, <2>1
<1>16. ASSUME FlushOne  PROVE Lists'
  <2>1. /\ pc'[Owner] \notin {"mark", "unlink"}
        /\ \A u \in Threads : pc'[u] = pc[u] /\ list'[u] = list[u] /\ at'[u] = at[u]
    BY <1>a, <1>16, Constants DEF FlushOne, WalTypes
  <2> QED  BY <1>d, <1>g, <1>h, <2>1
<1>17. ASSUME FlushEnd  PROVE Lists'
  <2>1. /\ pc'[Owner] \notin {"mark", "unlink"}
        /\ \A u \in Threads : pc'[u] = pc[u] /\ list'[u] = list[u] /\ at'[u] = at[u]
    BY <1>a, <1>17, Constants DEF FlushEnd, Goto, cmp, WalTypes
  <2> QED  BY <1>d, <1>g, <1>h, <2>1
<1>18. ASSUME Persist  PROVE Lists'
  <2>1. /\ pc'[Owner] \notin {"mark", "unlink"}
        /\ \A u \in Threads : pc'[u] = pc[u] /\ list'[u] = list[u] /\ at'[u] = at[u]
    BY <1>a, <1>18, Constants DEF Persist, Goto, WalTypes
  <2> QED  BY <1>d, <1>g, <1>h, <2>1
<1>19. ASSUME SealOne  PROVE Lists'
  <2>1. /\ pc'[Owner] \notin {"mark", "unlink"}
        /\ \A u \in Threads : pc'[u] = pc[u] /\ list'[u] = list[u] /\ at'[u] = at[u]
    BY <1>a, <1>19, Constants DEF SealOne, WalTypes
  <2> QED  BY <1>d, <1>g, <1>h, <2>1
<1>20. ASSUME SealEnd  PROVE Lists'
  <2>1. /\ pc'[Owner] \notin {"mark", "unlink"}
        /\ \A u \in Threads : pc'[u] = pc[u] /\ list'[u] = list[u] /\ at'[u] = at[u]
    BY <1>a, <1>20, Constants DEF SealEnd, Goto, cmp, WalTypes
  <2> QED  BY <1>d, <1>g, <1>h, <2>1
<1>21. ASSUME Closed  PROVE Lists'
  <2>1. \A u \in Actors : pc'[u] = "idle"
    BY <1>21 DEF Closed, Stop
  <2> QED  BY <1>e, <1>g, <1>h, <2>1, Constants
<1>22. ASSUME Tick  PROVE Lists'
  BY <1>d, <1>f, <1>h, <1>22 DEF Tick, cmp
<1>23. ASSUME Crash  PROVE Lists'
  <2>1. \A u \in Actors : pc'[u] = "idle"
    BY <1>23 DEF Crash, Stop
  <2> QED  BY <1>e, <1>g, <1>h, <2>1, Constants
<1>24. ASSUME Recover  PROVE Lists'
  BY <1>d, <1>f, <1>h, <1>24 DEF Recover, cmp
<1>25. ASSUME UNCHANGED vars  PROVE Lists'
  BY <1>d, <1>f, <1>h, <1>25 DEF vars, cmp
<1> QED  BY <1>1, <1>2, <1>3, <1>4, <1>5, <1>6, <1>7, <1>8, <1>9, <1>10, <1>11, <1>12, <1>13, <1>14, <1>15, <1>16, <1>17, <1>18, <1>19, <1>20, <1>21, <1>22, <1>23, <1>24, <1>25 DEF Next, ThreadStep, OwnerStep

(***************************************************************************)
(* What is kept.                                                           *)
(***************************************************************************)

\* A file that is about to be unlinked is sealed.
LEMMA DoomedSealed ==
  ASSUME IInv
  PROVE  \A n : Doomed(n) => IsSealed(n)
BY DEF IInv, Lists, Doomed

\* What a file holds it holds after it has grown.
LEMMA GrownHolds ==
  ASSUME FilesOK(file), FilesOK(file'), Grown
  PROVE  \A i, n : (InSynced(i, n) => InSynced(i, n)') /\ (InData(i, n) => InData(i, n)')
<1> SUFFICES ASSUME NEW i, NEW n, n \in DOMAIN file
             PROVE  (InSynced(i, n) => InSynced(i, n)') /\ (InData(i, n) => InData(i, n)')
  BY DEF InSynced, InData
<1> DEFINE x == file[n]
           y == file'[n]
<1>1. n \in DOMAIN file' /\ Longer(x, y)
  BY DEF Grown
<1>2. /\ x.synced \in Nat /\ x.synced <= Len(x.data) /\ Len(x.data) \in Nat
      /\ y.synced \in Nat /\ Len(y.data) \in Nat
  BY <1>1 DEF FilesOK, Files
<1>3. Len(x.data) <= Len(y.data) /\ x.synced <= y.synced
      /\ \A j \in 1 .. Len(x.data) : y.data[j] = x.data[j]
  BY <1>1 DEF Longer
<1> HIDE DEF x, y
<1>4. /\ \A j \in 1 .. x.synced : j \in 1 .. y.synced /\ y.data[j] = x.data[j]
      /\ \A j \in 1 .. Len(x.data) : j \in 1 .. Len(y.data) /\ y.data[j] = x.data[j]
  BY <1>2, <1>3
<1>5. Holds(x.data, x.synced, i) => Holds(y.data, y.synced, i)
  BY <1>4 DEF Holds
<1>6. Holds(x.data, Len(x.data), i) => Holds(y.data, Len(y.data), i)
  BY <1>4 DEF Holds
<1> QED  BY <1>1, <1>5, <1>6 DEF InSynced, InData, x, y

\* The safe part of a file is a part of it.
LEMMA SyncedInData ==
  ASSUME FilesOK(file)
  PROVE  \A i, n : InSynced(i, n) => InData(i, n)
<1>1. \A n \in DOMAIN file : file[n].synced \in Nat /\ Len(file[n].data) \in Nat /\ file[n].synced <= Len(file[n].data)
  BY DEF FilesOK, Files
<1>2. \A n \in DOMAIN file : \A j \in 1 .. file[n].synced : j \in 1 .. Len(file[n].data)
  BY <1>1
<1> QED  BY <1>2 DEF InSynced, InData, Holds

\* The end of the marking: the compaction that has moved the entries.
Ends(a) == CompactMark(a) /\ at[a] = Len(list[a])

\* Only the end of the marking dooms files.
LEMMA DoomedStep ==
  ASSUME IInv, [Next]_vars
  PROVE  (\E a \in Threads : Ends(a)) \/ \A n : Doomed(n)' => Doomed(n)
<1> DEFINE Goal == (\E a \in Threads : Ends(a)) \/ \A n : Doomed(n)' => Doomed(n)
<1>a. WalTypes
  BY DEF IInv
<1>b. ASSUME \A u \in Threads : pc'[u] = "unlink" => pc[u] = "unlink" /\ list'[u] = list[u]
      PROVE  \A n : Doomed(n)' => Doomed(n)
  BY <1>b DEF Doomed
<1>1. ASSUME NEW t \in Threads, StartPut(t)  PROVE Goal
  BY <1>a, <1>b, <1>1, Constants DEF StartPut, Goto, cmp, WalTypes
<1>2. ASSUME NEW t \in Threads, GetThreadWal(t)  PROVE Goal
  BY <1>a, <1>b, <1>2, Constants DEF GetThreadWal, Goto, cmp, WalTypes
<1>3. ASSUME NEW t \in Threads, MakeRoom(t)  PROVE Goal
  <2>1. PICK x \in {"append", "compact", "seal"} : pc' = [pc EXCEPT ![t] = x] /\ list' = list
    BY <1>3 DEF MakeRoom, Goto, cmp
  <2> QED  BY <1>a, <1>b, <2>1, Constants DEF WalTypes
<1>4. ASSUME NEW t \in Threads, Seal(t)  PROVE Goal
  BY <1>a, <1>b, <1>4, Constants DEF Seal, Goto, cmp, WalTypes
<1>5. ASSUME NEW t \in Threads, Reopen(t)  PROVE Goal
  BY <1>a, <1>b, <1>5, Constants DEF Reopen, Goto, cmp, WalTypes
<1>6. ASSUME NEW t \in Threads, WalAppend(t)  PROVE Goal
  BY <1>a, <1>b, <1>6, Constants DEF WalAppend, Goto, cmp, WalTypes
<1>7. ASSUME NEW t \in Threads, Apply(t)  PROVE Goal
  BY <1>a, <1>b, <1>7, Constants DEF Apply, Goto, cmp, WalTypes
<1>8. ASSUME NEW t \in Threads, TimerFire(t)  PROVE Goal
  BY <1>a, <1>b, <1>8, Constants DEF TimerFire, cmp, WalTypes
<1>9. ASSUME NEW t \in Threads, CompactMerge(t)  PROVE Goal
  BY <1>a, <1>b, <1>9, Constants DEF CompactMerge, Goto, WalTypes
<1>10. ASSUME NEW t \in Threads, Recheck(t)  PROVE Goal
  BY <1>a, <1>b, <1>10, Constants DEF Recheck, Goto, cmp, WalTypes
<1>11. ASSUME NEW a \in Actors, CompactRead(a)  PROVE Goal
  BY <1>a, <1>b, <1>11, Constants DEF CompactRead, Goto, WalTypes
<1>12. ASSUME NEW a \in Actors, CompactMark(a)  PROVE Goal
  <2>1. CASE a \in Threads /\ at[a] = Len(list[a])
    BY <1>12, <2>1 DEF Ends
  <2>2. CASE a = Owner
    BY <1>a, <1>b, <1>12, <2>2, Constants DEF CompactMark, Goto, WalTypes
  <2>3. CASE a # Owner /\ at[a] # Len(list[a])
    BY <1>a, <1>b, <1>12, <2>3, Constants DEF CompactMark, Goto, WalTypes
  <2> QED  BY <2>1, <2>2, <2>3 DEF Actors
<1>13. ASSUME NEW a \in Actors, CompactUnlink(a)  PROVE Goal
  <2>1. pc[a] = "unlink"
    BY <1>13 DEF CompactUnlink
  <2>2. CASE at[a] = Len(list[a])
    <3>1. pc'[a] # "unlink" /\ \A u \in Threads : u # a => pc'[u] = pc[u] /\ list'[u] = list[u]
      BY <1>a, <1>13, <2>2, Constants DEF CompactUnlink, Goto, WalTypes
    <3> QED  BY <1>b, <3>1
  <2>3. CASE at[a] # Len(list[a])
    BY <1>a, <1>b, <1>13, <2>1, <2>3, Constants DEF CompactUnlink, Goto, WalTypes
  <2> QED  BY <2>2, <2>3
<1>14. ASSUME StartSnapshot  PROVE Goal
  BY <1>a, <1>b, <1>14, Constants DEF StartSnapshot, Goto, WalTypes
<1>15. ASSUME StartDestroy  PROVE Goal
  BY <1>a, <1>b, <1>15, Constants DEF StartDestroy, Goto, WalTypes
<1>16. ASSUME FlushOne  PROVE Goal
  BY <1>a, <1>b, <1>16, Constants DEF FlushOne, WalTypes
<1>17. ASSUME FlushEnd  PROVE Goal
  BY <1>a, <1>b, <1>17, Constants DEF FlushEnd, Goto, cmp, WalTypes
<1>18. ASSUME Persist  PROVE Goal
  BY <1>a, <1>b, <1>18, Constants DEF Persist, Goto, WalTypes
<1>19. ASSUME SealOne  PROVE Goal
  BY <1>a, <1>b, <1>19, Constants DEF SealOne, WalTypes
<1>20. ASSUME SealEnd  PROVE Goal
  BY <1>a, <1>b, <1>20, Constants DEF SealEnd, Goto, cmp, WalTypes
<1>21. ASSUME Closed  PROVE Goal
  BY <1>a, <1>b, <1>21, Constants DEF Closed, Stop, WalTypes
<1>22. ASSUME Tick  PROVE Goal
  BY <1>a, <1>b, <1>22, Constants DEF Tick, cmp, WalTypes
<1>23. ASSUME Crash  PROVE Goal
  BY <1>a, <1>b, <1>23, Constants DEF Crash, Stop, WalTypes
<1>24. ASSUME Recover  PROVE Goal
  BY <1>a, <1>b, <1>24, Constants DEF Recover, cmp, WalTypes
<1>25. ASSUME UNCHANGED vars  PROVE Goal
  BY <1>a, <1>b, <1>25, Constants DEF vars, cmp, WalTypes
<1> QED  BY <1>1, <1>2, <1>3, <1>4, <1>5, <1>6, <1>7, <1>8, <1>9, <1>10, <1>11, <1>12, <1>13, <1>14, <1>15, <1>16, <1>17, <1>18, <1>19, <1>20, <1>21, <1>22, <1>23, <1>24, <1>25 DEF Next, ThreadStep, OwnerStep

\* It dooms the files it has merged, and not the file that has their entries now.
LEMMA EndsLive ==
  ASSUME IInv, NEW a \in Threads, Ends(a), NEW i \in Ids, NEW n, InSynced(i, n), ~Doomed(n)
  PROVE  /\ file' = file
         /\ \/ ~Doomed(n)'
            \/ \E m \in DOMAIN file : /\ InSynced(i, m) /\ ~Doomed(m)' /\ Readable(m)'
                                      /\ m[1] = Nobody /\ m[2] > Rank(n)
<1>1. WalTypes /\ pc[a] = "mark" /\ a # Owner /\ file' = file
  BY Constants DEF IInv, Ends, CompactMark
<1>2. PICK k \in Nat : k = Len(list[a]) /\ list[a] \in Seq(Names)
  BY <1>1, Constants DEF WalTypes
<1>3. PICK g : g = list[a][k]
  OBVIOUS
<1>4. /\ k >= 2 /\ at[a] = k /\ g[1] = Nobody /\ g[2] \in 1 .. now /\ g = Target(a)
      /\ \A j \in 1 .. (k - 1) : Rank(list[a][j]) < g[2]
  BY <1>1, <1>2, <1>3 DEF IInv, Lists, Ends, Target
<1>5. /\ Record(g, "SEALED") /\ list' = [list EXCEPT ![a] = Front(list[a])] /\ pc' = [pc EXCEPT ![a] = "unlink"]
  BY <1>1, <1>2, <1>3, <1>4 DEF Ends, CompactMark, Goto
<1>6. /\ Len(Front(list[a])) = k - 1 /\ \A j \in 1 .. (k - 1) : Front(list[a])[j] = list[a][j]
  BY <1>2, <1>4 DEF Front
<1>7. /\ pc'[a] = "unlink" /\ list'[a] = Front(list[a])
      /\ \A u \in Threads : u # a => pc'[u] = pc[u] /\ list'[u] = list[u]
  BY <1>1, <1>5, Constants DEF WalTypes
<1>8. \A m : Doomed(m)' => Doomed(m) \/ \E j \in 1 .. (k - 1) : list[a][j] = m
  BY <1>6, <1>7 DEF Doomed
<1>9. g \in Names /\ Readable(g)' /\ \A m : Readable(m) => Readable(m)'
  <2>1. k \in 1 .. Len(list[a])
    BY <1>2, <1>4
  <2>2. g \in Names /\ manifest \in Seq(Names \X Statuses) /\ "SEALED" \in Statuses
    BY <1>2, <1>3, <2>1 DEF IInv, DiskTypes, Statuses
  <2>3. \A m : Readable(m)' <=> Readable(m) \/ (m = g /\ "SEALED" # "COMPACTED")
    BY <1>5, <2>2, RecordEffect
  <2> QED  BY <2>2, <2>3
<1>10. ASSUME Doomed(n)'
       PROVE  \E m \in DOMAIN file : /\ InSynced(i, m) /\ ~Doomed(m)' /\ Readable(m)'
                                     /\ m[1] = Nobody /\ m[2] > Rank(n)
  <2>1. PICK j \in 1 .. (k - 1) : list[a][j] = n
    BY <1>8, <1>10
  <2>2. InData(i, n)
    BY SyncedInData DEF IInv, DiskTypes
  <2>3. PICK m \in DOMAIN file : /\ InSynced(i, m) /\ ~Doomed(m) /\ (Readable(m) \/ m = Target(a))
                                 /\ m[1] = Nobody /\ m[2] >= Target(a)[2]
    BY <1>1, <1>2, <2>1, <2>2 DEF IInv, Moved
  <2>4. m \in Names /\ m[2] \in Int
    BY Constants DEF IInv, DiskTypes, FilesOK
  <2>5. Readable(m)'
    BY <1>4, <1>9, <2>3
  <2>6. Rank(m) = m[2] /\ g[2] \in Int /\ m[2] >= g[2]
    BY <1>4, <2>3 DEF Rank
  <2>7. \A l \in 1 .. (k - 1) : list[a][l] \in Names
    BY <1>2
  <2>8. \A l \in 1 .. (k - 1) : Rank(list[a][l]) \in Int
    BY <2>7, Constants DEF Rank
  <2>9. \A l \in 1 .. (k - 1) : Rank(list[a][l]) < m[2]
    BY <1>4, <2>4, <2>6, <2>8
  <2>10. ~Doomed(m)'
    BY <1>8, <2>3, <2>4, <2>6, <2>8, <2>9
  <2>11. m[2] > Rank(n)
    BY <2>1, <2>4, <2>8, <2>9
  <2> QED  BY <2>3, <2>5, <2>10, <2>11
<1> QED  BY <1>1, <1>10

\* A checkpoint replaces an older one that it contains.
LEMMA PageStep ==
  ASSUME IInv, [Next]_vars
  PROVE  (\A i \in Ids : OnPage(i) => OnPage(i)') /\ (dropped => dropped')
<1>1. ASSUME NEW t \in Threads, StartPut(t)  PROVE (\A i \in Ids : OnPage(i) => OnPage(i)') /\ (dropped => dropped')
  BY <1>1 DEF StartPut, disk, history, OnPage
<1>2. ASSUME NEW t \in Threads, GetThreadWal(t)  PROVE (\A i \in Ids : OnPage(i) => OnPage(i)') /\ (dropped => dropped')
  BY <1>2 DEF GetThreadWal, history, OnPage
<1>3. ASSUME NEW t \in Threads, MakeRoom(t)  PROVE (\A i \in Ids : OnPage(i) => OnPage(i)') /\ (dropped => dropped')
  BY <1>3 DEF MakeRoom, history, OnPage
<1>4. ASSUME NEW t \in Threads, Seal(t)  PROVE (\A i \in Ids : OnPage(i) => OnPage(i)') /\ (dropped => dropped')
  BY <1>4 DEF Seal, history, OnPage
<1>5. ASSUME NEW t \in Threads, Reopen(t)  PROVE (\A i \in Ids : OnPage(i) => OnPage(i)') /\ (dropped => dropped')
  BY <1>5 DEF Reopen, history, OnPage
<1>6. ASSUME NEW t \in Threads, WalAppend(t)  PROVE (\A i \in Ids : OnPage(i) => OnPage(i)') /\ (dropped => dropped')
  BY <1>6 DEF WalAppend, history, OnPage
<1>7. ASSUME NEW t \in Threads, Apply(t)  PROVE (\A i \in Ids : OnPage(i) => OnPage(i)') /\ (dropped => dropped')
  BY <1>7 DEF Apply, disk, OnPage
<1>8. ASSUME NEW t \in Threads, TimerFire(t)  PROVE (\A i \in Ids : OnPage(i) => OnPage(i)') /\ (dropped => dropped')
  BY <1>8 DEF TimerFire, OnPage
<1>9. ASSUME NEW t \in Threads, CompactMerge(t)  PROVE (\A i \in Ids : OnPage(i) => OnPage(i)') /\ (dropped => dropped')
  BY <1>9 DEF CompactMerge, history, OnPage
<1>10. ASSUME NEW t \in Threads, Recheck(t)  PROVE (\A i \in Ids : OnPage(i) => OnPage(i)') /\ (dropped => dropped')
  BY <1>10 DEF Recheck, disk, history, OnPage
<1>11. ASSUME NEW a \in Actors, CompactRead(a)  PROVE (\A i \in Ids : OnPage(i) => OnPage(i)') /\ (dropped => dropped')
  BY <1>11 DEF CompactRead, disk, history, OnPage
<1>12. ASSUME NEW a \in Actors, CompactMark(a)  PROVE (\A i \in Ids : OnPage(i) => OnPage(i)') /\ (dropped => dropped')
  BY <1>12 DEF CompactMark, history, OnPage
<1>13. ASSUME NEW a \in Actors, CompactUnlink(a)  PROVE (\A i \in Ids : OnPage(i) => OnPage(i)') /\ (dropped => dropped')
  BY <1>13 DEF CompactUnlink, OnPage
<1>14. ASSUME StartSnapshot  PROVE (\A i \in Ids : OnPage(i) => OnPage(i)') /\ (dropped => dropped')
  BY <1>14 DEF StartSnapshot, disk, history, OnPage
<1>15. ASSUME StartDestroy  PROVE (\A i \in Ids : OnPage(i) => OnPage(i)') /\ (dropped => dropped')
  BY <1>15 DEF StartDestroy, disk, history, OnPage
<1>16. ASSUME FlushOne  PROVE (\A i \in Ids : OnPage(i) => OnPage(i)') /\ (dropped => dropped')
  BY <1>16 DEF FlushOne, OnPage
<1>17. ASSUME FlushEnd  PROVE (\A i \in Ids : OnPage(i) => OnPage(i)') /\ (dropped => dropped')
  BY <1>17 DEF FlushEnd, disk, history, OnPage
<1>18. ASSUME Persist  PROVE (\A i \in Ids : OnPage(i) => OnPage(i)') /\ (dropped => dropped')
  BY <1>18 DEF Persist, IInv, Memory, Destroy, OnTrie, OnPage, history
<1>19. ASSUME SealOne  PROVE (\A i \in Ids : OnPage(i) => OnPage(i)') /\ (dropped => dropped')
  BY <1>19 DEF SealOne, history, OnPage
<1>20. ASSUME SealEnd  PROVE (\A i \in Ids : OnPage(i) => OnPage(i)') /\ (dropped => dropped')
  BY <1>20 DEF SealEnd, disk, history, OnPage
<1>21. ASSUME Closed  PROVE (\A i \in Ids : OnPage(i) => OnPage(i)') /\ (dropped => dropped')
  BY <1>21 DEF Closed, disk, OnPage
<1>22. ASSUME Tick  PROVE (\A i \in Ids : OnPage(i) => OnPage(i)') /\ (dropped => dropped')
  BY <1>22 DEF Tick, disk, history, OnPage
<1>23. ASSUME Crash  PROVE (\A i \in Ids : OnPage(i) => OnPage(i)') /\ (dropped => dropped')
  BY <1>23 DEF Crash, OnPage
<1>24. ASSUME Recover  PROVE (\A i \in Ids : OnPage(i) => OnPage(i)') /\ (dropped => dropped')
  BY <1>24 DEF Recover, disk, history, OnPage
<1>25. ASSUME UNCHANGED vars  PROVE (\A i \in Ids : OnPage(i) => OnPage(i)') /\ (dropped => dropped')
  BY <1>25 DEF vars, disk, history, OnPage
<1> QED  BY <1>1, <1>2, <1>3, <1>4, <1>5, <1>6, <1>7, <1>8, <1>9, <1>10, <1>11, <1>12, <1>13, <1>14, <1>15, <1>16, <1>17, <1>18, <1>19, <1>20, <1>21, <1>22, <1>23, <1>24, <1>25 DEF Next, ThreadStep, OwnerStep

\* What is kept stays kept; the log files that a destroy unlinks are in the checkpoint.
LEMMA KeptStep ==
  ASSUME IInv, ~reused', [Next]_vars
  PROVE  \A i \in Ids : Kept(i) /\ (pc[Owner] \in Late => OnPage(i)) => Kept(i)'
<1> SUFFICES ASSUME NEW i \in Ids, Kept(i), pc[Owner] \in Late => OnPage(i)  PROVE Kept(i)'
  OBVIOUS
<1>1. FilesOK(file) /\ FilesOK(file') /\ MoreRecords
      /\ (Crash \/ (\E a \in Actors : CompactUnlink(a)) \/ Grown)
  BY DiskStep DEF IInv, DiskTypes
<1>2. (OnPage(i) => OnPage(i)') /\ (dropped => dropped')
  BY PageStep
<1>3. CASE dropped /\ OnPage(i)
  BY <1>2, <1>3 DEF Kept
<1>4. CASE InLiveLog(i)
  <2>1. PICK n \in DOMAIN file : InSynced(i, n) /\ Readable(n) /\ ~Doomed(n)
    BY <1>4 DEF InLiveLog
  <2>2. Readable(n)'
    BY <1>1, <2>1 DEF MoreRecords
  <2>3. ASSUME InSynced(i, n)', ~Doomed(n)'  PROVE Kept(i)'
    BY <2>2, <2>3 DEF Kept, InLiveLog, InSynced
  <2>4. CASE \E a \in Threads : Ends(a)
    <3>1. PICK a \in Threads : Ends(a)
      BY <2>4
    <3>2. file' = file
      BY <2>1, <3>1, EndsLive
    <3>3. \A m : InSynced(i, m) => InSynced(i, m)'
      BY <3>2 DEF InSynced
    <3>4. CASE ~Doomed(n)'
      BY <2>1, <2>3, <3>3, <3>4
    <3>5. CASE Doomed(n)'
      <4>1. PICK m \in DOMAIN file : InSynced(i, m) /\ ~Doomed(m)' /\ Readable(m)'
        BY <2>1, <3>1, <3>5, EndsLive
      <4> QED  BY <3>2, <3>3, <4>1 DEF Kept, InLiveLog
    <3> QED  BY <3>4, <3>5
  <2>5. CASE ~ \E a \in Threads : Ends(a)
    <3>1. ~Doomed(n)'
      BY <2>1, <2>5, DoomedStep
    <3>2. CASE Grown
      BY <1>1, <2>1, <2>3, <3>1, <3>2, GrownHolds
    <3>3. CASE Crash
      <4>1. CASE file' = file
        BY <2>1, <2>3, <3>1, <4>1 DEF InSynced
      <4>2. CASE file' \in Survivors
        <5>1. /\ n \in DOMAIN file' /\ file[n].synced <= file'[n].synced /\ file'[n].synced = Len(file'[n].data)
              /\ \A j \in 1 .. Len(file'[n].data) : file'[n].data[j] = file[n].data[j]
          BY <1>1, <4>2, SurvivorEffect
        <5>2. file[n].synced \in Nat /\ file'[n].synced \in Nat
          BY <1>1, <5>1 DEF FilesOK, Files
        <5>3. \A j \in 1 .. file[n].synced : j \in 1 .. file'[n].synced /\ file'[n].data[j] = file[n].data[j]
          BY <5>1, <5>2
        <5>4. InSynced(i, n)'
          BY <2>1, <5>1, <5>3 DEF InSynced, Holds
        <5> QED  BY <2>3, <3>1, <5>4
      <4> QED  BY <3>3, <4>1, <4>2 DEF Crash
    <3>4. ASSUME NEW a \in Actors, CompactUnlink(a)  PROVE Kept(i)'
      <4>1. CASE a = Owner
        <5>1. dropped' /\ pc[Owner] \in Late
          BY <3>4, <4>1 DEF CompactUnlink, Late
        <5> QED  BY <1>2, <5>1 DEF Kept
      <4>2. CASE a \in Threads
        <5>1. pc[a] = "unlink" /\ file' = [m \in DOMAIN file \ {list[a][at[a]]} |-> file[m]]
          BY <3>4 DEF CompactUnlink
        <5>2. at[a] \in 1 .. Len(list[a])
          BY <4>2, <5>1 DEF IInv, Lists
        <5>3. n # list[a][at[a]]
          BY <2>1, <4>2, <5>1, <5>2 DEF Doomed
        <5>4. n \in DOMAIN file' /\ file'[n] = file[n]
          BY <5>1, <5>3
        <5>5. InSynced(i, n)'
          BY <2>1, <5>4 DEF InSynced
        <5> QED  BY <2>3, <3>1, <5>5
      <4> QED  BY <4>1, <4>2 DEF Actors
    <3> QED  BY <1>1, <3>2, <3>3, <3>4
  <2> QED  BY <2>4, <2>5
<1> QED  BY <1>3, <1>4 DEF Kept

\* The list of a compaction is fixed once its entries are merged.
LEMMA MarkStep ==
  ASSUME IInv, [Next]_vars
  PROVE  \A u \in Threads : pc'[u] = "mark" => CompactMerge(u) \/ (pc[u] = "mark" /\ list'[u] = list[u])
<1>a. WalTypes
  BY DEF IInv
<1> DEFINE Goal == \A u \in Threads : pc'[u] = "mark" => CompactMerge(u) \/ (pc[u] = "mark" /\ list'[u] = list[u])
<1>1. ASSUME NEW t \in Threads, StartPut(t)  PROVE Goal
  BY <1>a, <1>1, Constants DEF StartPut, Goto, cmp, WalTypes
<1>2. ASSUME NEW t \in Threads, GetThreadWal(t)  PROVE Goal
  BY <1>a, <1>2, Constants DEF GetThreadWal, Goto, cmp, WalTypes
<1>3. ASSUME NEW t \in Threads, MakeRoom(t)  PROVE Goal
  <2>1. PICK x \in {"append", "compact", "seal"} : pc' = [pc EXCEPT ![t] = x] /\ list' = list
    BY <1>3 DEF MakeRoom, Goto, cmp
  <2> QED  BY <1>a, <2>1, Constants DEF WalTypes
<1>4. ASSUME NEW t \in Threads, Seal(t)  PROVE Goal
  BY <1>a, <1>4, Constants DEF Seal, Goto, cmp, WalTypes
<1>5. ASSUME NEW t \in Threads, Reopen(t)  PROVE Goal
  BY <1>a, <1>5, Constants DEF Reopen, Goto, cmp, WalTypes
<1>6. ASSUME NEW t \in Threads, WalAppend(t)  PROVE Goal
  BY <1>a, <1>6, Constants DEF WalAppend, Goto, cmp, WalTypes
<1>7. ASSUME NEW t \in Threads, Apply(t)  PROVE Goal
  BY <1>a, <1>7, Constants DEF Apply, Goto, cmp, WalTypes
<1>8. ASSUME NEW t \in Threads, TimerFire(t)  PROVE Goal
  BY <1>a, <1>8, Constants DEF TimerFire, cmp, WalTypes
<1>9. ASSUME NEW t \in Threads, CompactMerge(t)  PROVE Goal
  <2>1. pc' = [pc EXCEPT ![t] = "mark"] /\ \A u \in Threads : u # t => list'[u] = list[u]
    BY <1>a, <1>9, Constants DEF CompactMerge, Goto, WalTypes
  <2>2. \A u \in Threads : u # t => pc'[u] = pc[u]
    BY <1>a, <2>1, Constants DEF WalTypes
  <2> QED  BY <1>9, <2>1, <2>2
<1>10. ASSUME NEW t \in Threads, Recheck(t)  PROVE Goal
  BY <1>a, <1>10, Constants DEF Recheck, Goto, cmp, WalTypes
<1>11. ASSUME NEW a \in Actors, CompactRead(a)  PROVE Goal
  <2>1. /\ pc' = [pc EXCEPT ![a] = IF Sealed = <<>> THEN (IF a = Owner THEN "closed" ELSE "recheck")
                                 ELSE IF a = Owner THEN "mark" ELSE "merge"]
        /\ list' = [list EXCEPT ![a] = Sealed]
    BY <1>11 DEF CompactRead, Goto
  <2>2. a \in Threads => pc'[a] # "mark"
    BY <1>a, <2>1, Constants DEF WalTypes
  <2>3. \A u \in Threads : u # a => pc'[u] = pc[u] /\ list'[u] = list[u]
    BY <1>a, <2>1, Constants DEF WalTypes
  <2> QED  BY <2>2, <2>3
<1>12. ASSUME NEW a \in Actors, CompactMark(a)  PROVE Goal
  <2>1. CASE at[a] = Len(list[a])
    <3>1. pc'[a] = "unlink" /\ \A u \in Threads : u # a => pc'[u] = pc[u] /\ list'[u] = list[u]
      <4>1. CASE a = Owner
        BY <1>a, <1>12, <2>1, <4>1, Constants DEF CompactMark, Goto, WalTypes
      <4>2. CASE a # Owner
        BY <1>a, <1>12, <2>1, <4>2, Constants DEF CompactMark, Goto, WalTypes
      <4> QED  BY <4>1, <4>2
    <3> QED  BY <3>1
  <2>2. CASE at[a] # Len(list[a])
    BY <1>a, <1>12, <2>2, Constants DEF CompactMark, Goto, WalTypes
  <2> QED  BY <2>1, <2>2
<1>13. ASSUME NEW a \in Actors, CompactUnlink(a)  PROVE Goal
  <2>1. CASE at[a] = Len(list[a])
    <3>1. pc'[a] # "mark" /\ \A u \in Threads : u # a => pc'[u] = pc[u] /\ list'[u] = list[u]
      BY <1>a, <1>13, <2>1, Constants DEF CompactUnlink, Goto, WalTypes
    <3> QED  BY <3>1
  <2>2. CASE at[a] # Len(list[a])
    BY <1>a, <1>13, <2>2, Constants DEF CompactUnlink, Goto, WalTypes
  <2> QED  BY <2>1, <2>2
<1>14. ASSUME StartSnapshot  PROVE Goal
  BY <1>a, <1>14, Constants DEF StartSnapshot, Goto, WalTypes
<1>15. ASSUME StartDestroy  PROVE Goal
  BY <1>a, <1>15, Constants DEF StartDestroy, Goto, WalTypes
<1>16. ASSUME FlushOne  PROVE Goal
  BY <1>a, <1>16, Constants DEF FlushOne, WalTypes
<1>17. ASSUME FlushEnd  PROVE Goal
  BY <1>a, <1>17, Constants DEF FlushEnd, Goto, cmp, WalTypes
<1>18. ASSUME Persist  PROVE Goal
  BY <1>a, <1>18, Constants DEF Persist, Goto, WalTypes
<1>19. ASSUME SealOne  PROVE Goal
  BY <1>a, <1>19, Constants DEF SealOne, WalTypes
<1>20. ASSUME SealEnd  PROVE Goal
  BY <1>a, <1>20, Constants DEF SealEnd, Goto, cmp, WalTypes
<1>21. ASSUME Closed  PROVE Goal
  BY <1>a, <1>21, Constants DEF Closed, Stop, WalTypes
<1>22. ASSUME Tick  PROVE Goal
  BY <1>a, <1>22, Constants DEF Tick, cmp, WalTypes
<1>23. ASSUME Crash  PROVE Goal
  BY <1>a, <1>23, Constants DEF Crash, Stop, WalTypes
<1>24. ASSUME Recover  PROVE Goal
  BY <1>a, <1>24, Constants DEF Recover, cmp, WalTypes
<1>25. ASSUME UNCHANGED vars  PROVE Goal
  BY <1>a, <1>25, Constants DEF vars, cmp, WalTypes
<1> QED  BY <1>1, <1>2, <1>3, <1>4, <1>5, <1>6, <1>7, <1>8, <1>9, <1>10, <1>11, <1>12, <1>13, <1>14, <1>15, <1>16, <1>17, <1>18, <1>19, <1>20, <1>21, <1>22, <1>23, <1>24, <1>25 DEF Next, ThreadStep, OwnerStep

\* The safe part of a file that is not doomed stays, outside a destroy and a crash.
LEMMA LiveStays ==
  ASSUME IInv, ~reused', [Next]_vars, pc[Owner] # "unlink", phase' # "down",
         NEW i, NEW n, InSynced(i, n), ~Doomed(n)
  PROVE  InSynced(i, n)'
<1>1. FilesOK(file) /\ FilesOK(file') /\ (Crash \/ (\E a \in Actors : CompactUnlink(a)) \/ Grown)
  BY DiskStep DEF IInv, DiskTypes
<1>2. CASE Grown
  BY <1>1, <1>2, GrownHolds
<1>3. ASSUME NEW a \in Actors, CompactUnlink(a)  PROVE InSynced(i, n)'
  <2>1. pc[a] = "unlink" /\ file' = [m \in DOMAIN file \ {list[a][at[a]]} |-> file[m]]
    BY <1>3 DEF CompactUnlink
  <2>2. a \in Threads /\ at[a] \in 1 .. Len(list[a])
    BY <2>1 DEF IInv, Lists, Actors
  <2>3. n # list[a][at[a]]
    BY <2>1, <2>2 DEF Doomed
  <2>4. n \in DOMAIN file' /\ file'[n] = file[n]
    BY <2>1, <2>3 DEF InSynced
  <2> QED  BY <2>4 DEF InSynced
<1>4. ~Crash
  BY DEF Crash, Stop
<1> QED  BY <1>1, <1>2, <1>3, <1>4

\* What a compaction has read is in the file it has written, or in a later one.
LEMMA MovedStep ==
  ASSUME IInv, ~reused', [Next]_vars
  PROVE  Moved'
<1> SUFFICES ASSUME NEW t \in Threads, pc'[t] = "mark"
             PROVE  \A m \in 1 .. (Len(list'[t]) - 1) : \A i \in Ids : InData(i, list[t][m])' =>
                      \E n \in DOMAIN file' :
                        /\ InSynced(i, n)' /\ ~Doomed(n)' /\ (Readable(n)' \/ n = Target(t)')
                        /\ n[1] = Nobody /\ n[2] >= Target(t)'[2]
  BY DEF Moved
<1>1. MoreRecords /\ FilesOK(file) /\ FilesOK(file') /\ (Crash \/ Untouched) /\ WalTypes
  BY DiskStep DEF IInv, DiskTypes
<1>2. phase' = "up"
  BY CallsStep DEF Calls
<1>3. ~Crash
  BY <1>2 DEF Crash, Stop
<1>4. CASE CompactMerge(t)
  <2>0. PICK g : g = <<Nobody, now>>
    OBVIOUS
  <2>1. g \in Names /\ g[1] = Nobody /\ g[2] = now /\ now \in Int
    BY <2>0, Constants DEF IInv, ProcTypes, Seconds
  <2>2. ~Recorded(g) /\ list' = [list EXCEPT ![t] = Append(list[t], g)] /\ pc[t] = "merge"
        /\ pc' = [pc EXCEPT ![t] = "mark"] /\ manifest' = manifest
    BY <1>4, <2>0, <2>1, NextName DEF CompactMerge, Goto
  <2>3. list[t] \in Seq(Names) /\ \A j \in 1 .. Len(list[t]) : IsSealed(list[t][j])
    BY <1>1, <2>2, Constants DEF WalTypes, IInv, Lists
  <2>4. list'[t] = Append(list[t], g)
    BY <1>1, <2>2, Constants DEF WalTypes
  <2>5. /\ Len(list'[t]) - 1 = Len(list[t]) /\ Target(t)' = g
        /\ \A j \in 1 .. Len(list[t]) : list'[t][j] = list[t][j]
    BY <2>1, <2>3, <2>4 DEF Target
  <2>6. /\ DOMAIN file' = DOMAIN file \cup {g}
        /\ \A n \in DOMAIN file \ {g} : file'[n] = file[n]
        /\ file'[g].synced = Len(file'[g].data)
        /\ \A m \in 1 .. Len(list[t]), i \in Ids :
             InData(i, list[t][m]) => Holds(file'[g].data, Len(file'[g].data), i)
    <3>1. LET x == <<Nobody, now>> IN
          /\ DOMAIN file' = DOMAIN file \cup {x}
          /\ \A n \in DOMAIN file \ {x} : file'[n] = file[n]
          /\ file'[x].synced = Len(file'[x].data)
          /\ \A m \in 1 .. Len(list[t]), i \in Ids :
               InData(i, list[t][m]) => Holds(file'[x].data, Len(file'[x].data), i)
      BY <1>1, <1>4, MergeEffect DEF IInv
    <3> QED  BY <2>0, <3>1
  <2>7. ~Doomed(g)'
    <3>1. ~Doomed(g)
      BY <2>2, DoomedSealed, RecordsKinds
    <3>2. \A u \in Threads : pc'[u] = "unlink" => pc[u] = "unlink" /\ list'[u] = list[u]
      BY <1>1, <2>2, Constants DEF WalTypes
    <3> QED  BY <3>1, <3>2 DEF Doomed
  <2> SUFFICES ASSUME NEW m \in 1 .. Len(list[t]), NEW i \in Ids, InData(i, list[t][m])'
               PROVE  InSynced(i, g)'
    BY <2>1, <2>5, <2>6, <2>7
  <2>8. PICK s : s = list[t][m]
    OBVIOUS
  <2>9. s # g /\ InData(i, s)'
    BY <2>2, <2>3, <2>5, <2>8, RecordsKinds
  <2>10. InData(i, list[t][m])
    BY <2>6, <2>8, <2>9 DEF InData
  <2>11. Holds(file'[g].data, file'[g].synced, i)
    BY <2>6, <2>10
  <2> QED  BY <2>6, <2>11 DEF InSynced
<1>5. CASE pc[t] = "mark" /\ list'[t] = list[t]
  <2>1. Target(t)' = Target(t)
    BY <1>5 DEF Target
  <2> SUFFICES ASSUME NEW m \in 1 .. (Len(list[t]) - 1), NEW i \in Ids, InData(i, list[t][m])'
               PROVE  \E n \in DOMAIN file' :
                        /\ InSynced(i, n)' /\ ~Doomed(n)' /\ (Readable(n)' \/ n = Target(t))
                        /\ n[1] = Nobody /\ n[2] >= Target(t)[2]
    BY <1>5, <2>1
  <2>2. PICK s : s = list[t][m]
    OBVIOUS
  <2>3. IsSealed(s) /\ InData(i, s)'
    BY <1>5, <2>2 DEF IInv, Lists
  <2>4. InData(i, list[t][m])
    BY <1>1, <1>3, <2>2, <2>3 DEF InData, Untouched
  <2>5. PICK n \in DOMAIN file : /\ InSynced(i, n) /\ ~Doomed(n) /\ (Readable(n) \/ n = Target(t))
                                 /\ n[1] = Nobody /\ n[2] >= Target(t)[2]
    BY <1>5, <2>4 DEF IInv, Moved
  <2>6. pc[Owner] # "unlink"
    BY <1>5 DEF IInv, Calls
  <2>7. InSynced(i, n)' /\ (Readable(n)' \/ n = Target(t))
    BY <1>1, <1>2, <2>5, <2>6, LiveStays DEF MoreRecords
  <2>8. CASE ~Doomed(n)'
    BY <2>5, <2>7, <2>8 DEF InSynced
  <2>9. CASE Doomed(n)'
    <3>1. PICK a \in Threads : Ends(a)
      BY <2>5, <2>9, DoomedStep
    <3>2. file' = file
      BY <2>5, <3>1, EndsLive
    <3>3. PICK x \in DOMAIN file : /\ InSynced(i, x) /\ ~Doomed(x)' /\ Readable(x)'
                                   /\ x[1] = Nobody /\ x[2] > Rank(n)
      BY <2>5, <2>9, <3>1, EndsLive
    <3>4. n \in Names /\ x \in Names
      BY <1>1 DEF FilesOK
    <3>5. x[2] \in Int /\ n[2] \in Int /\ Target(t)[2] \in Int /\ Rank(n) = n[2]
      BY <1>5, <2>5, <3>4, Constants DEF Rank, IInv, Lists
    <3>6. x[2] >= Target(t)[2]
      BY <2>5, <3>3, <3>5
    <3>7. InSynced(i, x)' /\ x \in DOMAIN file'
      BY <3>2, <3>3 DEF InSynced
    <3> QED  BY <3>3, <3>6, <3>7
  <2> QED  BY <2>8, <2>9
<1> QED  BY <1>4, <1>5, MarkStep

(***************************************************************************)
(* On the way to the disk.                                                 *)
(***************************************************************************)

Reached(i, t) == InData(i, cur[t]) \/ InBuffer(i, t)

\* A flush takes the buffer to the file, and an fsync makes the file safe.
LEMMA FlushKeeps ==
  ASSUME IInv, NEW t \in Threads, pc[t] # "reopen", cur[t] # NoFile,
         NEW extra \in Seq(Entries), NEW sync \in BOOLEAN, Flush(t, extra, sync),
         MoreRecords, \A n : Doomed(n)' => Doomed(n), cur' = cur,
         NEW i, Reached(i, t) \/ Holds(extra, Len(extra), i)
  PROVE  InData(i, cur[t])' /\ (sync => Kept(i)')
<1>1. FilesOK(file) /\ WalTypes /\ Descriptors
  BY DEF IInv, DiskTypes
<1>2. PICK c : c = cur[t]
  OBVIOUS
<1>3. LET d == file'[cur[t]].data IN
      /\ cur[t] \in DOMAIN file /\ DOMAIN file' = DOMAIN file
      /\ \A x : \/ Holds(file[cur[t]].data, Len(file[cur[t]].data), x)
                \/ Holds(entry_buf[t], Len(entry_buf[t]), x)
                \/ Holds(extra, Len(extra), x)
                => Holds(d, Len(d), x)
      /\ sync => file'[cur[t]].synced = Len(d)
  BY <1>1, FlushEffect, ZenonT(60)
<1>4. /\ c \in DOMAIN file' /\ Holds(file'[c].data, Len(file'[c].data), i)
      /\ sync => file'[c].synced = Len(file'[c].data)
  BY <1>2, <1>3 DEF Reached, InData, InBuffer
<1>5. Readable(c)' /\ ~Doomed(c)'
  BY <1>1, <1>2, DoomedSealed DEF MoreRecords, Descriptors
<1>6. InData(i, c)' /\ (sync => InSynced(i, c)')
  BY <1>4 DEF InData, InSynced
<1> QED  BY <1>2, <1>4, <1>5, <1>6 DEF Kept, InLiveLog

\* So does the first half of a rotation.
LEMMA SealKeeps ==
  ASSUME IInv, ~reused', [Next]_vars, NEW t \in Threads, Seal(t), NEW i, Reached(i, t)
  PROVE  Kept(i)'
<1>1. PICK c : c = cur[t]
  OBVIOUS
<1>2. /\ c \in DOMAIN file /\ ~IsSealed(c) /\ Readable(c) /\ DOMAIN file' = DOMAIN file
      /\ FilesOK(file') /\ Grown /\ file'[c].synced = Len(file'[c].data)
  BY <1>1, SealEffect
<1>3. InData(i, c)
  <2>1. entry_buf[t] = <<>>
    BY DEF Seal, IInv, Calls
  <2>2. ~InBuffer(i, t)
    BY <2>1 DEF InBuffer, Holds
  <2> QED  BY <1>1, <2>2 DEF Reached
<1>4. InData(i, c)'
  BY <1>2, <1>3, GrownHolds DEF IInv, DiskTypes
<1>5. InSynced(i, c)'
  BY <1>2, <1>4 DEF InData, InSynced
<1>6. Readable(c)'
  BY <1>2, DiskStep DEF MoreRecords
<1>7. ~Doomed(c)'
  <2>1. ~Doomed(c)
    BY <1>2, DoomedSealed
  <2>2. \A u \in Threads : pc'[u] = "unlink" => pc[u] = "unlink" /\ list'[u] = list[u]
    BY Constants DEF Seal, Goto, cmp, IInv, WalTypes
  <2> QED  BY <2>1, <2>2 DEF Doomed
<1> QED  BY <1>2, <1>5, <1>6, <1>7 DEF Kept, InLiveLog

\* A write that has reached the buffer or the file of its thread stays there until it is
\* kept.
LEMMA ReachedStep ==
  ASSUME IInv, ~reused', NEW u \in Threads, NEW i \in Ids, pc[u] # "reopen", cur[u] # NoFile,
         Reached(i, u), pc[Owner] \notin Late, phase = "up", phase' # "down", [Next]_vars
  PROVE  Kept(i)' \/ (pc'[u] # "reopen" /\ Reached(i, u)')
<1> DEFINE Goal == Kept(i)' \/ (pc'[u] # "reopen" /\ Reached(i, u)')
<1>a. WalTypes /\ Calls /\ Descriptors /\ FilesOK(file) /\ FilesOK(file')
  BY DiskStep DEF IInv, DiskTypes
<1>b. PICK c : c = cur[u]
  OBVIOUS
<1>c. c \in DOMAIN file /\ ~IsSealed(c)
  BY <1>a, <1>b DEF Descriptors
<1>d. ASSUME InData(i, c)  PROVE InData(i, c)'
  <2>1. Crash \/ (\E a \in Actors : CompactUnlink(a)) \/ Grown
    BY DiskStep
  <2>2. CASE Grown
    BY <1>a, <1>d, <2>2, GrownHolds
  <2>3. ASSUME NEW a \in Actors, CompactUnlink(a)  PROVE InData(i, c)'
    <3>1. pc[a] = "unlink" /\ file' = [m \in DOMAIN file \ {list[a][at[a]]} |-> file[m]]
      BY <2>3 DEF CompactUnlink
    <3>2. at[a] \in 1 .. Len(list[a]) /\ IsSealed(list[a][at[a]])
      BY <3>1 DEF IInv, Lists, Actors
    <3>3. c \in DOMAIN file' /\ file'[c] = file[c]
      BY <1>c, <3>1, <3>2
    <3> QED  BY <1>d, <3>3 DEF InData
  <2>4. ~Crash
    BY DEF Crash, Stop
  <2> QED  BY <2>1, <2>2, <2>3, <2>4
<1>e. ASSUME cur'[u] = cur[u], entry_buf'[u] = entry_buf[u], pc'[u] # "reopen"  PROVE Goal
  <2>1. InBuffer(i, u) => InBuffer(i, u)'
    BY <1>e DEF InBuffer
  <2>2. InData(i, c)' => InData(i, cur[u])'
    BY <1>b, <1>e
  <2> QED  BY <1>b, <1>d, <1>e, <2>1, <2>2 DEF Reached
<1>f. MoreRecords /\ <<>> \in Seq(Entries)
  BY DiskStep
<1> HIDE DEF Goal
<1>1. ASSUME NEW t \in Threads, StartPut(t)  PROVE Goal
  BY <1>a, <1>e, <1>1, Constants DEF StartPut, Goto, twals, WalTypes
<1>2. ASSUME NEW t \in Threads, GetThreadWal(t)  PROVE Goal
  <2>1. CASE cur[t] # NoFile
    BY <1>a, <1>e, <1>2, <2>1, Constants DEF GetThreadWal, Goto, twals, WalTypes
  <2>2. CASE cur[t] = NoFile
    <3>1. cur' = [cur EXCEPT ![t] = <<t, 0>>] /\ entry_buf' = entry_buf /\ u # t
      BY <1>2, <2>2 DEF GetThreadWal
    <3> QED  BY <1>a, <1>e, <1>2, <3>1, Constants DEF GetThreadWal, Goto, WalTypes
  <2> QED  BY <2>1, <2>2
<1>3. ASSUME NEW t \in Threads, MakeRoom(t)  PROVE Goal
  <2>1. PICK x \in {"append", "compact", "seal"} : pc' = [pc EXCEPT ![t] = x] /\ cur' = cur /\ list' = list
    BY <1>3 DEF MakeRoom, Goto, cmp
  <2>2. pc'[u] # "reopen" /\ \A v \in Threads : pc'[v] = "unlink" => pc[v] = "unlink"
    BY <1>a, <2>1, Constants DEF WalTypes
  <2>3. CASE entry_buf' = entry_buf
    BY <1>e, <2>1, <2>2, <2>3
  <2>4. CASE Flush(t, <<>>, mode = "IMMEDIATE")
    <3>1. cur' = cur /\ list' = list /\ pc'[u] # "reopen" /\ \A v \in Threads : pc'[v] = "unlink" => pc[v] = "unlink"
      BY <2>1, <2>2
    <3>2. \A n : Doomed(n)' => Doomed(n)
      BY <3>1 DEF Doomed
    <3>3. CASE u = t
      <4>1. Flush(u, <<>>, mode = "IMMEDIATE") /\ <<>> \in Seq(Entries) /\ (mode = "IMMEDIATE") \in BOOLEAN
        BY <2>4, <3>3, <1>f
      <4>2. InData(i, cur[u])'
        BY <1>f, <3>1, <3>2, <4>1, FlushKeeps
      <4> QED  BY <3>1, <4>2 DEF Reached, Goal
    <3>4. CASE u # t
      <4>1. entry_buf'[u] = entry_buf[u]
        BY <1>a, <2>4, <3>4 DEF Flush, WalTypes
      <4> QED  BY <1>e, <3>1, <4>1
    <3> QED  BY <3>3, <3>4
  <2> QED  BY <1>3, <2>3, <2>4 DEF MakeRoom
<1>4. ASSUME NEW t \in Threads, Seal(t)  PROVE Goal
  <2>1. CASE u = t
    BY <1>4, <2>1, SealKeeps DEF Goal
  <2>2. CASE u # t
    BY <1>a, <1>e, <1>4, <2>2, Constants DEF Seal, Goto, twals, WalTypes
  <2> QED  BY <2>1, <2>2
<1>5. ASSUME NEW t \in Threads, Reopen(t)  PROVE Goal
  <2>1. u # t
    BY <1>5 DEF Reopen
  <2> QED  BY <1>a, <1>e, <1>5, <2>1, Constants DEF Reopen, Goto, WalTypes
<1>6. ASSUME NEW t \in Threads, WalAppend(t)  PROVE Goal
  <2>1. pc' = [pc EXCEPT ![t] = "apply"] /\ cur' = cur /\ list' = list /\ job[t] \in JobRecords
    BY <1>a, <1>6 DEF WalAppend, Goto, cmp, WalTypes
  <2>2. pc'[u] # "reopen" /\ \A v \in Threads : pc'[v] = "unlink" => pc[v] = "unlink"
    BY <1>a, <2>1, Constants DEF WalTypes
  <2>3. job[t].entry \in Entries
    BY <2>1 DEF JobRecords
  <2>4. CASE entry_buf' = [entry_buf EXCEPT ![t] = Append(entry_buf[t], job[t].entry)]
    <3>1. entry_buf[t] \in Seq(Entries)
      BY <1>a DEF WalTypes
    <3>2. /\ Len(Append(entry_buf[t], job[t].entry)) = Len(entry_buf[t]) + 1 /\ Len(entry_buf[t]) \in Nat
          /\ \A j \in 1 .. Len(entry_buf[t]) : Append(entry_buf[t], job[t].entry)[j] = entry_buf[t][j]
      BY <2>3, <3>1
    <3>3. \A j \in 1 .. Len(entry_buf[t]) : j \in 1 .. Len(Append(entry_buf[t], job[t].entry))
      BY <3>2
    <3>4. CASE u = t
      <4>1. entry_buf'[u] = Append(entry_buf[t], job[t].entry)
        BY <1>a, <2>4, <3>4 DEF WalTypes
      <4>2. InBuffer(i, u) => InBuffer(i, u)'
        BY <3>2, <3>3, <3>4, <4>1 DEF InBuffer, Holds
      <4>3. InData(i, c)' => InData(i, cur[u])'
        BY <1>b, <2>1
      <4> QED  BY <1>b, <1>d, <2>2, <4>2, <4>3 DEF Reached, Goal
    <3>5. CASE u # t
      <4>1. entry_buf'[u] = entry_buf[u]
        BY <1>a, <2>4, <3>5 DEF WalTypes
      <4> QED  BY <1>e, <2>1, <2>2, <4>1
    <3> QED  BY <3>4, <3>5
  <2>5. CASE Flush(t, <<job[t].entry>>, mode = "IMMEDIATE" \/ (job[t].size = "direct" /\ mode = "DEBOUNCED"))
    <3>1. cur' = cur /\ list' = list /\ pc'[u] # "reopen" /\ \A v \in Threads : pc'[v] = "unlink" => pc[v] = "unlink"
      BY <2>1, <2>2
    <3>2. \A n : Doomed(n)' => Doomed(n)
      BY <3>1 DEF Doomed
    <3>3. CASE u = t
      <4>1. Flush(u, <<job[u].entry>>, mode = "IMMEDIATE" \/ (job[u].size = "direct" /\ mode = "DEBOUNCED")) /\ <<job[u].entry>> \in Seq(Entries) /\ (mode = "IMMEDIATE" \/ (job[u].size = "direct" /\ mode = "DEBOUNCED")) \in BOOLEAN
        BY <2>5, <3>3, <2>3
      <4>2. InData(i, cur[u])'
        BY <1>f, <3>1, <3>2, <4>1, FlushKeeps
      <4> QED  BY <3>1, <4>2 DEF Reached, Goal
    <3>4. CASE u # t
      <4>1. entry_buf'[u] = entry_buf[u]
        BY <1>a, <2>5, <3>4 DEF Flush, WalTypes
      <4> QED  BY <1>e, <3>1, <4>1
    <3> QED  BY <3>3, <3>4
  <2> QED  BY <1>6, <2>4, <2>5 DEF WalAppend
<1>7. ASSUME NEW t \in Threads, Apply(t)  PROVE Goal
  BY <1>a, <1>e, <1>7, Constants DEF Apply, Goto, twals, WalTypes
<1>8. ASSUME NEW t \in Threads, TimerFire(t)  PROVE Goal
  <2>1. cur' = cur /\ list' = list /\ pc'[u] # "reopen" /\ \A v \in Threads : pc'[v] = "unlink" => pc[v] = "unlink"
    BY <1>8 DEF TimerFire, cmp
  <2>2. \A n : Doomed(n)' => Doomed(n)
    BY <2>1 DEF Doomed
  <2>3. CASE u = t
    <3>1. Flush(u, <<>>, mode = "DEBOUNCED") /\ <<>> \in Seq(Entries) /\ (mode = "DEBOUNCED") \in BOOLEAN
      BY <1>8, <2>3, <1>f DEF TimerFire
    <3>2. InData(i, cur[u])'
      BY <1>f, <2>1, <2>2, <3>1, FlushKeeps
    <3> QED  BY <2>1, <3>2 DEF Reached, Goal
  <2>4. CASE u # t
    <3>1. entry_buf'[u] = entry_buf[u]
      BY <1>a, <1>8, <2>4 DEF TimerFire, Flush, WalTypes
    <3> QED  BY <1>e, <2>1, <3>1
  <2> QED  BY <2>3, <2>4
<1>9. ASSUME NEW t \in Threads, CompactMerge(t)  PROVE Goal
  BY <1>a, <1>e, <1>9, Constants DEF CompactMerge, Goto, twals, WalTypes
<1>10. ASSUME NEW t \in Threads, Recheck(t)  PROVE Goal
  BY <1>a, <1>e, <1>10, Constants DEF Recheck, Goto, twals, WalTypes
<1>11. ASSUME NEW a \in Actors, CompactRead(a)  PROVE Goal
  BY <1>a, <1>e, <1>11, Constants DEF CompactRead, Goto, twals, WalTypes
<1>12. ASSUME NEW a \in Actors, CompactMark(a)  PROVE Goal
  BY <1>a, <1>e, <1>12, Constants DEF CompactMark, Goto, twals, WalTypes
<1>13. ASSUME NEW a \in Actors, CompactUnlink(a)  PROVE Goal
  BY <1>a, <1>e, <1>13, Constants DEF CompactUnlink, Goto, WalTypes
<1>14. ASSUME StartSnapshot  PROVE Goal
  BY <1>a, <1>e, <1>14, Constants DEF StartSnapshot, Goto, twals, WalTypes
<1>15. ASSUME StartDestroy  PROVE Goal
  BY <1>a, <1>e, <1>15, Constants DEF StartDestroy, Goto, twals, WalTypes
<1>16. ASSUME FlushOne  PROVE Goal
  <2>0. PICK t \in Threads : t = threads[at[Owner]]
    BY <1>16, AtThread DEF FlushOne
  <2>1. cur' = cur /\ list' = list /\ pc'[u] # "reopen" /\ \A v \in Threads : pc'[v] = "unlink" => pc[v] = "unlink"
    BY <1>16 DEF FlushOne
  <2>2. \A n : Doomed(n)' => Doomed(n)
    BY <2>1 DEF Doomed
  <2>3. CASE u = t
    <3>1. Flush(u, <<>>, TRUE) /\ <<>> \in Seq(Entries) /\ (TRUE) \in BOOLEAN
      BY <1>16, <2>0, <2>3, <1>f DEF FlushOne
    <3>2. InData(i, cur[u])'
      BY <1>f, <2>1, <2>2, <3>1, FlushKeeps
    <3> QED  BY <2>1, <3>2 DEF Reached, Goal
  <2>4. CASE u # t
    <3>1. entry_buf'[u] = entry_buf[u]
      BY <1>a, <1>16, <2>0, <2>4 DEF FlushOne, Flush, WalTypes
    <3> QED  BY <1>e, <2>1, <3>1
  <2> QED  BY <2>3, <2>4
<1>17. ASSUME FlushEnd  PROVE Goal
  BY <1>a, <1>e, <1>17, Constants DEF FlushEnd, Goto, twals, WalTypes
<1>18. ASSUME Persist  PROVE Goal
  BY <1>a, <1>e, <1>18, Constants DEF Persist, Goto, twals, WalTypes
<1>19. ASSUME SealOne  PROVE Goal
  BY <1>19 DEF SealOne, Late
<1>20. ASSUME SealEnd  PROVE Goal
  BY <1>a, <1>e, <1>20, Constants DEF SealEnd, Goto, twals, WalTypes
<1>21. ASSUME Closed  PROVE Goal
  BY <1>21 DEF Closed, Stop
<1>22. ASSUME Tick  PROVE Goal
  BY <1>a, <1>e, <1>22, Constants DEF Tick, twals, WalTypes
<1>23. ASSUME Crash  PROVE Goal
  BY <1>23 DEF Crash, Stop
<1>24. ASSUME Recover  PROVE Goal
  BY <1>24 DEF Recover
<1>25. ASSUME UNCHANGED vars  PROVE Goal
  BY <1>a, <1>e, <1>25, Constants DEF vars, twals, WalTypes
<1> QED  BY <1>1, <1>2, <1>3, <1>4, <1>5, <1>6, <1>7, <1>8, <1>9, <1>10, <1>11, <1>12, <1>13, <1>14, <1>15, <1>16, <1>17, <1>18, <1>19, <1>20, <1>21, <1>22, <1>23, <1>24, <1>25 DEF Next, ThreadStep, OwnerStep, Goal

(***************************************************************************)
(* What has been acknowledged and promised.                                *)
(***************************************************************************)

\* The write whose put returns in this step.
Returns(u, i) == Apply(u) /\ pc[u] = "apply" /\ i = job[u].entry.id

\* A write is acknowledged by its own put, and promised after that or then.
LEMMA HistoryStep ==
  ASSUME IInv, [Next]_vars
  PROVE  /\ \A u \in Threads : \A i \in acked'[u] : (i \in acked[u] /\ phase' = phase) \/ Returns(u, i)
         /\ \A i \in promised' : \/ i \in promised
                                 \/ \E u \in Threads : i \in acked[u] \/ Returns(u, i)
<1> DEFINE Goal == /\ \A u \in Threads : \A i \in acked'[u] : (i \in acked[u] /\ phase' = phase) \/ Returns(u, i)
                   /\ \A i \in promised' : \/ i \in promised
                                           \/ \E u \in Threads : i \in acked[u] \/ Returns(u, i)
<1>a. WalTypes
  BY DEF IInv
<1>1. ASSUME NEW t \in Threads, StartPut(t)  PROVE Goal
  BY <1>1 DEF StartPut, history
<1>2. ASSUME NEW t \in Threads, GetThreadWal(t)  PROVE Goal
  BY <1>2 DEF GetThreadWal, proc, history
<1>3. ASSUME NEW t \in Threads, MakeRoom(t)  PROVE Goal
  BY <1>3 DEF MakeRoom, proc, history
<1>4. ASSUME NEW t \in Threads, Seal(t)  PROVE Goal
  BY <1>4 DEF Seal, proc, history
<1>5. ASSUME NEW t \in Threads, Reopen(t)  PROVE Goal
  BY <1>5 DEF Reopen, proc, history
<1>6. ASSUME NEW t \in Threads, WalAppend(t)  PROVE Goal
  BY <1>6 DEF WalAppend, proc, history
<1>7. ASSUME NEW t \in Threads, Apply(t)  PROVE Goal
  <2>1. /\ acked' = acked \/ (pc[t] = "apply" /\ acked' = [acked EXCEPT ![t] = acked[t] \cup {job[t].entry.id}])
        /\ promised' = promised \/ (pc[t] = "apply" /\ promised' = promised \cup {job[t].entry.id})
        /\ phase' = phase
    BY <1>7 DEF Apply, proc
  <2>2. \A i \in promised' : i \in promised \/ Returns(t, i)
    BY <1>7, <2>1 DEF Returns
  <2>3. CASE acked' = acked
    BY <2>1, <2>2, <2>3
  <2>4. CASE pc[t] = "apply" /\ acked' = [acked EXCEPT ![t] = acked[t] \cup {job[t].entry.id}]
    <3>1. \A u \in Threads : \A i \in acked'[u] : i \in acked[u] \/ (u = t /\ i = job[t].entry.id)
      BY <1>a, <2>4 DEF WalTypes
    <3> QED  BY <1>7, <2>1, <2>2, <2>4, <3>1 DEF Returns
  <2> QED  BY <2>1, <2>3, <2>4
<1>8. ASSUME NEW t \in Threads, TimerFire(t)  PROVE Goal
  BY <1>8 DEF TimerFire, proc
<1>9. ASSUME NEW t \in Threads, CompactMerge(t)  PROVE Goal
  BY <1>9 DEF CompactMerge, proc, history
<1>10. ASSUME NEW t \in Threads, Recheck(t)  PROVE Goal
  BY <1>10 DEF Recheck, proc, history
<1>11. ASSUME NEW a \in Actors, CompactRead(a)  PROVE Goal
  BY <1>11 DEF CompactRead, proc, history
<1>12. ASSUME NEW a \in Actors, CompactMark(a)  PROVE Goal
  BY <1>12 DEF CompactMark, proc, history
<1>13. ASSUME NEW a \in Actors, CompactUnlink(a)  PROVE Goal
  BY <1>13 DEF CompactUnlink, proc
<1>14. ASSUME StartSnapshot  PROVE Goal
  BY <1>14 DEF StartSnapshot, history
<1>15. ASSUME StartDestroy  PROVE Goal
  BY <1>15 DEF StartDestroy, proc, history
<1>16. ASSUME FlushOne  PROVE Goal
  <2>1. threads[at[Owner]] \in Threads
    BY <1>16, AtThread DEF FlushOne
  <2> QED  BY <1>16, <2>1 DEF FlushOne, proc
<1>17. ASSUME FlushEnd  PROVE Goal
  BY <1>17 DEF FlushEnd, proc, history
<1>18. ASSUME Persist  PROVE Goal
  BY <1>18 DEF Persist, proc, history
<1>19. ASSUME SealOne  PROVE Goal
  BY <1>19 DEF SealOne, proc, history
<1>20. ASSUME SealEnd  PROVE Goal
  BY <1>20 DEF SealEnd, proc, history
<1>21. ASSUME Closed  PROVE Goal
  BY <1>21 DEF Closed, Stop
<1>22. ASSUME Tick  PROVE Goal
  BY <1>22 DEF Tick, history
<1>23. ASSUME Crash  PROVE Goal
  BY <1>23 DEF Crash, Stop
<1>24. ASSUME Recover  PROVE Goal
  <2>1. \A u \in Threads : acked'[u] = {}
    BY <1>a, <1>24 DEF Recover, history, IInv, Memory, Destroy, WalTypes
  <2> QED  BY <1>24, <2>1 DEF Recover, history
<1>25. ASSUME UNCHANGED vars  PROVE Goal
  BY <1>25 DEF vars, proc, history
<1> QED  BY <1>1, <1>2, <1>3, <1>4, <1>5, <1>6, <1>7, <1>8, <1>9, <1>10, <1>11, <1>12, <1>13, <1>14, <1>15, <1>16, <1>17, <1>18, <1>19, <1>20, <1>21, <1>22, <1>23, <1>24, <1>25 DEF Next, ThreadStep, OwnerStep

\* The trie loses nothing in the life of a process.
LEMMA TrieStep ==
  ASSUME IInv, [Next]_vars
  PROVE  phase = "up" /\ phase' # "down" => \A i : OnTrie(i) => OnTrie(i)'
<1> DEFINE Goal == phase = "up" /\ phase' # "down" => \A i : OnTrie(i) => OnTrie(i)'
<1>a. ASSUME trie' = trie  PROVE Goal
  BY <1>a DEF OnTrie
<1>1. ASSUME NEW t \in Threads, StartPut(t)  PROVE Goal
  BY <1>a, <1>1 DEF StartPut, mem
<1>2. ASSUME NEW t \in Threads, GetThreadWal(t)  PROVE Goal
  BY <1>a, <1>2 DEF GetThreadWal, mem
<1>3. ASSUME NEW t \in Threads, MakeRoom(t)  PROVE Goal
  BY <1>a, <1>3 DEF MakeRoom, mem
<1>4. ASSUME NEW t \in Threads, Seal(t)  PROVE Goal
  BY <1>a, <1>4 DEF Seal, mem
<1>5. ASSUME NEW t \in Threads, Reopen(t)  PROVE Goal
  BY <1>a, <1>5 DEF Reopen, mem
<1>6. ASSUME NEW t \in Threads, WalAppend(t)  PROVE Goal
  BY <1>a, <1>6 DEF WalAppend, mem
<1>7. ASSUME NEW t \in Threads, Apply(t)  PROVE Goal
  <2>1. PICK e : e = job[t].entry
    OBVIOUS
  <2>2. e.key \in Keys /\ e.id \in Ids
    BY <1>7, <2>1 DEF Apply, IInv, WalTypes, JobRecords, Entries
  <2>3. trie \in [Keys -> Seq(Ids)] /\ trie' = [trie EXCEPT ![e.key] = <<e.id>> \o trie[e.key]]
    BY <1>7, <2>1 DEF Apply, IInv, ProcTypes
  <2>4. <<e.id>> \in Seq(Ids) /\ trie[e.key] \in Seq(Ids)
    BY <2>2, <2>3
  <2>5. Joins(<<e.id>> \o trie[e.key], <<e.id>>, trie[e.key])
    BY <2>4, LongerAppend
  <2>6. \A j \in 1 .. Len(trie[e.key]) : \E l \in 1 .. Len(trie'[e.key]) : trie'[e.key][l] = trie[e.key][j]
    BY <2>2, <2>3, <2>5 DEF Joins
  <2>7. \A k \in Keys : k # e.key => trie'[k] = trie[k]
    BY <2>2, <2>3
  <2> QED  BY <2>2, <2>6, <2>7 DEF OnTrie
<1>8. ASSUME NEW t \in Threads, TimerFire(t)  PROVE Goal
  BY <1>a, <1>8 DEF TimerFire, mem
<1>9. ASSUME NEW t \in Threads, CompactMerge(t)  PROVE Goal
  BY <1>a, <1>9 DEF CompactMerge, mem
<1>10. ASSUME NEW t \in Threads, Recheck(t)  PROVE Goal
  BY <1>a, <1>10 DEF Recheck, mem
<1>11. ASSUME NEW a \in Actors, CompactRead(a)  PROVE Goal
  BY <1>a, <1>11 DEF CompactRead, mem
<1>12. ASSUME NEW a \in Actors, CompactMark(a)  PROVE Goal
  BY <1>a, <1>12 DEF CompactMark, mem
<1>13. ASSUME NEW a \in Actors, CompactUnlink(a)  PROVE Goal
  BY <1>a, <1>13 DEF CompactUnlink, mem
<1>14. ASSUME StartSnapshot  PROVE Goal
  BY <1>a, <1>14 DEF StartSnapshot, mem
<1>15. ASSUME StartDestroy  PROVE Goal
  BY <1>a, <1>15 DEF StartDestroy, mem
<1>16. ASSUME FlushOne  PROVE Goal
  BY <1>a, <1>16 DEF FlushOne, mem
<1>17. ASSUME FlushEnd  PROVE Goal
  BY <1>a, <1>17 DEF FlushEnd, mem
<1>18. ASSUME Persist  PROVE Goal
  BY <1>a, <1>18 DEF Persist, mem
<1>19. ASSUME SealOne  PROVE Goal
  BY <1>a, <1>19 DEF SealOne, mem
<1>20. ASSUME SealEnd  PROVE Goal
  BY <1>a, <1>20 DEF SealEnd, mem
<1>21. ASSUME Closed  PROVE Goal
  BY <1>21 DEF Closed, Stop
<1>22. ASSUME Tick  PROVE Goal
  BY <1>a, <1>22 DEF Tick, mem
<1>23. ASSUME Crash  PROVE Goal
  BY <1>23 DEF Crash, Stop
<1>24. ASSUME Recover  PROVE Goal
  BY <1>24 DEF Recover
<1>25. ASSUME UNCHANGED vars  PROVE Goal
  BY <1>a, <1>25 DEF vars, mem
<1> QED  BY <1>1, <1>2, <1>3, <1>4, <1>5, <1>6, <1>7, <1>8, <1>9, <1>10, <1>11, <1>12, <1>13, <1>14, <1>15, <1>16, <1>17, <1>18, <1>19, <1>20, <1>21, <1>22, <1>23, <1>24, <1>25 DEF Next, ThreadStep, OwnerStep

\* The write whose put returns is in the trie.
LEMMA ReturnsOnTrie ==
  ASSUME IInv, NEW u \in Threads, NEW i, Returns(u, i)
  PROVE  OnTrie(i)' /\ i \in Ids /\ phase = "up" /\ phase' = "up" /\ pc[Owner] \in {"idle", "flush", "page"}
         /\ pc'[Owner] = pc[Owner]
<1>1. PICK e : e = job[u].entry
  OBVIOUS
<1>2. e.key \in Keys /\ e.id \in Ids
  BY <1>1 DEF Returns, IInv, WalTypes, JobRecords, Entries
<1>3. trie \in [Keys -> Seq(Ids)] /\ trie' = [trie EXCEPT ![e.key] = <<e.id>> \o trie[e.key]]
  BY <1>1 DEF Returns, Apply, IInv, ProcTypes
<1>4. <<e.id>> \in Seq(Ids) /\ trie[e.key] \in Seq(Ids) /\ <<e.id>>[1] = e.id /\ 1 \in 1 .. Len(<<e.id>>)
  BY <1>2, <1>3
<1>5. Joins(<<e.id>> \o trie[e.key], <<e.id>>, trie[e.key])
  BY <1>4, LongerAppend
<1>6. \E l \in 1 .. Len(trie'[e.key]) : trie'[e.key][l] = e.id
  BY <1>2, <1>3, <1>4, <1>5 DEF Joins
<1>7. OnTrie(i)' /\ i \in Ids
  BY <1>1, <1>2, <1>6 DEF OnTrie, Returns
<1> QED  BY <1>7, Constants DEF Returns, Apply, Goto, proc, IInv, Calls, WalTypes

\* Recovery reads the files of the live log.
LEMMA ReadableRead ==
  ASSUME NEW n \in DOMAIN file, Readable(n)
  PROVE  n \in RecoveryReads
<1>1. PICK j \in 1 .. Len(manifest) : manifest[j][1] = n /\ manifest[j][2] # "COMPACTED"
  BY DEF Readable
<1>2. manifest[j][2] \in Records(n)
  BY <1>1 DEF Records
<1> QED  BY <1>1, <1>2 DEF RecoveryReads

\* What a replay finds is in the trie.
LEMMA RecoverTrie ==
  ASSUME IInv, Recover, NEW i \in Ids, OnPage(i) \/ InLiveLog(i)
  PROVE  OnTrie(i)'
<1> DEFINE es == UNION {ToSet(file[n].data) : n \in RecoveryReads}
<1>1. \A n \in RecoveryReads : n \in DOMAIN file /\ file[n].data \in Seq(Entries)
  BY DEF IInv, DiskTypes, FilesOK, Files, RecoveryReads
<1>2. es \subseteq Entries /\ \A n \in RecoveryReads : \A j \in 1 .. Len(file[n].data) : file[n].data[j] \in es
  BY <1>1 DEF ToSet
<1>3. trie' = [k \in Keys |-> Replayed(k, es)] /\ page.chain \in [Keys -> Seq(Ids)]
  BY DEF Recover, IInv, DiskTypes
<1> HIDE DEF es
<1>4. ASSUME NEW k \in Keys
      PROVE  /\ \A x \in {e.id : e \in {z \in es : z.key = k}} : \E j \in 1 .. Len(trie'[k]) : trie'[k][j] = x
             /\ \A l \in 1 .. Len(page.chain[k]) : \E j \in 1 .. Len(trie'[k]) : trie'[k][j] = page.chain[k][l]
  <2>1. page.chain[k] \in Seq(Ids) /\ trie'[k] = Replayed(k, es)
    BY <1>3
  <2>2. LET ids == {e.id : e \in {x \in es : x.key = k}}
            r == Replayed(k, es)
        IN /\ \A x \in ids : \E j \in 1 .. Len(r) : r[j] = x
           /\ \A l \in 1 .. Len(page.chain[k]) : \E j \in 1 .. Len(r) : r[j] = page.chain[k][l]
    BY <1>2, <2>1, ReplayedSpec, Zenon
  <2> QED  BY <2>1, <2>2
<1>5. CASE OnPage(i)
  BY <1>4, <1>5 DEF OnPage, OnTrie
<1>6. CASE InLiveLog(i)
  <2>1. PICK n \in DOMAIN file : InSynced(i, n) /\ Readable(n)
    BY <1>6 DEF InLiveLog
  <2>2. InData(i, n)
    BY <2>1, SyncedInData DEF IInv, DiskTypes
  <2>3. PICK j \in 1 .. Len(file[n].data) : file[n].data[j].id = i
    BY <2>2 DEF InData, Holds
  <2>4. PICK e \in es : e.id = i
    BY <1>2, <2>1, <2>3, ReadableRead
  <2>5. e.key \in Keys
    BY <1>2, <2>4 DEF Entries
  <2>6. i \in {x.id : x \in {z \in es : z.key = e.key}}
    BY <2>4
  <2> QED  BY <1>4, <2>5, <2>6 DEF OnTrie
<1> QED  BY <1>5, <1>6

\* What a destroy has done before it drops the log.
LEMMA DestroyStep ==
  ASSUME IInv, [Next]_vars
  PROVE  Destroy'
<1> USE DEF Destroy
<1>a. WalTypes /\ Destroy /\ Calls
  BY DEF IInv, Memory
<1>b. \A i \in 1 .. Len(threads) : threads[i] \in Threads
  BY <1>a DEF WalTypes
<1>c. ASSUME pc'[Owner] = pc[Owner], phase' = phase, pc[Owner] \notin Destroying  PROVE Destroy'
  BY <1>a, <1>c DEF Destroying
<1>d. ASSUME pc[Owner] \in Destroying, pc'[Owner] \in Destroying, phase' = phase,
             \A t \in Threads : pc'[t] = "idle", UNCHANGED <<page, trie, acked, threads>>,
             promised \subseteq promised',
             pc'[Owner] \in Late => pc[Owner] \in Late,
             pc'[Owner] = "destroy_flush" => pc[Owner] = "destroy_flush" /\ at'[Owner] = at[Owner],
             pc'[Owner] \in Late \cup {"destroy_page"} => pc[Owner] \in Late \cup {"destroy_page"}
      PROVE  Destroy'
  <2>1. \A i \in Ids : (OnTrie(i)' <=> OnTrie(i)) /\ (OnPage(i)' <=> OnPage(i))
    BY <1>d DEF OnTrie, OnPage
  <2>2. phase' = "up"
    BY <1>a, <1>d DEF Destroying, Late
  <2> QED  BY <1>a, <1>b, <1>d, <2>1, <2>2 DEF Destroying
<1>e. \A t \in Threads : pc[t] # "idle" => pc[Owner] \notin Destroying
  BY <1>a DEF Calls, Destroying, Late
<1>1. ASSUME NEW t \in Threads, StartPut(t)  PROVE Destroy'
  <2>1. pc'[Owner] = pc[Owner] /\ phase' = phase /\ pc[Owner] \notin Destroying
    BY <1>a, <1>1, Constants DEF StartPut, Goto, WalTypes, Destroying, Late
  <2> QED  BY <1>c, <2>1
<1>2. ASSUME NEW t \in Threads, GetThreadWal(t)  PROVE Destroy'
  <2>1. pc'[Owner] = pc[Owner] /\ phase' = phase /\ pc[Owner] \notin Destroying
    BY <1>a, <1>e, <1>2, Constants DEF GetThreadWal, Goto, proc, WalTypes
  <2> QED  BY <1>c, <2>1
<1>3. ASSUME NEW t \in Threads, MakeRoom(t)  PROVE Destroy'
  <2>1. PICK x : pc' = [pc EXCEPT ![t] = x] /\ pc[t] = "room" /\ phase' = phase
    BY <1>3 DEF MakeRoom, Goto, proc
  <2> QED  BY <1>a, <1>c, <1>e, <2>1, Constants DEF WalTypes
<1>4. ASSUME NEW t \in Threads, Seal(t)  PROVE Destroy'
  <2>1. pc'[Owner] = pc[Owner] /\ phase' = phase /\ pc[Owner] \notin Destroying
    BY <1>a, <1>e, <1>4, Constants DEF Seal, Goto, proc, WalTypes
  <2> QED  BY <1>c, <2>1
<1>5. ASSUME NEW t \in Threads, Reopen(t)  PROVE Destroy'
  <2>1. pc'[Owner] = pc[Owner] /\ phase' = phase /\ pc[Owner] \notin Destroying
    BY <1>a, <1>e, <1>5, Constants DEF Reopen, Goto, proc, WalTypes
  <2> QED  BY <1>c, <2>1
<1>6. ASSUME NEW t \in Threads, WalAppend(t)  PROVE Destroy'
  <2>1. pc'[Owner] = pc[Owner] /\ phase' = phase /\ pc[Owner] \notin Destroying
    BY <1>a, <1>e, <1>6, Constants DEF WalAppend, Goto, proc, WalTypes
  <2> QED  BY <1>c, <2>1
<1>7. ASSUME NEW t \in Threads, Apply(t)  PROVE Destroy'
  <2>1. pc'[Owner] = pc[Owner] /\ phase' = phase /\ pc[Owner] \notin Destroying
    BY <1>a, <1>e, <1>7, Constants DEF Apply, Goto, proc, WalTypes
  <2> QED  BY <1>c, <2>1
<1>8. ASSUME NEW t \in Threads, TimerFire(t)  PROVE Destroy'
  <2>1. /\ pc' = pc /\ phase' = phase /\ at' = at /\ UNCHANGED <<page, trie, acked, threads>>
        /\ promised \subseteq promised'
    BY <1>8 DEF TimerFire, proc, mem, cmp
  <2>2. CASE pc[Owner] \in Destroying
    BY <1>a, <1>d, <2>1, <2>2
  <2> QED  BY <1>c, <2>1, <2>2
<1>9. ASSUME NEW t \in Threads, CompactMerge(t)  PROVE Destroy'
  <2>1. pc'[Owner] = pc[Owner] /\ phase' = phase /\ pc[Owner] \notin Destroying
    BY <1>a, <1>e, <1>9, Constants DEF CompactMerge, Goto, proc, WalTypes
  <2> QED  BY <1>c, <2>1
<1>10. ASSUME NEW t \in Threads, Recheck(t)  PROVE Destroy'
  <2>1. pc'[Owner] = pc[Owner] /\ phase' = phase /\ pc[Owner] \notin Destroying
    BY <1>a, <1>e, <1>10, Constants DEF Recheck, Goto, proc, WalTypes
  <2> QED  BY <1>c, <2>1
<1>11. ASSUME NEW a \in Actors, CompactRead(a)  PROVE Destroy'
  <2>1. phase' = phase /\ UNCHANGED <<page, trie, acked, threads, promised>>
    BY <1>11 DEF CompactRead, disk, proc, mem, twals, history
  <2>2. CASE a = Owner
    <3>1. pc[Owner] \in Late /\ pc'[Owner] \in Late /\ \A t \in Threads : pc'[t] = pc[t]
      BY <1>a, <1>11, <2>2, Constants DEF CompactRead, Goto, WalTypes, Late
    <3>2. \A t \in Threads : pc[t] = "idle"
      BY <1>a, <3>1 DEF Destroying
    <3>3. pc'[Owner] # "destroy_flush" /\ pc'[Owner] \in Destroying /\ pc[Owner] \in Destroying
      BY <3>1 DEF Late, Destroying
    <3> QED  BY <1>d, <2>1, <3>1, <3>2, <3>3
  <2>3. CASE a \in Threads
    <3>1. pc[a] # "idle" /\ pc'[Owner] = pc[Owner]
      BY <1>a, <1>11, <2>3, Constants DEF CompactRead, Goto, WalTypes
    <3> QED  BY <1>c, <1>e, <2>1, <2>3, <3>1
  <2> QED  BY <2>2, <2>3 DEF Actors
<1>12. ASSUME NEW a \in Actors, CompactMark(a)  PROVE Destroy'
  <2>1. phase' = phase /\ UNCHANGED <<page, trie, acked, threads, promised>>
    BY <1>12 DEF CompactMark, proc, mem, twals, history
  <2>2. CASE a = Owner
    <3>1. pc[Owner] \in Late /\ pc'[Owner] \in Late /\ \A t \in Threads : pc'[t] = pc[t]
      BY <1>a, <1>12, <2>2, Constants DEF CompactMark, Goto, WalTypes, Late
    <3>2. \A t \in Threads : pc[t] = "idle"
      BY <1>a, <3>1 DEF Destroying
    <3>3. pc'[Owner] # "destroy_flush" /\ pc'[Owner] \in Destroying /\ pc[Owner] \in Destroying
      BY <3>1 DEF Late, Destroying
    <3> QED  BY <1>d, <2>1, <3>1, <3>2, <3>3
  <2>3. CASE a \in Threads
    <3>1. pc[a] # "idle" /\ pc'[Owner] = pc[Owner]
      BY <1>a, <1>12, <2>3, Constants DEF CompactMark, Goto, WalTypes
    <3> QED  BY <1>c, <1>e, <2>1, <2>3, <3>1
  <2> QED  BY <2>2, <2>3 DEF Actors
<1>13. ASSUME NEW a \in Actors, CompactUnlink(a)  PROVE Destroy'
  <2>1. phase' = phase /\ UNCHANGED <<page, trie, acked, threads, promised>>
    BY <1>13 DEF CompactUnlink, proc, mem
  <2>2. CASE a = Owner
    <3>1. pc[Owner] \in Late /\ pc'[Owner] \in Late /\ \A t \in Threads : pc'[t] = pc[t]
      BY <1>a, <1>13, <2>2, Constants DEF CompactUnlink, Goto, WalTypes, Late
    <3>2. \A t \in Threads : pc[t] = "idle"
      BY <1>a, <3>1 DEF Destroying
    <3>3. pc'[Owner] # "destroy_flush" /\ pc'[Owner] \in Destroying /\ pc[Owner] \in Destroying
      BY <3>1 DEF Late, Destroying
    <3> QED  BY <1>d, <2>1, <3>1, <3>2, <3>3
  <2>3. CASE a \in Threads
    <3>1. pc[a] # "idle" /\ pc'[Owner] = pc[Owner]
      BY <1>a, <1>13, <2>3, Constants DEF CompactUnlink, Goto, WalTypes
    <3> QED  BY <1>c, <1>e, <2>1, <2>3, <3>1
  <2> QED  BY <2>2, <2>3 DEF Actors
<1>14. ASSUME StartSnapshot  PROVE Destroy'
  <2>1. pc'[Owner] = "flush" /\ phase' = "up"
    BY <1>a, <1>14, Constants DEF StartSnapshot, Goto, WalTypes
  <2> QED  BY <2>1 DEF Destroying, Late
<1>15. ASSUME StartDestroy  PROVE Destroy'
  <2>1. /\ pc'[Owner] = "destroy_flush" /\ phase' = "up" /\ at'[Owner] = 1
        /\ \A t \in Threads : pc'[t] = "idle"
    BY <1>a, <1>15, Constants DEF StartDestroy, Goto, proc, WalTypes
  <2>2. \A j \in 1 .. Len(threads') : ~(j < at'[Owner])
    BY <2>1
  <2> QED  BY <2>1, <2>2 DEF Late
<1>16. ASSUME FlushOne  PROVE Destroy'
  <2>1. /\ pc' = pc /\ phase' = phase /\ at'[Owner] = at[Owner] + 1 /\ at[Owner] \in Nat /\ UNCHANGED <<acked, threads>>
        /\ promised' = promised \cup acked[threads[at[Owner]]] /\ pc[Owner] \in {"flush", "destroy_flush"}
    BY <1>a, <1>16, Constants DEF FlushOne, proc, WalTypes
  <2>2. \A j \in 1 .. Len(threads) : j < at[Owner] + 1 => j < at[Owner] \/ j = at[Owner]
    BY <2>1
  <2> QED  BY <1>a, <2>1, <2>2 DEF Late, Destroying
<1>17. ASSUME FlushEnd  PROVE Destroy'
  <2>1. /\ pc'[Owner] = IF pc[Owner] = "flush" THEN "page" ELSE "destroy_page"
        /\ pc[Owner] \in {"flush", "destroy_flush"} /\ at[Owner] > Len(threads) /\ at[Owner] \in Nat
        /\ phase' = phase /\ UNCHANGED <<acked, promised>> /\ \A t \in Threads : pc'[t] = pc[t]
    BY <1>a, <1>17, Constants DEF FlushEnd, Goto, proc, history, WalTypes
  <2>2. CASE pc[Owner] = "flush"
    BY <1>a, <2>1, <2>2 DEF Late, Destroying
  <2>3. CASE pc[Owner] = "destroy_flush"
    <3>1. \A j \in 1 .. Len(threads) : j < at[Owner]
      BY <1>a, <2>1 DEF WalTypes
    <3>2. \A t \in Threads : acked[t] # {} => \E j \in 1 .. Len(threads) : threads[j] = t
      BY DEF IInv, Registered
    <3>3. \A t \in Threads : acked[t] \subseteq promised
      BY <1>a, <2>3, <3>1, <3>2
    <3>4. \A t \in Threads : pc[t] = "idle"
      BY <1>a, <2>3 DEF Destroying
    <3> QED  BY <1>a, <2>1, <2>3, <3>3, <3>4 DEF Late
  <2> QED  BY <2>1, <2>2, <2>3
<1>18. ASSUME Persist  PROVE Destroy'
  <2>1. /\ pc'[Owner] = IF pc[Owner] = "page" THEN "idle" ELSE "seal_all"
        /\ pc[Owner] \in {"page", "destroy_page"} /\ page'.chain = trie /\ trie' = trie
        /\ phase' = phase /\ UNCHANGED <<acked, promised>> /\ \A t \in Threads : pc'[t] = pc[t]
    BY <1>a, <1>18, Constants DEF Persist, Goto, proc, mem, history, WalTypes
  <2>2. CASE pc[Owner] = "page"
    BY <2>1, <2>2 DEF Late, Destroying
  <2>3. CASE pc[Owner] = "destroy_page"
    <3>1. \A i \in Ids : OnTrie(i)' => OnPage(i)'
      BY <2>1 DEF OnTrie, OnPage
    <3>2. \A t \in Threads : pc[t] = "idle" /\ acked[t] \subseteq promised
      BY <1>a, <2>3 DEF Destroying
    <3> QED  BY <1>a, <2>1, <2>3, <3>1, <3>2
  <2> QED  BY <2>1, <2>2, <2>3
<1>19. ASSUME SealOne  PROVE Destroy'
  <2>1. phase' = phase /\ UNCHANGED <<page, trie, acked, threads, promised>> /\ pc[Owner] = "seal_all"
    BY <1>19 DEF SealOne, proc, history, mem
  <2>2. pc'[Owner] \in {"seal_all", "compact"} /\ \A t \in Threads : pc'[t] = pc[t]
    BY <1>a, <1>19, Constants DEF SealOne, WalTypes
  <2>3. \A t \in Threads : pc[t] = "idle"
    BY <1>a, <2>1 DEF Destroying, Late
  <2> QED  BY <1>d, <2>1, <2>2, <2>3 DEF Destroying, Late
<1>20. ASSUME SealEnd  PROVE Destroy'
  <2>1. phase' = phase /\ UNCHANGED <<page, trie, acked, threads, promised>> /\ pc[Owner] = "seal_all"
    BY <1>20 DEF SealEnd, disk, proc, twals, cmp, history, mem
  <2>2. pc'[Owner] \in {"seal_all", "compact"} /\ \A t \in Threads : pc'[t] = pc[t]
    BY <1>a, <1>20, Constants DEF SealEnd, Goto, WalTypes
  <2>3. \A t \in Threads : pc[t] = "idle"
    BY <1>a, <2>1 DEF Destroying, Late
  <2> QED  BY <1>d, <2>1, <2>2, <2>3 DEF Destroying, Late
<1>21. ASSUME Closed  PROVE Destroy'
  <2>1. pc'[Owner] = "idle"
    BY <1>21, Constants DEF Closed, Stop
  <2> QED  BY <2>1 DEF Destroying, Late
<1>22. ASSUME Tick  PROVE Destroy'
  <2>1. pc' = pc /\ phase' = phase /\ at' = at /\ UNCHANGED <<page, trie, acked, threads, promised>>
    BY <1>22 DEF Tick, disk, mem, twals, cmp, history
  <2>2. CASE pc[Owner] \in Destroying
    BY <1>a, <1>d, <2>1, <2>2
  <2> QED  BY <1>c, <2>1, <2>2
<1>23. ASSUME Crash  PROVE Destroy'
  <2>1. pc'[Owner] = "idle"
    BY <1>23, Constants DEF Crash, Stop
  <2> QED  BY <2>1 DEF Destroying, Late
<1>24. ASSUME Recover  PROVE Destroy'
  <2>1. pc[Owner] = "idle" /\ pc' = pc
    BY <1>a, <1>24 DEF Recover
  <2> QED  BY <2>1 DEF Destroying, Late
<1>25. ASSUME UNCHANGED vars  PROVE Destroy'
  <2>1. pc' = pc /\ phase' = phase /\ at' = at /\ UNCHANGED <<page, trie, acked, threads, promised>>
    BY <1>25 DEF vars, disk, proc, mem, twals, cmp, history
  <2>2. CASE pc[Owner] \in Destroying
    BY <1>a, <1>d, <2>1, <2>2
  <2> QED  BY <1>c, <2>1, <2>2
<1> QED  BY <1>1, <1>2, <1>3, <1>4, <1>5, <1>6, <1>7, <1>8, <1>9, <1>10, <1>11, <1>12, <1>13, <1>14, <1>15, <1>16, <1>17, <1>18, <1>19, <1>20, <1>21, <1>22, <1>23, <1>24, <1>25 DEF Next, ThreadStep, OwnerStep

\* Only recovery starts a process, and only the checkpoint writes the page file.
LEMMA PageFrame ==
  ASSUME IInv, [Next]_vars
  PROVE  (Recover \/ phase' \in {phase, "down"}) /\ (page' = page \/ (page'.chain = trie /\ trie' = trie))
<1>1. ASSUME NEW t \in Threads, StartPut(t)  PROVE (Recover \/ phase' \in {phase, "down"}) /\ (page' = page \/ (page'.chain = trie /\ trie' = trie))
  BY <1>1 DEF StartPut, disk
<1>2. ASSUME NEW t \in Threads, GetThreadWal(t)  PROVE (Recover \/ phase' \in {phase, "down"}) /\ (page' = page \/ (page'.chain = trie /\ trie' = trie))
  BY <1>2 DEF GetThreadWal, proc
<1>3. ASSUME NEW t \in Threads, MakeRoom(t)  PROVE (Recover \/ phase' \in {phase, "down"}) /\ (page' = page \/ (page'.chain = trie /\ trie' = trie))
  BY <1>3 DEF MakeRoom, proc
<1>4. ASSUME NEW t \in Threads, Seal(t)  PROVE (Recover \/ phase' \in {phase, "down"}) /\ (page' = page \/ (page'.chain = trie /\ trie' = trie))
  BY <1>4 DEF Seal, proc
<1>5. ASSUME NEW t \in Threads, Reopen(t)  PROVE (Recover \/ phase' \in {phase, "down"}) /\ (page' = page \/ (page'.chain = trie /\ trie' = trie))
  BY <1>5 DEF Reopen, proc
<1>6. ASSUME NEW t \in Threads, WalAppend(t)  PROVE (Recover \/ phase' \in {phase, "down"}) /\ (page' = page \/ (page'.chain = trie /\ trie' = trie))
  BY <1>6 DEF WalAppend, proc
<1>7. ASSUME NEW t \in Threads, Apply(t)  PROVE (Recover \/ phase' \in {phase, "down"}) /\ (page' = page \/ (page'.chain = trie /\ trie' = trie))
  BY <1>7 DEF Apply, disk, proc
<1>8. ASSUME NEW t \in Threads, TimerFire(t)  PROVE (Recover \/ phase' \in {phase, "down"}) /\ (page' = page \/ (page'.chain = trie /\ trie' = trie))
  BY <1>8 DEF TimerFire, proc
<1>9. ASSUME NEW t \in Threads, CompactMerge(t)  PROVE (Recover \/ phase' \in {phase, "down"}) /\ (page' = page \/ (page'.chain = trie /\ trie' = trie))
  BY <1>9 DEF CompactMerge, proc
<1>10. ASSUME NEW t \in Threads, Recheck(t)  PROVE (Recover \/ phase' \in {phase, "down"}) /\ (page' = page \/ (page'.chain = trie /\ trie' = trie))
  BY <1>10 DEF Recheck, disk, proc
<1>11. ASSUME NEW a \in Actors, CompactRead(a)  PROVE (Recover \/ phase' \in {phase, "down"}) /\ (page' = page \/ (page'.chain = trie /\ trie' = trie))
  BY <1>11 DEF CompactRead, disk, proc
<1>12. ASSUME NEW a \in Actors, CompactMark(a)  PROVE (Recover \/ phase' \in {phase, "down"}) /\ (page' = page \/ (page'.chain = trie /\ trie' = trie))
  BY <1>12 DEF CompactMark, proc
<1>13. ASSUME NEW a \in Actors, CompactUnlink(a)  PROVE (Recover \/ phase' \in {phase, "down"}) /\ (page' = page \/ (page'.chain = trie /\ trie' = trie))
  BY <1>13 DEF CompactUnlink, proc
<1>14. ASSUME StartSnapshot  PROVE (Recover \/ phase' \in {phase, "down"}) /\ (page' = page \/ (page'.chain = trie /\ trie' = trie))
  BY <1>14 DEF StartSnapshot, disk
<1>15. ASSUME StartDestroy  PROVE (Recover \/ phase' \in {phase, "down"}) /\ (page' = page \/ (page'.chain = trie /\ trie' = trie))
  BY <1>15 DEF StartDestroy, disk, proc
<1>16. ASSUME FlushOne  PROVE (Recover \/ phase' \in {phase, "down"}) /\ (page' = page \/ (page'.chain = trie /\ trie' = trie))
  BY <1>16 DEF FlushOne, proc
<1>17. ASSUME FlushEnd  PROVE (Recover \/ phase' \in {phase, "down"}) /\ (page' = page \/ (page'.chain = trie /\ trie' = trie))
  BY <1>17 DEF FlushEnd, disk, proc
<1>18. ASSUME Persist  PROVE (Recover \/ phase' \in {phase, "down"}) /\ (page' = page \/ (page'.chain = trie /\ trie' = trie))
  BY <1>18 DEF Persist, proc, mem
<1>19. ASSUME SealOne  PROVE (Recover \/ phase' \in {phase, "down"}) /\ (page' = page \/ (page'.chain = trie /\ trie' = trie))
  BY <1>19 DEF SealOne, proc
<1>20. ASSUME SealEnd  PROVE (Recover \/ phase' \in {phase, "down"}) /\ (page' = page \/ (page'.chain = trie /\ trie' = trie))
  BY <1>20 DEF SealEnd, disk, proc
<1>21. ASSUME Closed  PROVE (Recover \/ phase' \in {phase, "down"}) /\ (page' = page \/ (page'.chain = trie /\ trie' = trie))
  BY <1>21 DEF Closed, Stop, disk
<1>22. ASSUME Tick  PROVE (Recover \/ phase' \in {phase, "down"}) /\ (page' = page \/ (page'.chain = trie /\ trie' = trie))
  BY <1>22 DEF Tick, disk
<1>23. ASSUME Crash  PROVE (Recover \/ phase' \in {phase, "down"}) /\ (page' = page \/ (page'.chain = trie /\ trie' = trie))
  BY <1>23 DEF Crash, Stop
<1>24. ASSUME Recover  PROVE (Recover \/ phase' \in {phase, "down"}) /\ (page' = page \/ (page'.chain = trie /\ trie' = trie))
  BY <1>24 DEF Recover, disk
<1>25. ASSUME UNCHANGED vars  PROVE (Recover \/ phase' \in {phase, "down"}) /\ (page' = page \/ (page'.chain = trie /\ trie' = trie))
  BY <1>25 DEF vars, disk, proc
<1> QED  BY <1>1, <1>2, <1>3, <1>4, <1>5, <1>6, <1>7, <1>8, <1>9, <1>10, <1>11, <1>12, <1>13, <1>14, <1>15, <1>16, <1>17, <1>18, <1>19, <1>20, <1>21, <1>22, <1>23, <1>24, <1>25 DEF Next, ThreadStep, OwnerStep

\* What the trie of a running process holds.
LEMMA MemoryStep ==
  ASSUME IInv, ~reused', [Next]_vars
  PROVE  Memory'
<1>1. Destroy'
  BY DestroyStep
<1>2. phase \in {"up", "down"} /\ acked \in [Threads -> SUBSET Ids] /\ promised \subseteq Ids
  BY DEF IInv, ProcTypes, WalTypes
<1>3. /\ \A t \in Threads : \A i \in acked[t] : phase = "up" /\ OnTrie(i)
      /\ phase = "up" => \A i \in Ids : OnPage(i) \/ i \in promised => OnTrie(i)
  BY DEF IInv, Memory
<1>4. ASSUME NEW t \in Threads, NEW i \in acked'[t]  PROVE phase' = "up" /\ OnTrie(i)'
  <2>1. CASE i \in acked[t] /\ phase' = phase
    BY <1>3, <2>1, TrieStep
  <2>2. CASE Returns(t, i)
    BY <2>2, ReturnsOnTrie
  <2> QED  BY <2>1, <2>2, HistoryStep
<1>5. ASSUME phase' = "up", NEW i \in Ids, OnPage(i)' \/ i \in promised'  PROVE OnTrie(i)'
  <2>1. CASE Recover
    <3>1. OnPage(i) \/ i \in promised
      BY <1>5, <2>1 DEF Recover, disk, history, OnPage
    <3>2. OnPage(i) \/ InLiveLog(i)
      BY <3>1 DEF IInv, PromisedKept, Kept
    <3> QED  BY <2>1, <3>2, RecoverTrie
  <2>2. CASE ~ Recover
    <3>1. phase = "up" /\ (page' = page \/ (page'.chain = trie /\ trie' = trie))
      BY <1>2, <1>5, <2>2, PageFrame
    <3>2. \A x : OnTrie(x) => OnTrie(x)'
      BY <1>5, <3>1, TrieStep
    <3>3. CASE OnPage(i)'
      <4>1. CASE page' = page
        BY <1>3, <3>1, <3>2, <3>3, <4>1 DEF OnPage
      <4>2. CASE page'.chain = trie
        BY <3>2, <3>3, <4>2 DEF OnPage, OnTrie
      <4> QED  BY <3>1, <4>1, <4>2
    <3>4. CASE i \in promised'
      <4>1. CASE \E u \in Threads : Returns(u, i)
        BY <4>1, ReturnsOnTrie
      <4>2. CASE i \in promised \/ \E u \in Threads : i \in acked[u]
        BY <1>3, <3>1, <3>2, <4>2
      <4> QED  BY <3>4, <4>1, <4>2, HistoryStep
    <3> QED  BY <1>5, <3>3, <3>4
  <2> QED  BY <2>1, <2>2
<1> QED  BY <1>1, <1>4, <1>5 DEF Memory

\* An acknowledged write that is not kept yet is with a thread WAL that is open.
LEMMA AckedOpen ==
  ASSUME IInv, NEW u \in Threads, NEW i \in acked[u]
  PROVE  /\ i \in Ids /\ phase = "up"
         /\ pc[Owner] \in Late => OnPage(i) /\ Kept(i)
         /\ Kept(i) \/ (pc[u] # "reopen" /\ cur[u] # NoFile /\ Reached(i, u))
<1>1. i \in Ids /\ phase = "up" /\ OnTrie(i)
  BY DEF IInv, WalTypes, Memory
<1>2. ASSUME pc[Owner] \in Late  PROVE OnPage(i) /\ Kept(i)
  <2>1. OnPage(i) /\ i \in promised
    BY <1>1, <1>2 DEF IInv, Memory, Destroy
  <2> QED  BY <2>1 DEF IInv, PromisedKept
<1>3. ASSUME pc[Owner] \notin Late  PROVE cur[u] # NoFile
  <2>1. PICK j \in 1 .. Len(threads) : threads[j] = u
    BY DEF IInv, Registered
  <2> QED  BY <1>3, <2>1 DEF IInv, Registered
<1>4. Kept(i) \/ (pc[u] # "reopen" /\ Reached(i, u))
  BY DEF IInv, AckedReached, Reached
<1> QED  BY <1>1, <1>2, <1>3, <1>4

\* An acknowledged write stays in the buffer or in the file of its thread until it is kept.
LEMMA AckedStep ==
  ASSUME IInv, ~reused', [Next]_vars
  PROVE  AckedReached'
<1> SUFFICES ASSUME NEW u \in Threads, NEW i \in acked'[u]
             PROVE  Kept(i)' \/ (pc'[u] # "reopen" /\ Reached(i, u)')
  BY DEF AckedReached, Reached
<1>1. CASE i \in acked[u] /\ phase' = phase
  <2>1. /\ i \in Ids /\ phase = "up" /\ (pc[Owner] \in Late => OnPage(i) /\ Kept(i))
        /\ Kept(i) \/ (pc[u] # "reopen" /\ cur[u] # NoFile /\ Reached(i, u))
    BY <1>1, AckedOpen
  <2>2. CASE Kept(i)
    BY <2>1, <2>2, KeptStep
  <2>3. CASE ~ Kept(i)
    BY <1>1, <2>1, <2>3, ReachedStep
  <2> QED  BY <2>2, <2>3
<1>2. CASE Returns(u, i)
  <2>1. i \in Ids /\ phase = "up" /\ phase' = "up" /\ pc[Owner] \notin Late
    BY <1>2, ReturnsOnTrie DEF Late
  <2>2. pc[u] = "apply" /\ cur[u] # NoFile /\ (Kept(i) \/ Reached(i, u))
    BY <1>2 DEF Returns, IInv, Calls, LoggedReached, Reached
  <2>3. CASE Kept(i)
    BY <2>1, <2>3, KeptStep
  <2>4. CASE Reached(i, u)
    BY <2>1, <2>2, <2>4, ReachedStep
  <2> QED  BY <2>2, <2>3, <2>4
<1> QED  BY <1>1, <1>2, HistoryStep

\* A write is promised when an fsync returns.
LEMMA PromisedFrame ==
  ASSUME IInv, [Next]_vars
  PROVE  \A i \in promised' :
         \/ i \in promised
         \/ \E u \in Threads : \/ Returns(u, i) /\ mode = "IMMEDIATE"
                               \/ i \in acked[u] /\ TimerFire(u) /\ mode = "DEBOUNCED"
                               \/ i \in acked[u] /\ FlushOne /\ u = threads[at[Owner]]
<1> DEFINE Goal == \A i \in promised' :
                      \/ i \in promised
                      \/ \E u \in Threads : \/ Returns(u, i) /\ mode = "IMMEDIATE"
                                            \/ i \in acked[u] /\ TimerFire(u) /\ mode = "DEBOUNCED"
                                            \/ i \in acked[u] /\ FlushOne /\ u = threads[at[Owner]]
<1>1. ASSUME NEW t \in Threads, StartPut(t)  PROVE Goal
  BY <1>1 DEF StartPut, history
<1>2. ASSUME NEW t \in Threads, GetThreadWal(t)  PROVE Goal
  BY <1>2 DEF GetThreadWal, history
<1>3. ASSUME NEW t \in Threads, MakeRoom(t)  PROVE Goal
  BY <1>3 DEF MakeRoom, history
<1>4. ASSUME NEW t \in Threads, Seal(t)  PROVE Goal
  BY <1>4 DEF Seal, history
<1>5. ASSUME NEW t \in Threads, Reopen(t)  PROVE Goal
  BY <1>5 DEF Reopen, history
<1>6. ASSUME NEW t \in Threads, WalAppend(t)  PROVE Goal
  BY <1>6 DEF WalAppend, history
<1>7. ASSUME NEW t \in Threads, Apply(t)  PROVE Goal
  <2>1. promised' = promised \/ (pc[t] = "apply" /\ mode = "IMMEDIATE" /\ promised' = promised \cup {job[t].entry.id})
    BY <1>7 DEF Apply
  <2>2. pc[t] = "apply" => Returns(t, job[t].entry.id)
    BY <1>7 DEF Returns
  <2>3. CASE promised' = promised
    BY <2>3
  <2>4. CASE pc[t] = "apply" /\ mode = "IMMEDIATE" /\ promised' = promised \cup {job[t].entry.id}
    <3> SUFFICES ASSUME NEW i \in promised', i \notin promised
                 PROVE  Returns(t, i) /\ mode = "IMMEDIATE"
      BY Zenon
    <3>1. i = job[t].entry.id
      BY <2>4
    <3> QED  BY <2>2, <2>4, <3>1
  <2> QED  BY <2>1, <2>3, <2>4
<1>8. ASSUME NEW t \in Threads, TimerFire(t)  PROVE Goal
  <2>1. promised' = promised \/ (mode = "DEBOUNCED" /\ promised' = promised \cup acked[t])
    BY <1>8 DEF TimerFire
  <2>2. \A i \in promised' : i \in promised \/ (i \in acked[t] /\ mode = "DEBOUNCED")
    BY <2>1
  <2> QED  BY <1>8, <2>2, Zenon
<1>9. ASSUME NEW t \in Threads, CompactMerge(t)  PROVE Goal
  BY <1>9 DEF CompactMerge, history
<1>10. ASSUME NEW t \in Threads, Recheck(t)  PROVE Goal
  BY <1>10 DEF Recheck, history
<1>11. ASSUME NEW a \in Actors, CompactRead(a)  PROVE Goal
  BY <1>11 DEF CompactRead, history
<1>12. ASSUME NEW a \in Actors, CompactMark(a)  PROVE Goal
  BY <1>12 DEF CompactMark, history
<1>13. ASSUME NEW a \in Actors, CompactUnlink(a)  PROVE Goal
  BY <1>13 DEF CompactUnlink
<1>14. ASSUME StartSnapshot  PROVE Goal
  BY <1>14 DEF StartSnapshot, history
<1>15. ASSUME StartDestroy  PROVE Goal
  BY <1>15 DEF StartDestroy, history
<1>16. ASSUME FlushOne  PROVE Goal
  <2>1. threads[at[Owner]] \in Threads
    BY <1>16, AtThread DEF FlushOne
  <2> QED  BY <1>16, <2>1 DEF FlushOne
<1>17. ASSUME FlushEnd  PROVE Goal
  BY <1>17 DEF FlushEnd, history
<1>18. ASSUME Persist  PROVE Goal
  BY <1>18 DEF Persist, history
<1>19. ASSUME SealOne  PROVE Goal
  BY <1>19 DEF SealOne, history
<1>20. ASSUME SealEnd  PROVE Goal
  BY <1>20 DEF SealEnd, history
<1>21. ASSUME Closed  PROVE Goal
  BY <1>21 DEF Closed, Stop
<1>22. ASSUME Tick  PROVE Goal
  BY <1>22 DEF Tick, history
<1>23. ASSUME Crash  PROVE Goal
  BY <1>23 DEF Crash, Stop
<1>24. ASSUME Recover  PROVE Goal
  BY <1>24 DEF Recover, history
<1>25. ASSUME UNCHANGED vars  PROVE Goal
  BY <1>25 DEF vars, history
<1> QED  BY <1>1, <1>2, <1>3, <1>4, <1>5, <1>6, <1>7, <1>8, <1>9, <1>10, <1>11, <1>12, <1>13, <1>14, <1>15, <1>16, <1>17, <1>18, <1>19, <1>20, <1>21, <1>22, <1>23, <1>24, <1>25 DEF Next, ThreadStep, OwnerStep

\* An fsync after a flush makes every acknowledged write of the thread safe.
LEMMA SyncKept ==
  ASSUME IInv, ~reused', [Next]_vars, NEW u \in Threads, NEW i \in acked[u],
         Flush(u, <<>>, TRUE), cur' = cur, list' = list, pc' = pc
  PROVE  Kept(i)'
<1>1. /\ i \in Ids /\ (pc[Owner] \in Late => OnPage(i) /\ Kept(i))
      /\ Kept(i) \/ (pc[u] # "reopen" /\ cur[u] # NoFile /\ Reached(i, u))
  BY AckedOpen
<1>2. CASE Kept(i)
  BY <1>1, <1>2, KeptStep
<1>3. CASE ~ Kept(i)
  <2>1. \A n : Doomed(n)' => Doomed(n)
    BY DEF Doomed
  <2>2. MoreRecords /\ <<>> \in Seq(Entries) /\ TRUE \in BOOLEAN
    BY DiskStep
  <2> QED  BY <1>1, <1>3, <2>1, <2>2, FlushKeeps
<1> QED  BY <1>2, <1>3

\* A promised write is kept.
LEMMA PromisedStep ==
  ASSUME IInv, ~reused', [Next]_vars
  PROVE  PromisedKept'
<1> SUFFICES ASSUME NEW i \in promised'  PROVE Kept(i)'
  BY DEF PromisedKept
<1>1. CASE i \in promised
  <2>1. i \in Ids /\ Kept(i)
    BY <1>1 DEF IInv, WalTypes, PromisedKept
  <2>2. ASSUME pc[Owner] \in Late  PROVE OnPage(i)
    <3>1. pc[Owner] # "idle"
      BY <2>2 DEF Late
    <3> QED  BY <1>1, <2>1, <2>2, <3>1 DEF IInv, Memory, Destroy
  <2> QED  BY <2>1, <2>2, KeptStep
<1>2. ASSUME NEW u \in Threads, Returns(u, i), mode = "IMMEDIATE"  PROVE Kept(i)'
  <2>1. i \in Ids /\ pc[Owner] \notin Late
    BY <1>2, ReturnsOnTrie DEF Late
  <2>2. Kept(i)
    BY <1>2 DEF Returns, IInv, LoggedReached
  <2> QED  BY <2>1, <2>2, KeptStep
<1>3. ASSUME NEW u \in Threads, i \in acked[u], TimerFire(u), mode = "DEBOUNCED"  PROVE Kept(i)'
  <2>1. (mode = "DEBOUNCED") = TRUE
    BY <1>3
  <2>2. Flush(u, <<>>, TRUE) /\ cur' = cur /\ list' = list /\ pc' = pc
    BY <1>3, <2>1 DEF TimerFire, cmp
  <2> QED  BY <1>3, <2>2, SyncKept
<1>4. ASSUME NEW u \in Threads, i \in acked[u], FlushOne, u = threads[at[Owner]]  PROVE Kept(i)'
  <2>1. Flush(u, <<>>, TRUE) /\ cur' = cur /\ list' = list /\ pc' = pc
    BY <1>4 DEF FlushOne
  <2> QED  BY <1>4, <2>1, SyncKept
<1> QED  BY <1>1, <1>2, <1>3, <1>4, PromisedFrame

\* A write comes to its commit by thread_wal_write alone, and waits there.
LEMMA ApplyFrame ==
  ASSUME IInv, [Next]_vars
  PROVE  \A u \in Threads :
           pc'[u] = "apply" => \/ WalAppend(u)
                               \/ pc[u] = "apply" /\ job'[u] = job[u] /\ mode' = mode /\ phase' = phase
<1> DEFINE Goal == \A u \in Threads :
                     pc'[u] = "apply" => \/ WalAppend(u)
                                         \/ pc[u] = "apply" /\ job'[u] = job[u] /\ mode' = mode /\ phase' = phase
<1>a. WalTypes /\ Calls
  BY DEF IInv
<1>b. ASSUME NEW t \in Threads, NEW x, x # "apply", pc' = [pc EXCEPT ![t] = x],
             \A u \in Threads : u # t => job'[u] = job[u], config' = config, phase' = phase
      PROVE  Goal
  <2>1. \A u \in Threads : pc'[u] = "apply" => u # t /\ pc[u] = "apply"
    BY <1>a, <1>b, Constants DEF WalTypes
  <2> QED  BY <1>b, <2>1, Zenon DEF mode
<1>c. ASSUME \A u \in Threads : pc'[u] = pc[u], job' = job, config' = config, phase' = phase
      PROVE  Goal
  BY <1>c DEF mode
<1> HIDE DEF Goal
<1>1. ASSUME NEW t \in Threads, StartPut(t)  PROVE Goal
  <2>1. PICK x : /\ pc' = [pc EXCEPT ![t] = x] /\ x # "apply" /\ config' = config /\ phase' = phase
                /\ \A u \in Threads : u # t => job'[u] = job[u]
    BY <1>a, <1>1 DEF StartPut, Goto, WalTypes
  <2> QED  BY <1>b, <2>1
<1>2. ASSUME NEW t \in Threads, GetThreadWal(t)  PROVE Goal
  <2>1. PICK x : /\ pc' = [pc EXCEPT ![t] = x] /\ x # "apply" /\ config' = config /\ phase' = phase
                /\ \A u \in Threads : u # t => job'[u] = job[u]
    BY <1>a, <1>2 DEF GetThreadWal, Goto, proc, WalTypes
  <2> QED  BY <1>b, <2>1
<1>3. ASSUME NEW t \in Threads, MakeRoom(t)  PROVE Goal
  <2>1. PICK x : /\ pc' = [pc EXCEPT ![t] = x] /\ x # "apply" /\ config' = config /\ phase' = phase
                /\ \A u \in Threads : u # t => job'[u] = job[u]
    BY <1>a, <1>3 DEF MakeRoom, Goto, proc, WalTypes
  <2> QED  BY <1>b, <2>1
<1>4. ASSUME NEW t \in Threads, Seal(t)  PROVE Goal
  <2>1. PICK x : /\ pc' = [pc EXCEPT ![t] = x] /\ x # "apply" /\ config' = config /\ phase' = phase
                /\ \A u \in Threads : u # t => job'[u] = job[u]
    BY <1>a, <1>4 DEF Seal, Goto, proc, WalTypes
  <2> QED  BY <1>b, <2>1
<1>5. ASSUME NEW t \in Threads, Reopen(t)  PROVE Goal
  <2>1. PICK x : /\ pc' = [pc EXCEPT ![t] = x] /\ x # "apply" /\ config' = config /\ phase' = phase
                /\ \A u \in Threads : u # t => job'[u] = job[u]
    BY <1>a, <1>5 DEF Reopen, Goto, proc, WalTypes
  <2> QED  BY <1>b, <2>1
<1>6. ASSUME NEW t \in Threads, WalAppend(t)  PROVE Goal
  <2>1. pc' = [pc EXCEPT ![t] = "apply"] /\ config' = config /\ phase' = phase /\ job' = job
    BY <1>6 DEF WalAppend, Goto, proc
  <2>2. \A u \in Threads : u # t => pc'[u] = pc[u]
    BY <1>a, <2>1 DEF WalTypes
  <2> QED  BY <1>6, <2>1, <2>2 DEF Goal, mode
<1>7. ASSUME NEW t \in Threads, Apply(t)  PROVE Goal
  <2>1. PICK x : /\ pc' = [pc EXCEPT ![t] = x] /\ x # "apply" /\ config' = config /\ phase' = phase
                /\ \A u \in Threads : u # t => job'[u] = job[u]
    BY <1>a, <1>7 DEF Apply, Goto, proc, WalTypes
  <2> QED  BY <1>b, <2>1
<1>8. ASSUME NEW t \in Threads, TimerFire(t)  PROVE Goal
  BY <1>c, <1>8 DEF TimerFire, proc
<1>9. ASSUME NEW t \in Threads, CompactMerge(t)  PROVE Goal
  <2>1. PICK x : /\ pc' = [pc EXCEPT ![t] = x] /\ x # "apply" /\ config' = config /\ phase' = phase
                /\ \A u \in Threads : u # t => job'[u] = job[u]
    BY <1>a, <1>9 DEF CompactMerge, Goto, proc, WalTypes
  <2> QED  BY <1>b, <2>1
<1>10. ASSUME NEW t \in Threads, Recheck(t)  PROVE Goal
  <2>1. PICK x : /\ pc' = [pc EXCEPT ![t] = x] /\ x # "apply" /\ config' = config /\ phase' = phase
                /\ \A u \in Threads : u # t => job'[u] = job[u]
    BY <1>a, <1>10 DEF Recheck, Goto, proc, WalTypes
  <2> QED  BY <1>b, <2>1
<1>11. ASSUME NEW a \in Actors, CompactRead(a)  PROVE Goal
  <2>1. PICK x : /\ pc' = [pc EXCEPT ![a] = x] /\ x # "apply" /\ config' = config /\ phase' = phase /\ job' = job
    BY <1>11 DEF CompactRead, Goto, proc
  <2>2. CASE a = Owner
    BY <1>a, <1>c, <2>1, <2>2, Constants DEF WalTypes
  <2>3. CASE a \in Threads
    BY <1>b, <2>1, <2>3
  <2> QED  BY <2>2, <2>3 DEF Actors
<1>12. ASSUME NEW a \in Actors, CompactMark(a)  PROVE Goal
  <2>1. PICK x : /\ pc' = [pc EXCEPT ![a] = x] /\ x # "apply" /\ config' = config /\ phase' = phase /\ job' = job
    BY <1>12 DEF CompactMark, Goto, proc
  <2>2. CASE a = Owner
    BY <1>a, <1>c, <2>1, <2>2, Constants DEF WalTypes
  <2>3. CASE a \in Threads
    BY <1>b, <2>1, <2>3
  <2> QED  BY <2>2, <2>3 DEF Actors
<1>13. ASSUME NEW a \in Actors, CompactUnlink(a)  PROVE Goal
  <2>1. PICK x : /\ pc' = [pc EXCEPT ![a] = x] /\ x # "apply" /\ config' = config /\ phase' = phase /\ job' = job
    BY <1>13 DEF CompactUnlink, Goto, proc
  <2>2. CASE a = Owner
    BY <1>a, <1>c, <2>1, <2>2, Constants DEF WalTypes
  <2>3. CASE a \in Threads
    BY <1>b, <2>1, <2>3
  <2> QED  BY <2>2, <2>3 DEF Actors
<1>14. ASSUME StartSnapshot  PROVE Goal
  BY <1>a, <1>c, <1>14, Constants DEF StartSnapshot, Goto, WalTypes
<1>15. ASSUME StartDestroy  PROVE Goal
  BY <1>a, <1>c, <1>15, Constants DEF StartDestroy, Goto, proc, WalTypes
<1>16. ASSUME FlushOne  PROVE Goal
  BY <1>c, <1>16 DEF FlushOne, proc
<1>17. ASSUME FlushEnd  PROVE Goal
  BY <1>a, <1>c, <1>17, Constants DEF FlushEnd, Goto, proc, WalTypes
<1>18. ASSUME Persist  PROVE Goal
  BY <1>a, <1>c, <1>18, Constants DEF Persist, Goto, proc, WalTypes
<1>19. ASSUME SealOne  PROVE Goal
  BY <1>c, <1>19 DEF SealOne, proc
<1>20. ASSUME SealEnd  PROVE Goal
  BY <1>a, <1>c, <1>20, Constants DEF SealEnd, Goto, proc, WalTypes
<1>21. ASSUME Closed  PROVE Goal
  <2>1. \A u \in Threads : pc'[u] = "idle"
    BY <1>21, Constants DEF Closed, Stop
  <2> QED  BY <2>1 DEF Goal
<1>22. ASSUME Tick  PROVE Goal
  BY <1>c, <1>22 DEF Tick
<1>23. ASSUME Crash  PROVE Goal
  <2>1. \A u \in Threads : pc'[u] = "idle"
    BY <1>23, Constants DEF Crash, Stop
  <2> QED  BY <2>1 DEF Goal
<1>24. ASSUME Recover  PROVE Goal
  <2>1. \A u \in Threads : pc'[u] = "idle"
    BY <1>a, <1>24 DEF Recover, Calls
  <2> QED  BY <2>1 DEF Goal
<1>25. ASSUME UNCHANGED vars  PROVE Goal
  BY <1>c, <1>25 DEF vars, proc
<1> QED  BY <1>1, <1>2, <1>3, <1>4, <1>5, <1>6, <1>7, <1>8, <1>9, <1>10, <1>11, <1>12, <1>13, <1>14, <1>15, <1>16, <1>17, <1>18, <1>19, <1>20, <1>21, <1>22, <1>23, <1>24, <1>25 DEF Next, ThreadStep, OwnerStep, Goal

\* thread_wal_write leaves the entry in the file or in the buffer, and safe if the mode
\* is IMMEDIATE.
LEMMA AppendReaches ==
  ASSUME IInv, ~reused', NEW u \in Threads, WalAppend(u), [Next]_vars
  PROVE  LET i == job[u].entry.id IN
         /\ job' = job /\ mode' = mode
         /\ mode = "IMMEDIATE" => Kept(i)'
         /\ InData(i, cur[u])' \/ InBuffer(i, u)'
<1> DEFINE sync == mode = "IMMEDIATE" \/ (job[u].size = "direct" /\ mode = "DEBOUNCED")
<1>1. /\ pc' = [pc EXCEPT ![u] = "apply"] /\ cur' = cur /\ list' = list /\ job' = job /\ mode' = mode
      /\ pc[u] = "append" /\ job[u] \in JobRecords /\ cur[u] # NoFile
  BY DEF WalAppend, Goto, cmp, proc, mode, IInv, WalTypes, Calls
<1>2. PICK e \in Entries : e = job[u].entry
  BY <1>1 DEF JobRecords
<1>3. \A v \in Threads : pc'[v] = "unlink" => pc[v] = "unlink"
  BY <1>1 DEF IInv, WalTypes
<1>4. \A n : Doomed(n)' => Doomed(n)
  BY <1>1, <1>3 DEF Doomed
<1>5. MoreRecords
  BY DiskStep
<1>6. CASE Flush(u, <<e>>, sync)
  <2>1. <<e>> \in Seq(Entries) /\ sync \in BOOLEAN /\ Holds(<<e>>, Len(<<e>>), e.id)
    BY <1>2 DEF Holds
  <2>2. (mode = "IMMEDIATE" => sync) /\ pc[u] # "reopen"
    BY <1>1
  <2> HIDE DEF sync
  <2>3. InData(e.id, cur[u])' /\ (sync => Kept(e.id)')
    BY <1>1, <1>4, <1>5, <1>6, <2>1, <2>2, FlushKeeps
  <2> QED  BY <1>1, <1>2, <2>2, <2>3
<1>7. CASE mode # "IMMEDIATE" /\ entry_buf' = [entry_buf EXCEPT ![u] = Append(entry_buf[u], e)]
  <2>1. entry_buf[u] \in Seq(Entries) /\ entry_buf'[u] = Append(entry_buf[u], e)
    BY <1>7 DEF IInv, WalTypes
  <2>2. Len(entry_buf[u]) + 1 \in 1 .. Len(entry_buf'[u]) /\ entry_buf'[u][Len(entry_buf[u]) + 1] = e
    BY <1>2, <2>1
  <2>3. InBuffer(e.id, u)'
    BY <2>2 DEF InBuffer, Holds
  <2> QED  BY <1>1, <1>2, <1>7, <2>3
<1> QED  BY <1>2, <1>6, <1>7 DEF WalAppend

\* A logged write stays in the buffer or in the file of its thread until it is kept.
LEMMA LoggedStep ==
  ASSUME IInv, ~reused', [Next]_vars
  PROVE  LoggedReached'
<1> SUFFICES ASSUME NEW u \in Threads, pc'[u] = "apply", NEW i, i = job'[u].entry.id
             PROVE  /\ mode' = "IMMEDIATE" => Kept(i)'
                    /\ Kept(i)' \/ InData(i, cur[u])' \/ InBuffer(i, u)'
  BY DEF LoggedReached
<1>1. CASE WalAppend(u)
  BY <1>1, AppendReaches
<1>2. CASE pc[u] = "apply" /\ job'[u] = job[u] /\ mode' = mode /\ phase' = phase
  <2>1. i \in Ids /\ phase = "up" /\ phase' = "up" /\ cur[u] # NoFile /\ pc[Owner] \notin Late
    BY <1>2 DEF IInv, WalTypes, JobRecords, Entries, Calls, Late
  <2>2. (mode = "IMMEDIATE" => Kept(i)) /\ (Kept(i) \/ Reached(i, u))
    BY <1>2 DEF IInv, LoggedReached, Reached
  <2>3. Kept(i) => Kept(i)'
    BY <2>1, KeptStep
  <2>4. Reached(i, u) => Kept(i)' \/ Reached(i, u)'
    BY <1>2, <2>1, ReachedStep
  <2> QED  BY <1>2, <2>2, <2>3, <2>4 DEF Reached
<1> QED  BY <1>1, <1>2, ApplyFrame

(***************************************************************************)
(* Where an ID and its key are found.                                      *)
(***************************************************************************)

\* A flush moves entries from the buffer to the file.
LEMMA FlushSeen ==
  ASSUME IInv, NEW t \in Threads, pc[t] # "reopen",
         NEW extra \in Seq(Entries), NEW sync \in BOOLEAN, Flush(t, extra, sync),
         \A l \in 1 .. Len(extra) : pc[t] # "idle" /\ extra[l] = job[t].entry,
         NEW i, NEW k
  PROVE  /\ InFiles(i, k)' => InFiles(i, k) \/ InBuffers(i, k) \/ InCalls(i, k)
         /\ InBuffers(i, k)' => InBuffers(i, k)
<1>1. FilesOK(file) /\ WalTypes /\ Descriptors
  BY DEF IInv, DiskTypes
<1>2. /\ DOMAIN file' = DOMAIN file
      /\ \A n \in DOMAIN file : n # cur[t] => file'[n] = file[n]
      /\ entry_buf' = [entry_buf EXCEPT ![t] = <<>>]
  BY <1>1, FlushEffect, Zenon
<1>c. ASSUME cur[t] # NoFile
      PROVE  LET d == file'[cur[t]].data IN
             \A j \in 1 .. Len(d) :
               \/ \E l \in 1 .. Len(file[cur[t]].data) : d[j] = file[cur[t]].data[l]
               \/ \E l \in 1 .. Len(entry_buf[t]) : d[j] = entry_buf[t][l]
               \/ \E l \in 1 .. Len(extra) : d[j] = extra[l]
  BY <1>1, <1>c, FlushEffect, Zenon
<1>3. InBuffers(i, k)' => InBuffers(i, k)
  <2>1. \A u \in Threads : entry_buf'[u] = IF u = t THEN <<>> ELSE entry_buf[u]
    BY <1>1, <1>2 DEF WalTypes
  <2> QED  BY <2>1 DEF InBuffers
<1>4. ASSUME InFiles(i, k)'  PROVE InFiles(i, k) \/ InBuffers(i, k) \/ InCalls(i, k)
  <2>1. PICK n \in DOMAIN file' : \E j \in 1 .. Len(file'[n].data) : Is(file'[n].data[j], i, k)
    BY <1>4 DEF InFiles, Is
  <2>2. PICK j \in 1 .. Len(file'[n].data) : Is(file'[n].data[j], i, k)
    BY <2>1
  <2>3. CASE n # cur[t]
    BY <1>2, <2>2, <2>3 DEF InFiles
  <2>4. CASE n = cur[t]
    <3>1. cur[t] # NoFile
      BY <1>1, <1>2, <2>4, Constants DEF FilesOK
    <3>2. \/ \E l \in 1 .. Len(file[n].data) : file'[n].data[j] = file[n].data[l]
          \/ \E l \in 1 .. Len(entry_buf[t]) : file'[n].data[j] = entry_buf[t][l]
          \/ \E l \in 1 .. Len(extra) : file'[n].data[j] = extra[l]
      BY <1>c, <2>2, <2>4, <3>1
    <3>3. CASE \E l \in 1 .. Len(file[n].data) : file'[n].data[j] = file[n].data[l]
      BY <1>2, <2>1, <2>2, <3>3 DEF InFiles
    <3>4. CASE \E l \in 1 .. Len(entry_buf[t]) : file'[n].data[j] = entry_buf[t][l]
      BY <2>2, <3>4 DEF InBuffers
    <3>5. CASE \E l \in 1 .. Len(extra) : file'[n].data[j] = extra[l]
      BY <2>2, <3>5 DEF InCalls
    <3> QED  BY <3>2, <3>3, <3>4, <3>5
  <2> QED  BY <2>3, <2>4
<1> QED  BY <1>3, <1>4

\* A new file is empty.
LEMMA CreateSeen ==
  ASSUME IInv, NEW n \in Names, file' = Created(n), NEW i, NEW k, InFiles(i, k)'
  PROVE  InFiles(i, k)
<1>1. FilesOK(file)
  BY DEF IInv, DiskTypes
<1>2. /\ DOMAIN file' = DOMAIN file \cup {n} /\ \A m \in DOMAIN file : file'[m] = file[m]
      /\ n \notin DOMAIN file => file'[n].data = <<>>
  BY <1>1, CreatedEffect
<1>3. PICK m \in DOMAIN file' : \E j \in 1 .. Len(file'[m].data) : Is(file'[m].data[j], i, k)
  BY DEF InFiles, Is
<1>4. m \in DOMAIN file
  BY <1>2, <1>3
<1> QED  BY <1>2, <1>3, <1>4 DEF InFiles

\* Recovery takes the trie from the files and the checkpoint.
LEMMA RecoverSeen ==
  ASSUME IInv, Recover, NEW i, NEW k \in Keys, InTrie(i, k)'
  PROVE  InFiles(i, k) \/ InPage(i, k)
<1> DEFINE es == UNION {ToSet(file[n].data) : n \in RecoveryReads}
<1>1. \A n \in RecoveryReads : n \in DOMAIN file /\ file[n].data \in Seq(Entries)
  BY DEF IInv, DiskTypes, FilesOK, Files, RecoveryReads
<1>2. es \subseteq Entries /\ \A e \in es : \E n \in RecoveryReads : \E j \in 1 .. Len(file[n].data) : file[n].data[j] = e
  BY <1>1 DEF ToSet
<1>3. trie'[k] = Replayed(k, es) /\ page.chain[k] \in Seq(Ids)
  BY DEF Recover, IInv, DiskTypes
<1> HIDE DEF es
<1>4. LET ids == {e.id : e \in {x \in es : x.key = k}}
          r == Replayed(k, es)
      IN \A j \in 1 .. Len(r) : r[j] \in ids \/ \E l \in 1 .. Len(page.chain[k]) : r[j] = page.chain[k][l]
  BY <1>2, <1>3, ReplayedSpec, Zenon
<1>5. PICK j \in 1 .. Len(trie'[k]) : trie'[k][j] = i
  BY DEF InTrie
<1>6. CASE i \in {e.id : e \in {x \in es : x.key = k}}
  <2>1. PICK e \in es : e.key = k /\ e.id = i
    BY <1>6
  <2>2. PICK n \in RecoveryReads : \E l \in 1 .. Len(file[n].data) : file[n].data[l] = e
    BY <1>2, <2>1
  <2> QED  BY <1>1, <2>1, <2>2 DEF InFiles, Is
<1>7. CASE \E l \in 1 .. Len(page.chain[k]) : i = page.chain[k][l]
  BY <1>7 DEF InPage
<1> QED  BY <1>3, <1>4, <1>5, <1>6, <1>7

\* An ID appears with a key when database_put_sync draws it, and nowhere else.
LEMMA SeenStep ==
  ASSUME IInv, NEW i, NEW k \in Keys, [Next]_vars
  PROVE  /\ Seen(i, k)' => Seen(i, k) \/ (i = next_id /\ \E t \in Threads : StartPut(t) /\ job'[t].entry.key = k)
         /\ next_id' = next_id \/ (next_id' = next_id + 1 /\ \E t \in Threads : StartPut(t))
<1> DEFINE Goal == /\ Seen(i, k)' => Seen(i, k) \/ (i = next_id /\ \E t \in Threads : StartPut(t) /\ job'[t].entry.key = k)
                   /\ next_id' = next_id \/ (next_id' = next_id + 1 /\ \E t \in Threads : StartPut(t))
<1>a. WalTypes
  BY DEF IInv
<1>f. file' = file /\ InFiles(i, k)' => InFiles(i, k)
  BY DEF InFiles
<1>b. entry_buf' = entry_buf /\ InBuffers(i, k)' => InBuffers(i, k)
  BY DEF InBuffers
<1>c. job' = job /\ (\A t \in Threads : pc'[t] # "idle" => pc[t] # "idle") /\ InCalls(i, k)' => InCalls(i, k)
  BY DEF InCalls
<1>t. trie' = trie /\ InTrie(i, k)' => InTrie(i, k)
  BY DEF InTrie
<1>p. page' = page /\ InPage(i, k)' => InPage(i, k)
  BY DEF InPage
<1>s. ASSUME (InFiles(i, k)' => Seen(i, k)), (InBuffers(i, k)' => Seen(i, k)), (InCalls(i, k)' => Seen(i, k)),
             (InTrie(i, k)' => Seen(i, k)), (InPage(i, k)' => Seen(i, k)), next_id' = next_id
      PROVE  Goal
  BY <1>s DEF Seen
<1>z. (InFiles(i, k) => Seen(i, k)) /\ (InBuffers(i, k) => Seen(i, k)) /\ (InCalls(i, k) => Seen(i, k))
      /\ (InTrie(i, k) => Seen(i, k)) /\ (InPage(i, k) => Seen(i, k))
  BY DEF Seen
<1> HIDE DEF Goal
<1>1. ASSUME NEW t \in Threads, StartPut(t)  PROVE Goal
  <2>1. UNCHANGED <<file, entry_buf, trie, page>> /\ next_id' = next_id + 1
    BY <1>1 DEF StartPut, disk, mem, twals
  <2>2. PICK y \in Keys, z \in Sizes :
          job' = [job EXCEPT ![t] = [entry |-> [id |-> next_id, key |-> y], sec |-> now, size |-> z]]
    BY <1>1 DEF StartPut
  <2>3. \A v \in Threads : v # t => job'[v] = job[v] /\ pc'[v] = pc[v]
    BY <1>a, <1>1, <2>2, Constants DEF StartPut, Goto, WalTypes
  <2>4. job'[t].entry.id = next_id /\ job'[t].entry.key = y
    BY <1>a, <2>2 DEF WalTypes
  <2>5. InCalls(i, k)' => InCalls(i, k) \/ (i = next_id /\ job'[t].entry.key = k)
    BY <2>3, <2>4 DEF InCalls, Is
  <2>6. Seen(i, k)' => Seen(i, k) \/ (i = next_id /\ job'[t].entry.key = k)
    BY <1>f, <1>b, <1>t, <1>p, <2>1, <2>5 DEF Seen
  <2> QED  BY <1>1, <2>1, <2>6, Zenon DEF Goal
<1>2. ASSUME NEW t \in Threads, GetThreadWal(t)  PROVE Goal
  <2>1. UNCHANGED <<entry_buf, job, trie, page, next_id>>
    BY <1>2 DEF GetThreadWal, Goto, proc, mem, twals, cmp, history
  <2>2. \A v \in Threads : pc'[v] # "idle" => pc[v] # "idle"
    BY <1>a, <1>2, Constants DEF GetThreadWal, Goto, WalTypes
  <2>3. file' = file \/ (file' = Created(<<t, 0>>) /\ <<t, 0>> \in Names)
    BY <1>2, Constants DEF GetThreadWal
  <2>4. InFiles(i, k)' => InFiles(i, k)
    BY <1>f, <2>3, CreateSeen
  <2> QED  BY <1>b, <1>c, <1>t, <1>p, <1>s, <1>z, <2>1, <2>2, <2>4
<1>3. ASSUME NEW t \in Threads, MakeRoom(t)  PROVE Goal
  <2>1. UNCHANGED <<job, trie, page, next_id>>
    BY <1>3 DEF MakeRoom, Goto, proc, mem, cmp, history
  <2>2. \A v \in Threads : pc'[v] # "idle" => pc[v] # "idle"
    <3>1. PICK x : pc' = [pc EXCEPT ![t] = x] /\ pc[t] # "idle"
      BY <1>3 DEF MakeRoom, Goto
    <3> QED  BY <1>a, <3>1, Constants DEF WalTypes
  <2>3. CASE UNCHANGED <<file, entry_buf>>
    BY <1>f, <1>b, <1>c, <1>t, <1>p, <1>s, <1>z, <2>1, <2>2, <2>3
  <2>4. CASE Flush(t, <<>>, mode = "IMMEDIATE")
    <3>1. <<>> \in Seq(Entries) /\ (mode = "IMMEDIATE") \in BOOLEAN /\ pc[t] # "reopen" /\ \A l \in 1 .. Len(<<>>) : FALSE
      BY <1>3 DEF MakeRoom
    <3>2. /\ InFiles(i, k)' => InFiles(i, k) \/ InBuffers(i, k) \/ InCalls(i, k)
          /\ InBuffers(i, k)' => InBuffers(i, k)
      BY <2>4, <3>1, FlushSeen
    <3> QED  BY <1>c, <1>t, <1>p, <1>s, <1>z, <2>1, <2>2, <3>2
  <2> QED  BY <1>3, <2>3, <2>4 DEF MakeRoom
<1>4. ASSUME NEW t \in Threads, Seal(t)  PROVE Goal
  <2>1. UNCHANGED <<entry_buf, job, trie, page, next_id>>
    BY <1>4 DEF Seal, Goto, proc, mem, twals, cmp, history
  <2>2. \A v \in Threads : pc'[v] # "idle" => pc[v] # "idle"
    BY <1>a, <1>4, Constants DEF Seal, Goto, WalTypes
  <2>3. PICK c : c = cur[t]
    OBVIOUS
  <2>4. /\ c \in DOMAIN file /\ DOMAIN file' = DOMAIN file /\ \A n \in DOMAIN file : n # c => file'[n] = file[n]
        /\ file'[c].data = file[c].data \o <<>>
    BY <1>4, <2>3, SealEffect
  <2>5. file'[c].data = file[c].data
    BY <2>4 DEF IInv, DiskTypes, FilesOK, Files
  <2>6. \A n \in DOMAIN file' : n \in DOMAIN file /\ file'[n].data = file[n].data
    BY <2>4, <2>5
  <2>7. InFiles(i, k)' => InFiles(i, k)
    BY <2>6 DEF InFiles
  <2> QED  BY <1>b, <1>c, <1>t, <1>p, <1>s, <1>z, <2>1, <2>2, <2>7
<1>5. ASSUME NEW t \in Threads, Reopen(t)  PROVE Goal
  <2>1. UNCHANGED <<entry_buf, job, trie, page, next_id>>
    BY <1>5 DEF Reopen, Goto, proc, mem, cmp, history
  <2>2. \A v \in Threads : pc'[v] # "idle" => pc[v] # "idle"
    BY <1>a, <1>5, Constants DEF Reopen, Goto, WalTypes
  <2>3. file' = Created(<<t, newest[t]>>) /\ <<t, newest[t]>> \in Names
    BY <1>a, <1>5, Constants DEF Reopen, WalTypes
  <2>4. InFiles(i, k)' => InFiles(i, k)
    BY <2>3, CreateSeen
  <2> QED  BY <1>b, <1>c, <1>t, <1>p, <1>s, <1>z, <2>1, <2>2, <2>4
<1>6. ASSUME NEW t \in Threads, WalAppend(t)  PROVE Goal
  <2> DEFINE sync == mode = "IMMEDIATE" \/ (job[t].size = "direct" /\ mode = "DEBOUNCED")
  <2>1. UNCHANGED <<job, trie, page, next_id>>
    BY <1>6 DEF WalAppend, Goto, proc, mem, cmp, history
  <2>2. \A v \in Threads : pc'[v] # "idle" => pc[v] # "idle"
    BY <1>a, <1>6, Constants DEF WalAppend, Goto, WalTypes
  <2>3. PICK e \in Entries : e = job[t].entry /\ pc[t] = "append"
    BY <1>a, <1>6 DEF WalAppend, WalTypes, JobRecords
  <2>4. CASE Flush(t, <<e>>, sync)
    <3>1. <<e>> \in Seq(Entries) /\ sync \in BOOLEAN /\ \A l \in 1 .. Len(<<e>>) : <<e>>[l] = e
      BY <2>3
    <3> HIDE DEF sync
    <3>2. /\ InFiles(i, k)' => InFiles(i, k) \/ InBuffers(i, k) \/ InCalls(i, k)
          /\ InBuffers(i, k)' => InBuffers(i, k)
      BY <2>3, <2>4, <3>1, FlushSeen
    <3> QED  BY <1>c, <1>t, <1>p, <1>s, <1>z, <2>1, <2>2, <3>2
  <2>5. CASE file' = file /\ entry_buf' = [entry_buf EXCEPT ![t] = Append(entry_buf[t], e)]
    <3>1. entry_buf[t] \in Seq(Entries) /\ entry_buf'[t] = Append(entry_buf[t], e)
      BY <1>a, <2>5 DEF WalTypes
    <3>2. \A j \in 1 .. Len(entry_buf'[t]) : entry_buf'[t][j] = e \/ (j \in 1 .. Len(entry_buf[t]) /\ entry_buf'[t][j] = entry_buf[t][j])
      BY <2>3, <3>1
    <3>3. \A v \in Threads : v # t => entry_buf'[v] = entry_buf[v]
      BY <1>a, <2>5 DEF WalTypes
    <3>4. InBuffers(i, k)' => InBuffers(i, k) \/ InCalls(i, k)
      BY <2>3, <3>2, <3>3 DEF InBuffers, InCalls
    <3> QED  BY <1>f, <1>c, <1>t, <1>p, <1>s, <1>z, <2>1, <2>2, <2>5, <3>4
  <2> QED  BY <1>6, <2>3, <2>4, <2>5 DEF WalAppend
<1>7. ASSUME NEW t \in Threads, Apply(t)  PROVE Goal
  <2>1. UNCHANGED <<file, entry_buf, page, next_id>>
    BY <1>7 DEF Apply, disk, twals, proc
  <2>2. PICK e : e = job[t].entry
    OBVIOUS
  <2>3. e.key \in Keys /\ e.id \in Ids /\ pc[t] # "idle"
    BY <1>a, <1>7, <2>2 DEF Apply, WalTypes, JobRecords, Entries
  <2>4. trie \in [Keys -> Seq(Ids)] /\ trie' = [trie EXCEPT ![e.key] = <<e.id>> \o trie[e.key]]
    BY <1>7, <2>2 DEF Apply, IInv, ProcTypes
  <2>5. <<e.id>> \in Seq(Ids) /\ trie[e.key] \in Seq(Ids) /\ \A j \in 1 .. Len(<<e.id>>) : <<e.id>>[j] = e.id
    BY <2>3, <2>4
  <2>6. Joins(<<e.id>> \o trie[e.key], <<e.id>>, trie[e.key])
    BY <2>5, LongerAppend
  <2>7. \A l \in 1 .. Len(trie'[e.key]) : trie'[e.key][l] = e.id \/ \E j \in 1 .. Len(trie[e.key]) : trie'[e.key][l] = trie[e.key][j]
    BY <2>3, <2>4, <2>5, <2>6, SMTT(60) DEF Joins
  <2>8. \A x \in Keys : x # e.key => trie'[x] = trie[x]
    BY <2>3, <2>4
  <2>9. InTrie(i, k)' => InTrie(i, k) \/ InCalls(i, k)
    BY <2>2, <2>3, <2>7, <2>8 DEF InTrie, InCalls, Is
  <2>10. \A v \in Threads : pc'[v] # "idle" => pc[v] # "idle" /\ job'[v] = job[v]
    BY <1>a, <1>7, Constants DEF Apply, Goto, WalTypes
  <2>11. InCalls(i, k)' => InCalls(i, k)
    BY <2>10 DEF InCalls
  <2> QED  BY <1>f, <1>b, <1>p, <1>s, <1>z, <2>1, <2>9, <2>11
<1>8. ASSUME NEW t \in Threads, TimerFire(t)  PROVE Goal
  <2>1. UNCHANGED <<job, trie, page, next_id>>
    BY <1>8 DEF TimerFire, proc, mem, cmp
  <2>2. \A v \in Threads : pc'[v] # "idle" => pc[v] # "idle"
    BY <1>8 DEF TimerFire
  <2>3. /\ Flush(t, <<>>, mode = "DEBOUNCED") /\ <<>> \in Seq(Entries) /\ (mode = "DEBOUNCED") \in BOOLEAN
        /\ pc[t] # "reopen" /\ \A l \in 1 .. Len(<<>>) : FALSE
    BY <1>8 DEF TimerFire, LockFree
  <2>4. /\ InFiles(i, k)' => InFiles(i, k) \/ InBuffers(i, k) \/ InCalls(i, k)
        /\ InBuffers(i, k)' => InBuffers(i, k)
    BY <2>3, FlushSeen
  <2> QED  BY <1>c, <1>t, <1>p, <1>s, <1>z, <2>1, <2>2, <2>4
<1>9. ASSUME NEW t \in Threads, CompactMerge(t)  PROVE Goal
  <2>1. UNCHANGED <<entry_buf, job, trie, page, next_id>>
    BY <1>9 DEF CompactMerge, Goto, proc, mem, twals, history
  <2>2. \A v \in Threads : pc'[v] # "idle" => pc[v] # "idle"
    BY <1>a, <1>9, Constants DEF CompactMerge, Goto, WalTypes
  <2>3. PICK g : g = <<Nobody, now>>
    OBVIOUS
  <2>4. FilesOK(file) /\ ProcTypes /\ OneKey
    BY DEF IInv, DiskTypes
  <2>5. /\ DOMAIN file' = DOMAIN file \cup {g} /\ \A n \in DOMAIN file \ {g} : file'[n] = file[n]
        /\ \A j \in 1 .. Len(file'[g].data) :
             \E n \in DOMAIN file : \E l \in 1 .. Len(file[n].data) : file'[g].data[j] = file[n].data[l]
    BY <1>a, <1>9, <2>3, <2>4, MergeEffect
  <2>6. \A m \in DOMAIN file' : \A j \in 1 .. Len(file'[m].data) :
          \E n \in DOMAIN file : \E l \in 1 .. Len(file[n].data) : file'[m].data[j] = file[n].data[l]
    BY <2>5
  <2>7. InFiles(i, k)' => InFiles(i, k)
    BY <2>6 DEF InFiles
  <2> QED  BY <1>b, <1>c, <1>t, <1>p, <1>s, <1>z, <2>1, <2>2, <2>7
<1>10. ASSUME NEW t \in Threads, Recheck(t)  PROVE Goal
  <2>1. UNCHANGED <<file, entry_buf, job, trie, page, next_id>>
    BY <1>10 DEF Recheck, Goto, disk, proc, mem, twals, cmp, history
  <2>2. \A v \in Threads : pc'[v] # "idle" => pc[v] # "idle"
    <3>1. PICK x : pc' = [pc EXCEPT ![t] = x] /\ pc[t] # "idle"
      BY <1>10 DEF Recheck, Goto
    <3> QED  BY <1>a, <3>1, Constants DEF WalTypes
  <2> QED  BY <1>f, <1>b, <1>c, <1>t, <1>p, <1>s, <1>z, <2>1, <2>2
<1>11. ASSUME NEW a \in Actors, CompactRead(a)  PROVE Goal
  <2>1. UNCHANGED <<file, entry_buf, job, trie, page, next_id>>
    BY <1>11 DEF CompactRead, Goto, disk, proc, mem, twals, history
  <2>2. \A v \in Threads : pc'[v] # "idle" => pc[v] # "idle"
    <3>1. PICK x : pc' = [pc EXCEPT ![a] = x] /\ pc[a] # "idle"
      BY <1>11 DEF CompactRead, Goto
    <3> QED  BY <1>a, <3>1, Constants DEF WalTypes
  <2> QED  BY <1>f, <1>b, <1>c, <1>t, <1>p, <1>s, <1>z, <2>1, <2>2
<1>12. ASSUME NEW a \in Actors, CompactMark(a)  PROVE Goal
  <2>1. UNCHANGED <<file, entry_buf, job, trie, page, next_id>>
    BY <1>12 DEF CompactMark, Goto, proc, mem, twals, history
  <2>2. \A v \in Threads : pc'[v] # "idle" => pc[v] # "idle"
    <3>1. PICK x : pc' = [pc EXCEPT ![a] = x] /\ pc[a] # "idle"
      BY <1>12 DEF CompactMark, Goto
    <3> QED  BY <1>a, <3>1, Constants DEF WalTypes
  <2> QED  BY <1>f, <1>b, <1>c, <1>t, <1>p, <1>s, <1>z, <2>1, <2>2
<1>13. ASSUME NEW a \in Actors, CompactUnlink(a)  PROVE Goal
  <2>1. UNCHANGED <<entry_buf, job, trie, page, next_id>>
    BY <1>13 DEF CompactUnlink, Goto, proc, mem
  <2>2. \A v \in Threads : pc'[v] # "idle" => pc[v] # "idle"
    <3>1. PICK x : pc' = [pc EXCEPT ![a] = x] /\ pc[a] # "idle"
      BY <1>13 DEF CompactUnlink, Goto
    <3> QED  BY <1>a, <3>1, Constants DEF WalTypes
  <2>3. \A m \in DOMAIN file' : m \in DOMAIN file /\ file'[m] = file[m]
    BY <1>13 DEF CompactUnlink
  <2>4. InFiles(i, k)' => InFiles(i, k)
    BY <2>3 DEF InFiles
  <2> QED  BY <1>b, <1>c, <1>t, <1>p, <1>s, <1>z, <2>1, <2>2, <2>4
<1>14. ASSUME StartSnapshot  PROVE Goal
  <2>1. UNCHANGED <<file, entry_buf, job, trie, page, next_id>>
    BY <1>14 DEF StartSnapshot, Goto, disk, mem, twals, history
  <2>2. \A v \in Threads : pc'[v] # "idle" => pc[v] # "idle"
    BY <1>a, <1>14, Constants DEF StartSnapshot, Goto, WalTypes
  <2> QED  BY <1>f, <1>b, <1>c, <1>t, <1>p, <1>s, <1>z, <2>1, <2>2
<1>15. ASSUME StartDestroy  PROVE Goal
  <2>1. UNCHANGED <<file, entry_buf, job, trie, page, next_id>>
    BY <1>15 DEF StartDestroy, Goto, disk, proc, mem, twals, history
  <2>2. \A v \in Threads : pc'[v] # "idle" => pc[v] # "idle"
    BY <1>a, <1>15, Constants DEF StartDestroy, Goto, WalTypes
  <2> QED  BY <1>f, <1>b, <1>c, <1>t, <1>p, <1>s, <1>z, <2>1, <2>2
<1>16. ASSUME FlushOne  PROVE Goal
  <2>1. UNCHANGED <<job, trie, page, next_id>>
    BY <1>16 DEF FlushOne, proc, mem
  <2>2. \A v \in Threads : pc'[v] # "idle" => pc[v] # "idle"
    BY <1>16 DEF FlushOne
  <2>3. PICK t \in Threads : t = threads[at[Owner]]
    BY <1>16, AtThread DEF FlushOne
  <2>4. Flush(t, <<>>, TRUE) /\ pc[t] # "reopen"
    BY <1>16, <2>3 DEF FlushOne, LockFree
  <2>6. <<>> \in Seq(Entries) /\ TRUE \in BOOLEAN /\ \A l \in 1 .. Len(<<>>) : FALSE
    OBVIOUS
  <2>5. /\ InFiles(i, k)' => InFiles(i, k) \/ InBuffers(i, k) \/ InCalls(i, k)
        /\ InBuffers(i, k)' => InBuffers(i, k)
    BY <2>4, <2>6, FlushSeen
  <2> QED  BY <1>c, <1>t, <1>p, <1>s, <1>z, <2>1, <2>2, <2>5
<1>17. ASSUME FlushEnd  PROVE Goal
  <2>1. UNCHANGED <<file, entry_buf, job, trie, page, next_id>>
    BY <1>17 DEF FlushEnd, Goto, disk, proc, mem, twals, cmp, history
  <2>2. \A v \in Threads : pc'[v] # "idle" => pc[v] # "idle"
    <3>1. PICK x : pc' = [pc EXCEPT ![Owner] = x] /\ pc[Owner] # "idle"
      BY <1>17 DEF FlushEnd, Goto
    <3> QED  BY <1>a, <3>1, Constants DEF WalTypes
  <2> QED  BY <1>f, <1>b, <1>c, <1>t, <1>p, <1>s, <1>z, <2>1, <2>2
<1>18. ASSUME Persist  PROVE Goal
  <2>1. UNCHANGED <<file, entry_buf, job, trie, next_id>>
    BY <1>18 DEF Persist, Goto, proc, mem, twals, history
  <2>2. \A v \in Threads : pc'[v] # "idle" => pc[v] # "idle"
    <3>1. PICK x : pc' = [pc EXCEPT ![Owner] = x] /\ pc[Owner] # "idle"
      BY <1>18 DEF Persist, Goto
    <3> QED  BY <1>a, <3>1, Constants DEF WalTypes
  <2>3. page'.chain = trie
    BY <1>18 DEF Persist
  <2>4. InPage(i, k)' => InTrie(i, k)
    BY <2>3 DEF InPage, InTrie
  <2> QED  BY <1>f, <1>b, <1>c, <1>t, <1>s, <1>z, <2>1, <2>2, <2>4
<1>19. ASSUME SealOne  PROVE Goal
  <2>1. UNCHANGED <<file, entry_buf, job, trie, page, next_id>>
    BY <1>19 DEF SealOne, proc, mem, history
  <2>2. \A v \in Threads : pc'[v] # "idle" => pc[v] # "idle"
    BY <1>19 DEF SealOne
  <2> QED  BY <1>f, <1>b, <1>c, <1>t, <1>p, <1>s, <1>z, <2>1, <2>2
<1>20. ASSUME SealEnd  PROVE Goal
  <2>1. UNCHANGED <<file, entry_buf, job, trie, page, next_id>>
    BY <1>20 DEF SealEnd, Goto, disk, proc, mem, twals, cmp, history
  <2>2. \A v \in Threads : pc'[v] # "idle" => pc[v] # "idle"
    BY <1>a, <1>20, Constants DEF SealEnd, Goto, WalTypes
  <2> QED  BY <1>f, <1>b, <1>c, <1>t, <1>p, <1>s, <1>z, <2>1, <2>2
<1>21. ASSUME Closed  PROVE Goal
  <2>1. UNCHANGED <<page, next_id>>
    BY <1>21 DEF Closed, disk
  <2>2. /\ \A v \in Threads : pc'[v] = "idle" /\ entry_buf'[v] = <<>>
        /\ trie'[k] = <<>>
    BY <1>21, Constants DEF Closed, Stop
  <2>3. ~ InCalls(i, k)' /\ ~ InBuffers(i, k)' /\ ~ InTrie(i, k)'
    BY <2>2 DEF InCalls, InBuffers, InTrie
  <2>4. file' = file
    BY <1>21 DEF Closed, disk
  <2> QED  BY <1>f, <1>p, <1>s, <1>z, <2>1, <2>3, <2>4
<1>22. ASSUME Tick  PROVE Goal
  <2>1. UNCHANGED <<file, entry_buf, job, trie, page, next_id>>
    BY <1>22 DEF Tick, disk, mem, twals, cmp, history
  <2>2. \A v \in Threads : pc'[v] # "idle" => pc[v] # "idle"
    BY <1>22 DEF Tick
  <2> QED  BY <1>f, <1>b, <1>c, <1>t, <1>p, <1>s, <1>z, <2>1, <2>2
<1>23. ASSUME Crash  PROVE Goal
  <2>1. UNCHANGED <<page, next_id>>
    BY <1>23 DEF Crash, disk
  <2>2. /\ \A v \in Threads : pc'[v] = "idle" /\ entry_buf'[v] = <<>>
        /\ trie'[k] = <<>>
    BY <1>23, Constants DEF Crash, Stop
  <2>3. ~ InCalls(i, k)' /\ ~ InBuffers(i, k)' /\ ~ InTrie(i, k)'
    BY <2>2 DEF InCalls, InBuffers, InTrie
  <2>4. FilesOK(file)
    BY DEF IInv, DiskTypes
  <2>5. CASE file' \in Survivors
    <3>1. /\ DOMAIN file' = DOMAIN file
          /\ \A n \in DOMAIN file : /\ Len(file'[n].data) <= Len(file[n].data)
                                    /\ \A j \in 1 .. Len(file'[n].data) : file'[n].data[j] = file[n].data[j]
          /\ FilesOK(file')
      BY <2>4, <2>5, SurvivorEffect
    <3>2. \A n \in DOMAIN file' : Len(file[n].data) \in Nat /\ Len(file'[n].data) \in Nat
      BY <2>4, <3>1 DEF FilesOK, Files
    <3>3. \A n \in DOMAIN file' : \A j \in 1 .. Len(file'[n].data) : j \in 1 .. Len(file[n].data)
      BY <3>1, <3>2
    <3>4. InFiles(i, k)' => InFiles(i, k)
      BY <3>1, <3>3 DEF InFiles
    <3> QED  BY <1>p, <1>s, <1>z, <2>1, <2>3, <3>4
  <2>6. CASE file' = file
    BY <1>f, <1>p, <1>s, <1>z, <2>1, <2>3, <2>6
  <2> QED  BY <1>23, <2>5, <2>6 DEF Crash
<1>24. ASSUME Recover  PROVE Goal
  <2>1. UNCHANGED <<file, entry_buf, job, page, next_id, pc>>
    BY <1>24 DEF Recover, disk, twals
  <2>2. InTrie(i, k)' => InFiles(i, k) \/ InPage(i, k)
    BY <1>24, RecoverSeen
  <2> QED  BY <1>f, <1>b, <1>c, <1>p, <1>s, <1>z, <2>1, <2>2
<1>25. ASSUME UNCHANGED vars  PROVE Goal
  BY <1>f, <1>b, <1>c, <1>t, <1>p, <1>s, <1>z, <1>25 DEF vars, disk, proc, mem, twals
<1> QED  BY <1>1, <1>2, <1>3, <1>4, <1>5, <1>6, <1>7, <1>8, <1>9, <1>10, <1>11, <1>12, <1>13, <1>14, <1>15, <1>16, <1>17, <1>18, <1>19, <1>20, <1>21, <1>22, <1>23, <1>24, <1>25 DEF Next, ThreadStep, OwnerStep, Goal

\* An ID stays with the write and the key that it was drawn for.
LEMMA OneKeyStep ==
  ASSUME IInv, [Next]_vars
  PROVE  OneKey'
<1>1. ASSUME NEW i \in Ids, NEW k \in Keys, Seen(i, k)'
      PROVE  i < next_id' /\ (Seen(i, k) \/ (i = next_id /\ \E t \in Threads : StartPut(t) /\ job'[t].entry.key = k))
  <2>0. next_id' = next_id \/ next_id' = next_id + 1
    BY SeenStep, Zenon
  <2>1. next_id' \in {next_id, next_id + 1} /\ next_id \in Nat /\ i \in Nat
    BY <2>0 DEF IInv, ProcTypes, Ids
  <2>2. Seen(i, k) \/ (i = next_id /\ \E t \in Threads : StartPut(t) /\ job'[t].entry.key = k)
    BY <1>1, SeenStep
  <2>3. CASE Seen(i, k)
    <3>1. i < next_id
      BY <2>3 DEF IInv, OneKey
    <3> QED  BY <2>1, <2>3, <3>1
  <2>4. CASE i = next_id /\ \E t \in Threads : StartPut(t) /\ job'[t].entry.key = k
    <3>1. next_id' = next_id + 1
      BY <2>4 DEF StartPut
    <3> QED  BY <2>1, <2>4, <3>1
  <2> QED  BY <2>2, <2>3, <2>4
<1>2. ASSUME NEW i \in Ids, NEW k \in Keys, Seen(i, k)', NEW l \in Keys, Seen(i, l)'  PROVE k = l
  <2>1. CASE Seen(i, k)
    <3>1. i < next_id /\ next_id \in Nat
      BY <2>1 DEF IInv, OneKey, ProcTypes
    <3>2. Seen(i, l)
      BY <1>1, <1>2, <3>1
    <3> QED  BY <2>1, <3>2 DEF IInv, OneKey
  <2>2. CASE ~ Seen(i, k)
    <3>1. PICK t \in Threads : StartPut(t) /\ job'[t].entry.key = k
      BY <1>1, <1>2, <2>2
    <3>2. i = next_id /\ ~ Seen(i, l)
      BY <1>1, <1>2, <2>2 DEF IInv, OneKey, ProcTypes, Ids
    <3>3. PICK u \in Threads : StartPut(u) /\ job'[u].entry.key = l
      BY <1>1, <1>2, <3>2
    <3>4. t = u
      <4>1. pc'[t] = "get" /\ pc'[u] = "get" /\ (t # u => pc'[u] = pc[u])
        BY <3>1, <3>3, Constants DEF StartPut, Goto, IInv, WalTypes
      <4>2. pc[u] = "idle"
        BY <3>3 DEF StartPut
      <4> QED  BY <4>1, <4>2
    <3> QED  BY <3>1, <3>3, <3>4
  <2> QED  BY <2>1, <2>2
<1> QED  BY <1>1, <1>2 DEF OneKey

(***************************************************************************)
(* The theorems.                                                           *)
(***************************************************************************)

\* The invariant holds when the database is created,
LEMMA InitInv ==
  ASSUME Init
  PROVE  IInv
<1>1. DiskTypes
  BY DEF Init, DiskTypes, FilesOK, Files
<1>2. ProcTypes
  BY WalManagerAssumption, Constants DEF Init, ProcTypes, Seconds, Destroying, Late
<1>3. WalTypes
  <2>1. \A S : <<>> \in Seq(S)
    OBVIOUS
  <2>2. /\ threads \in Seq(Threads) /\ entry_buf \in [Threads -> Seq(Entries)] /\ list \in [Actors -> Seq(Names)]
    BY <2>1 DEF Init
  <2>3. /\ cur \in [Threads -> Names \cup {NoFile}] /\ orphan \in [Threads -> BOOLEAN]
        /\ timer_active \in [Threads -> BOOLEAN] /\ acked \in [Threads -> SUBSET Ids]
        /\ promised \subseteq Ids /\ dropped \in BOOLEAN
    BY DEF Init
  <2>4. newest \in [Threads -> 0 .. MaxSecond] /\ at \in [Actors -> Nat]
    BY Constants DEF Init
  <2>5. /\ DOMAIN pc = Actors /\ pc[Owner] \in OwnerLabels /\ DOMAIN job = Threads
        /\ \A t \in Threads : pc[t] = "idle" /\ pc[t] \in ThreadLabels
    BY Constants DEF Init, OwnerLabels, ThreadLabels
  <2> QED  BY <2>2, <2>3, <2>4, <2>5 DEF WalTypes
<1>4. manifest = <<>> /\ threads = <<>> /\ file = <<>> /\ promised = {} /\ phase = "up"
  BY DEF Init
<1>5. \A t \in Threads : pc[t] = "idle" /\ cur[t] = NoFile /\ ~ orphan[t] /\ acked[t] = {} /\ entry_buf[t] = <<>>
  BY Constants DEF Init
<1>6. pc[Owner] = "idle"
  BY Constants DEF Init
<1>7. \A n : ~ Recorded(n)
  BY <1>4 DEF Recorded
<1>8. Calls /\ Descriptors /\ Registered /\ NamesKnown
  BY <1>4, <1>5, <1>6, <1>7 DEF Calls, Descriptors, Registered, NamesKnown, Late
<1>9. Lists /\ Moved /\ AckedReached /\ LoggedReached /\ PromisedKept
  BY <1>4, <1>5, <1>6 DEF Lists, Moved, AckedReached, LoggedReached, PromisedKept
<1>10. Memory
  <2>1. \A i : ~ OnPage(i)
    BY DEF Init, OnPage
  <2> QED  BY <1>4, <1>5, <1>6, <2>1 DEF Memory, Destroy, Destroying, Late
<1>11. OneKey
  <2>1. ASSUME NEW i, NEW k \in Keys  PROVE ~ Seen(i, k)
    <3>1. ~ InFiles(i, k) /\ ~ InBuffers(i, k) /\ ~ InCalls(i, k)
      BY <1>4, <1>5 DEF InFiles, InBuffers, InCalls
    <3>2. ~ InTrie(i, k) /\ ~ InPage(i, k)
      BY DEF Init, InTrie, InPage
    <3> QED  BY <3>1, <3>2 DEF Seen
  <2> QED  BY <2>1 DEF OneKey
<1> QED  BY <1>1, <1>2, <1>3, <1>8, <1>9, <1>10, <1>11 DEF IInv

\* A name that has been used twice stays so.
LEMMA ReusedStays ==
  ASSUME [Next]_vars, reused
  PROVE  reused'
<1>1. ASSUME NEW t \in Threads, ThreadStep(t)  PROVE reused'
  BY <1>1 DEF ThreadStep, StartPut, GetThreadWal, MakeRoom, Seal, Reopen, WalAppend, Apply, TimerFire,
              CompactMerge, Recheck, Reuse, history
<1>2. ASSUME NEW a \in Actors, CompactRead(a) \/ CompactMark(a) \/ CompactUnlink(a)  PROVE reused'
  BY <1>2 DEF CompactRead, CompactMark, CompactUnlink, history
<1>3. ASSUME OwnerStep  PROVE reused'
  BY <1>3 DEF OwnerStep, StartSnapshot, StartDestroy, FlushOne, FlushEnd, Persist, SealOne, SealEnd,
              Closed, history
<1>4. ASSUME Tick \/ Crash \/ Recover \/ UNCHANGED vars  PROVE reused'
  BY <1>4 DEF Tick, Crash, Recover, vars, history
<1> QED  BY <1>1, <1>2, <1>3, <1>4 DEF Next

\* and every step keeps it that opens no file under a known name.
LEMMA Invariance == Spec => [](~reused => IInv)
<1> DEFINE Inv == ~reused => IInv
<1>1. Init => Inv
  BY InitInv
<1>2. Inv /\ [Next]_vars => Inv'
  <2> SUFFICES ASSUME Inv, [Next]_vars, ~reused'  PROVE IInv'
    OBVIOUS
  <2>0. IInv
    BY ReusedStays
  <2> HIDE DEF Inv
  <2>1. DiskTypes' /\ ProcTypes' /\ WalTypes'
    BY <2>0, DiskStep, ProcStep, WalStep
  <2>2. Calls' /\ Descriptors' /\ Registered' /\ NamesKnown' /\ Lists'
    BY <2>0, CallsStep, DescriptorsStep, RegisteredStep, NamesStep, ListsStep
  <2>3. Moved' /\ AckedReached' /\ LoggedReached' /\ PromisedKept'
    BY <2>0, MovedStep, AckedStep, LoggedStep, PromisedStep
  <2>4. Memory' /\ OneKey'
    BY <2>0, MemoryStep, OneKeyStep
  <2> QED  BY <2>1, <2>2, <2>3, <2>4 DEF IInv
<1> QED  BY <1>1, <1>2, PTL DEF Spec

\* What is kept can be recovered.
LEMMA KeptIsDurable ==
  ASSUME IInv
  PROVE  Durable
<1> SUFFICES ASSUME NEW i \in promised  PROVE i \in InCheckpoint \cup InLog
  BY DEF Durable
<1>1. InLiveLog(i) \/ OnPage(i)
  BY DEF IInv, PromisedKept, Kept
<1>2. CASE InLiveLog(i)
  <2>1. PICK n \in DOMAIN file : InSynced(i, n) /\ Readable(n)
    BY <1>2 DEF InLiveLog
  <2>2. file[n].data \in Seq(Entries) /\ file[n].synced \in Nat /\ file[n].synced <= Len(file[n].data)
    BY <2>1 DEF IInv, DiskTypes, FilesOK, Files
  <2>3. PICK j \in 1 .. file[n].synced : file[n].data[j].id = i
    BY <2>1 DEF InSynced, Holds
  <2> DEFINE s == SubSeq(file[n].data, 1, file[n].synced)
  <2>4. Len(s) = file[n].synced /\ s[j] = file[n].data[j]
    BY <2>2, <2>3
  <2>5. i \in IdsOf(s)
    BY <2>3, <2>4 DEF IdsOf
  <2> QED  BY <2>1, <2>5, ReadableRead DEF InLog
<1>3. CASE OnPage(i)
  <2>1. PICK k \in Keys : \E j \in 1 .. Len(page.chain[k]) : page.chain[k][j] = i
    BY <1>3 DEF OnPage
  <2>2. page.chain[k] \in Seq(Ids)
    BY <2>1 DEF IInv, DiskTypes
  <2>3. i \in ToSet(page.chain[k])
    BY <2>1, <2>2 DEF ToSet
  <2> QED  BY <2>1, <2>3 DEF InCheckpoint
<1> QED  BY <1>1, <1>2, <1>3

\* A write that an fsync of the log has made safe stays recoverable through every
\* rotation, compaction, snapshot, destroy, crash and power failure, for every number of
\* threads, files and lives, unless get_thread_wal, thread_wal_rotate or
\* compact_wal_files opens a file under a name that is in the manifest already: a safe
\* write is lost in no other way.
THEOREM SafeWritesStay == Spec => [](~reused => Durable)
<1>1. IInv => Durable
  BY KeptIsDurable
<1> QED  BY <1>1, Invariance, PTL

\* What a reader finds behind the newest version of a chain.
LEMMA VisibleFirst ==
  ASSUME NEW c \in Seq(Ids), c # <<>>, NEW p \in Int, c[1] <= p
  PROVE  Visible(c, p) = c[1]
<1>1. c[1] \in Int /\ 1 \in 1 .. Len(c) /\ Len(c) \in Nat
  <2>1. 1 \in 1 .. Len(c) /\ Len(c) \in Nat
    OBVIOUS
  <2>2. c[1] \in Ids
    BY <2>1
  <2> QED  BY <2>1, <2>2 DEF Ids
<1>2. ~ \A i \in 1 .. Len(c) : c[i] > p
  BY <1>1
<1> DEFINE P(i) == c[i] <= p /\ \A j \in 1 .. (i - 1) : c[j] > p
           f == CHOOSE i \in 1 .. Len(c) : P(i)
<1>3. P(1)
  OBVIOUS
<1>4. f \in 1 .. Len(c) /\ P(f)
  <2> HIDE DEF P
  <2> QED  BY <1>1, <1>3
<1>5. f = 1
  <2> HIDE DEF f
  <2>1. f # 1 => 1 \in 1 .. (f - 1)
    BY <1>1, <1>4
  <2> QED  BY <1>1, <1>4, <2>1
<1>6. Visible(c, p) = IF Len(c) = 1 THEN c[1] ELSE c[f]
  BY <1>2 DEF Visible
<1> HIDE DEF f
<1> QED  BY <1>5, <1>6

\* Replay puts the safe write, or a newer one of its key, in front.
LEMMA RecoverNewest ==
  ASSUME IInv, Recover, ~ dropped, NEW k \in Keys, NEW i \in promised, InTrie(i, k)'
  PROVE  Visible(trie'[k], last_committed') >= i
<1> DEFINE es == UNION {ToSet(file[n].data) : n \in RecoveryReads}
           ids == {e.id : e \in {x \in es : x.key = k}}
           all == {e.id : e \in es}
<1>1. \A n \in RecoveryReads : n \in DOMAIN file /\ file[n].data \in Seq(Entries)
  BY DEF IInv, DiskTypes, FilesOK, Files, RecoveryReads
<1>2. es \subseteq Entries /\ \A n \in RecoveryReads : \A j \in 1 .. Len(file[n].data) : file[n].data[j] \in es
  BY <1>1 DEF ToSet
<1>3. /\ trie'[k] = Replayed(k, es) /\ page.chain[k] \in Seq(Ids)
      /\ last_committed' = IF es = {} THEN page.last ELSE CHOOSE x \in all : \A e \in es : e.id <= x
  BY DEF Recover, IInv, DiskTypes
<1>4. i \in ids /\ i \in Ids
  <2>1. i \in Ids /\ InLiveLog(i)
    BY DEF IInv, WalTypes, PromisedKept, Kept
  <2>2. PICK n \in DOMAIN file : InSynced(i, n) /\ Readable(n)
    BY <2>1 DEF InLiveLog
  <2>3. InData(i, n)
    BY <2>2, SyncedInData DEF IInv, DiskTypes
  <2>4. PICK j \in 1 .. Len(file[n].data) : file[n].data[j].id = i
    BY <2>3 DEF InData, Holds
  <2>5. PICK e \in es : e = file[n].data[j]
    BY <1>2, <2>2, <2>4, ReadableRead
  <2>6. e.key \in Keys
    BY <1>2, <2>5 DEF Entries
  <2>7. Seen(i, e.key)
    BY <2>2, <2>4, <2>5 DEF Seen, InFiles, Is
  <2>8. Seen(i, k)
    BY RecoverSeen DEF Seen
  <2>9. e.key = k
    BY <2>1, <2>6, <2>7, <2>8 DEF IInv, OneKey
  <2> QED  BY <2>1, <2>4, <2>5, <2>9
<1>5. all \subseteq Ids /\ ids \subseteq all
  BY <1>2 DEF Entries
<1> HIDE DEF es
<1>6. /\ trie'[k] \in Seq(Ids) /\ trie'[k] # <<>> /\ trie'[k][1] \in ids /\ i <= trie'[k][1]
  <2>1. LET r == Replayed(k, es)
            xs == {e.id : e \in {x \in es : x.key = k}}
        IN r \in Seq(Ids) /\ (xs # {} => r # <<>> /\ r[1] \in xs /\ \A x \in xs : x <= r[1])
    BY <1>2, <1>3, ReplayedSpec, Zenon
  <2> QED  BY <1>3, <1>4, <2>1
<1>7. last_committed' \in all /\ \A e \in es : e.id <= last_committed'
  <2>1. all # {} /\ es # {}
    BY <1>4, <1>5
  <2>2. all \subseteq Int /\ IsFiniteSet(all)
    <3>1. IsFiniteSet(Ids) /\ Ids \subseteq Int
      BY Constants, FS_Interval DEF Ids
    <3> HIDE DEF all
    <3> QED  BY <1>5, <3>1, FS_Subset
  <2> HIDE DEF all
  <2>3. PICK m \in all : \A x \in all : x <= m
    BY <2>1, <2>2, AscendingSpec
  <2>4. \A e \in es : e.id <= m
    BY <2>3 DEF all
  <2> QED  BY <1>3, <2>1, <2>3, <2>4
<1>8. trie'[k][1] <= last_committed' /\ last_committed' \in Int /\ trie'[k][1] \in Int /\ i \in Int
  <2>1. \A x \in all : x <= last_committed'
    BY <1>7
  <2>2. \A x \in Ids : x \in Int
    BY DEF Ids
  <2> QED  BY <1>4, <1>5, <1>6, <1>7, <2>1, <2>2
<1>9. Visible(trie'[k], last_committed') = trie'[k][1]
  BY <1>6, <1>8, VisibleFirst
<1> QED  BY <1>6, <1>8, <1>9

\* In a behaviour that opens no file under a known name, and as long as no destroy has
\* dropped log files, recovery shows for each key the newest safe write of the key or
\* one that is newer still.
THEOREM NewestIsReplayed == Spec /\ []~reused => ReplayNewest
<1>1. IInv /\ [Next]_vars => [(phase = "down" /\ phase' = "up" /\ ~dropped) => RecoversNewest]_vars
  <2> SUFFICES ASSUME IInv, [Next]_vars, phase = "down", phase' = "up", ~dropped  PROVE RecoversNewest
    OBVIOUS
  <2>1. Recover
    BY PageFrame
  <2> SUFFICES ASSUME NEW k \in Keys, NEW i \in promised, i \in ToSet(trie'[k])
               PROVE  Visible(trie'[k], last_committed') >= i
    BY DEF RecoversNewest
  <2>2. trie'[k] \in Seq(Ids)
    BY ProcStep DEF ProcTypes
  <2>3. InTrie(i, k)'
    BY <2>2 DEF InTrie, ToSet
  <2> QED  BY <2>1, <2>3, RecoverNewest
<1> QED  BY <1>1, Invariance, PTL DEF Spec, ReplayNewest

\* Where there is a timer wheel, an entry in a buffer has a timer: thread_wal_write arms
\* it for the first entry, and it ends with the buffer.
THEOREM BuffersAreCovered == Spec => []BufferCovered
<1> DEFINE Buffers == DOMAIN entry_buf = Threads /\ DOMAIN timer_active = Threads
           BInv == Buffers /\ BufferCovered
<1>1. Init => BInv
  BY DEF Init, BufferCovered
<1>2. BInv /\ [Next]_vars => BInv'
  <2> SUFFICES ASSUME BInv, [Next]_vars  PROVE BInv'
    OBVIOUS
  <2>0. config' = config
    BY DEF Next, ThreadStep, OwnerStep, StartPut, GetThreadWal, MakeRoom, Seal, Reopen, WalAppend, Apply,
           TimerFire, CompactMerge, Recheck, CompactRead, CompactMark, CompactUnlink, StartSnapshot,
           StartDestroy, FlushOne, FlushEnd, Persist, SealOne, SealEnd, Closed, Tick, Crash, Recover,
           vars, proc
  <2>1. ASSUME entry_buf' = entry_buf, timer_active' = timer_active  PROVE BInv'
    BY <2>0, <2>1 DEF BufferCovered
  <2>2. ASSUME NEW t, entry_buf' = [entry_buf EXCEPT ![t] = <<>>],
               timer_active' = timer_active \/ timer_active' = [timer_active EXCEPT ![t] = FALSE]
        PROVE  BInv'
    <3>1. \A u \in Threads : u # t => entry_buf'[u] = entry_buf[u] /\ timer_active'[u] = timer_active[u]
      BY <2>2
    <3>2. t \in Threads => entry_buf'[t] = <<>>
      BY <2>2
    <3>3. Buffers'
      BY <2>2
    <3> QED  BY <2>0, <3>1, <3>2, <3>3 DEF BufferCovered
  <2>3. ASSUME NEW t \in Threads, WalAppend(t)  PROVE BInv'
    <3>1. CASE Flush(t, <<job[t].entry>>, mode = "IMMEDIATE" \/ (job[t].size = "direct" /\ mode = "DEBOUNCED"))
               /\ timer_active' = timer_active
      BY <2>2, <3>1 DEF Flush
    <3>2. CASE /\ entry_buf' = [entry_buf EXCEPT ![t] = Append(entry_buf[t], job[t].entry)]
               /\ timer_active' = [timer_active EXCEPT ![t] =
                                     timer_active[t] \/ (config.drain /\ Len(Append(entry_buf[t], job[t].entry)) = 1)]
      <4>1. Len(Append(<<>>, job[t].entry)) = 1
        OBVIOUS
      <4>2. config.drain => timer_active[t] \/ (config.drain /\ Len(Append(entry_buf[t], job[t].entry)) = 1)
        BY <4>1 DEF BufferCovered
      <4>3. config.drain => timer_active'[t]
        BY <3>2, <4>2, Zenon
      <4>4. \A u \in Threads : u # t => entry_buf'[u] = entry_buf[u] /\ timer_active'[u] = timer_active[u]
        BY <3>2
      <4>5. Buffers'
        BY <3>2
      <4> QED  BY <2>0, <4>3, <4>4, <4>5 DEF BufferCovered
    <3> QED  BY <2>3, <3>1, <3>2 DEF WalAppend
  <2>4. ASSUME NEW t \in Threads, StartPut(t) \/ GetThreadWal(t) \/ Seal(t) \/ Reopen(t) \/ Apply(t)
               \/ CompactMerge(t) \/ Recheck(t)
        PROVE  BInv'
    BY <2>1, <2>4 DEF StartPut, GetThreadWal, Seal, Reopen, Apply, CompactMerge, Recheck, twals
  <2>5. ASSUME NEW t \in Threads, MakeRoom(t) \/ TimerFire(t)  PROVE BInv'
    BY <2>1, <2>2, <2>5 DEF MakeRoom, TimerFire, Flush
  <2>6. ASSUME NEW a \in Actors, CompactRead(a) \/ CompactMark(a) \/ CompactUnlink(a)  PROVE BInv'
    BY <2>1, <2>6 DEF CompactRead, CompactMark, CompactUnlink, twals
  <2>7. CASE FlushOne
    BY <2>2, <2>7 DEF FlushOne, Flush
  <2>8. CASE StartSnapshot \/ StartDestroy \/ FlushEnd \/ Persist \/ SealOne \/ SealEnd \/ Tick \/ Recover
    BY <2>1, <2>8 DEF StartSnapshot, StartDestroy, FlushEnd, Persist, SealOne, SealEnd, Tick, Recover, twals
  <2>9. CASE Closed \/ Crash
    BY <2>9 DEF Closed, Crash, Stop, BufferCovered
  <2>10. CASE UNCHANGED vars
    BY <2>1, <2>10 DEF vars, twals
  <2> QED  BY <2>3, <2>4, <2>5, <2>6, <2>7, <2>8, <2>9, <2>10 DEF Next, ThreadStep, OwnerStep
<1>3. BInv => BufferCovered
  OBVIOUS
<1> QED  BY <1>1, <1>2, <1>3, PTL DEF Spec
=============================================================================
