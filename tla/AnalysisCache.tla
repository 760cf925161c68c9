--------------------------- MODULE AnalysisCache ---------------------------
(***************************************************************************)
(* The analysis cache: a memo in front of a SQLite table that a background *)
(* thread fills (src/analysis_cache.rs, src/analysis_cache/writer.rs).     *)
(*                                                                         *)
(* Analysis threads look a report up, analyse on a miss, and store.  A     *)
(* store charges a byte budget, hands the entry to the writer over a       *)
(* bounded channel and never waits; every so many stores it starts an      *)
(* eviction thread.  The writer persists batches and then gives the bytes  *)
(* back; the flush at the end of a command waits for the budget to reach   *)
(* zero.  The process may crash anywhere, and the database file may be     *)
(* found corrupt, which makes the finder delete and recreate it.           *)
(*                                                                         *)
(* One table is modelled: the report and the file-analysis table have the  *)
(* same code and share nothing but the budget, so a key stands for a kind, *)
(* a content hash, options and a traits revision.                          *)
(***************************************************************************)
EXTENDS Integers, Sequences, FiniteSets

CONSTANTS
    Threads,        \* analysis threads
    Keys,
    Paths,
    SamePath,       \* paths_equivalent / adopt_report_under, as pairs
    BytesOf,        \* length of the serialized report, by key and path
    MaxBytes,       \* MAX_BYTES of the writer
    MaxItemBytes,   \* MAX_ITEM_BYTES of the writer
    ChanCap,        \* capacity of the channel
    BatchCap,       \* entries of a batch
    MemoBudget,     \* CLEAVE_ANALYSIS_MEMO_MB
    MemoItem,       \* largest value the memo takes: a quarter of the budget
    MaxRows,        \* MAX_REPORT_ENTRIES
    RowTarget,      \* what an eviction goes down to
    ByteTarget,     \* nine tenths of MAX_TABLE_BYTES
    Interval,       \* EVICTION_CHECK_INTERVAL
    Inputs,         \* the keys and paths that analyses may have
    Jobs,           \* bound: analyses
    Boots,          \* bound: starts of a process
    Loads,          \* bound: rule loads after the first
    Files,          \* bound: database files ever created
    NoReport

Qualities == {"whole", "gap", "weak"}
Reports == [key : Keys, path : Paths, quality : Qualities]

ASSUME CacheAssumption ==
    /\ IsFiniteSet(Threads)
    /\ BytesOf \in [Keys \X Paths -> Nat \ {0}]
    /\ Inputs \subseteq Keys \X Paths
    /\ \A p \in Paths : <<p, p>> \in SamePath
    /\ {MaxBytes, MaxItemBytes, MemoBudget, MemoItem, MaxRows, RowTarget,
        ByteTarget, Jobs} \subseteq Nat
    /\ {ChanCap, BatchCap, Interval, Boots, Files} \subseteq Nat \ {0}
    /\ Loads \in Nat
    /\ MemoItem <= MemoBudget
    /\ RowTarget <= MaxRows
    /\ NoReport \notin Reports

VARIABLES
    pc,        \* where each analysis thread is
    job,       \* the report it looks for, makes or stores
    seen,      \* pending_bytes as its compare-and-swap loop last saw it
    found,     \* the row it read from the table
    answer,    \* what its last lookup returned, and to which question
    conn,      \* the file its connection is open on, 0: none
    pending,   \* pending_bytes
    chan,      \* entries sent and not received
    batch,     \* entries the writer holds
    wpc,       \* where the writer is
    wconn,     \* the file the writer's connection is open on, 0: none
    memo,      \* LruCache: the least recently used entry first
    memoBytes, \* Memo.bytes
    disk,      \* rows of each file, the least recently accessed first
    file,      \* the file at the database path
    bad,       \* that file is corrupt
    evict,     \* the eviction thread each thread has started
    evicting,  \* REPORT_EVICTING
    count,     \* REPORT_STORE_COUNT modulo the interval
    breaker,   \* YARA_SCANS_DISABLED_AFTER_PANIC
    loads,     \* rule loads so far
    phase,     \* "run", "flush", "over"
    late,      \* the flush ended at its deadline
    boots,     \* processes started so far
    left       \* analyses still to do

threadVars == <<pc, job, seen, found, answer, conn>>
writerVars == <<pending, chan, batch, wpc, wconn>>
memoVars == <<memo, memoBytes>>
fileVars == <<disk, file, bad>>
evictVars == <<evict, evicting, count>>
restVars == <<breaker, loads, phase, late, boots, left>>
vars == <<threadVars, writerVars, memoVars, fileVars, evictVars, restVars>>

Bytes(r) == BytesOf[<<r.key, r.path>>]
SatSub(a, b) == IF a >= b THEN a - b ELSE 0

\* What the reports f[i] weigh together, for i in I: a unit for each byte of each.
BytesAt(f, I) == Cardinality(UNION {{i} \X (1..Bytes(f[i])) : i \in I})
TotalBytes(s) == BytesAt(s, DOMAIN s)

Entries(s) == {s[i] : i \in DOMAIN s}
DropFirst(s, n) == SubSeq(s, n + 1, Len(s))

\* The entries of s at the positions I, in their order.
Pick(s, I) ==
    [n \in 1..Cardinality(I) |->
        s[CHOOSE i \in I : Cardinality({j \in I : j <= i}) = n]]

\* INSERT OR REPLACE, and LruCache::push: of the entries with a key the last one
\* written is left, at its place.
LastIn(s) == {i \in DOMAIN s : \A j \in DOMAIN s : j > i => s[j].key # s[i].key}
Latest(s) == Pick(s, LastIn(s))
Upsert(s, r) == Latest(Append(s, r))
RowsFor(s, k) == {r \in Entries(s) : r.key = k}

NoEviction == [at |-> "off", on |-> 0, rows |-> 0]
EvictSteps == {"off", "open", "count", "trim", "sum", "shrink"}
Answers == [to : Reports, is : Reports]
StoreSteps == {"reserve", "send", "count", "keep"}
ThreadSteps == {"idle", "memo", "conn", "repair", "read", "put", "scan", "store"}
               \cup StoreSteps

TypeOK ==
    /\ pc \in [Threads -> ThreadSteps]
    /\ job \in [Threads -> Reports \cup {NoReport}]
    /\ seen \in [Threads -> 0..MaxBytes]
    /\ found \in [Threads -> Reports \cup {NoReport}]
    /\ answer \in [Threads -> Answers \cup {NoReport}]
    /\ conn \in [Threads -> 0..Files]
    /\ pending \in 0..MaxBytes
    /\ chan \in Seq(Reports) /\ Len(chan) <= ChanCap
    /\ batch \in Seq(Reports) /\ Len(batch) <= BatchCap
    /\ wpc \in {"recv", "persist", "release"}
    /\ wconn \in 0..Files
    /\ memo \in Seq(Reports)
    /\ memoBytes \in Nat
    /\ disk \in [1..Files -> Seq(Reports)]
    /\ file \in 1..Files
    /\ bad \in BOOLEAN
    /\ evict \in [Threads -> [at : EvictSteps, on : 0..Files, rows : Nat]]
    /\ evicting \in BOOLEAN
    /\ count \in 0..(Interval - 1)
    /\ breaker \in BOOLEAN
    /\ loads \in 0..Loads
    /\ phase \in {"run", "flush", "over"}
    /\ late \in BOOLEAN
    /\ boots \in 1..Boots
    /\ left \in 0..Jobs

\* A process may find the file corrupt.  The bound on files leaves room for a
\* repair by every thread.
FoundBad(f) == IF f + Cardinality(Threads) <= Files THEN BOOLEAN ELSE {FALSE}

Init ==
    /\ pc = [t \in Threads |-> "idle"]
    /\ job = [t \in Threads |-> NoReport]
    /\ seen = [t \in Threads |-> 0]
    /\ found = [t \in Threads |-> NoReport]
    /\ answer = [t \in Threads |-> NoReport]
    /\ conn = [t \in Threads |-> 0]
    /\ pending = 0
    /\ chan = <<>>
    /\ batch = <<>>
    /\ wpc = "recv"
    /\ wconn = 0
    /\ memo = <<>>
    /\ memoBytes = 0
    /\ evict = [t \in Threads |-> NoEviction]
    /\ evicting = FALSE
    /\ count = 0
    /\ breaker = FALSE
    /\ phase = "run"
    /\ late = FALSE
    /\ disk = [f \in 1..Files |-> <<>>]
    /\ file = 1
    /\ bad \in FoundBad(1)
    /\ loads = 0
    /\ boots = 1
    /\ left = Jobs

Goto(t, l) == pc' = [pc EXCEPT ![t] = l]

-----------------------------------------------------------------------------
(* The memo.                                                               *)

\* Memo::insert.  The loop pops the oldest entries by the counter, not by
\* what the memo really holds.
MemoInsert(r) ==
    IF Bytes(r) > MemoItem
    THEN UNCHANGED memoVars
    ELSE LET old == RowsFor(memo, r.key)
             pushed == Upsert(memo, r)
             bytes == (IF old = {} THEN memoBytes
                       ELSE SatSub(memoBytes, Bytes(CHOOSE o \in old : TRUE)))
                      + Bytes(r)
             After(n) == SatSub(bytes, BytesAt(pushed, 1..n))
             popped == CHOOSE n \in 0..Len(pushed) :
                          /\ n = Len(pushed) \/ After(n) <= MemoBudget
                          /\ \A m \in 0..(n - 1) : After(m) > MemoBudget
         IN /\ memo' = DropFirst(pushed, popped)
            /\ memoBytes' = After(popped)

\* Mutant: any report of the same bytes will do.
AdoptableAnywhere(r, t) == TRUE

\* cached_report_under: a hit only under a path the rules cannot tell apart.
Adoptable(r, t) == <<r.path, job[t].path>> \in SamePath

\* Ends the lookup of t: with r if it may be adopted, else with a miss, which
\* is followed by the analysis.
Answer(t, r) ==
    IF Adoptable(r, t)
    THEN /\ answer' = [answer EXCEPT ![t] = [to |-> job[t], is |-> r]]
         /\ job' = [job EXCEPT ![t] = NoReport]
         /\ Goto(t, "idle")
    ELSE /\ answer' = [answer EXCEPT ![t] = NoReport]
         /\ Goto(t, "scan")
         /\ UNCHANGED job

Missed(t) ==
    /\ answer' = [answer EXCEPT ![t] = NoReport]
    /\ Goto(t, "scan")

-----------------------------------------------------------------------------
(* A lookup: the memo, then the table.                                     *)

Begin(t) ==
    /\ pc[t] = "idle" /\ phase = "run" /\ left > 0
    /\ \E i \in Inputs :
          job' = [job EXCEPT ![t] = [key |-> i[1], path |-> i[2], quality |-> "whole"]]
    /\ left' = left - 1
    /\ answer' = [answer EXCEPT ![t] = NoReport]
    /\ Goto(t, "memo")
    /\ UNCHANGED <<seen, found, conn, writerVars, memoVars, fileVars,
                   evictVars, breaker, loads, phase, late, boots>>

\* memo::get makes the entry the youngest.
LookupMemo(t) ==
    /\ pc[t] = "memo"
    /\ LET hits == RowsFor(memo, job[t].key)
       IN IF hits = {}
          THEN /\ Goto(t, IF conn[t] = 0 THEN "conn" ELSE "read")
               /\ UNCHANGED <<job, answer, memo>>
          ELSE \E r \in hits : Answer(t, r) /\ memo' = Upsert(memo, r)
    /\ UNCHANGED <<seen, found, conn, memoBytes, writerVars, fileVars,
                   evictVars, restVars>>

\* with_conn: open_connection succeeds, fails for a passing reason (this call
\* runs without a cache), or finds the file corrupt.
OpenConn(t) ==
    /\ pc[t] = "conn"
    /\ \/ /\ ~bad
          /\ conn' = [conn EXCEPT ![t] = file]
          /\ Goto(t, "read")
          /\ UNCHANGED answer
       \/ /\ Missed(t)
          /\ UNCHANGED conn
       \/ /\ bad
          /\ Goto(t, "repair")
          /\ UNCHANGED <<conn, answer>>
    /\ UNCHANGED <<job, seen, found, writerVars, memoVars, fileVars,
                   evictVars, restVars>>

\* ... and deletes whatever is at the path by now, and opens a new file.
\* Connections to the old file keep it.
Repair(t) ==
    /\ pc[t] = "repair"
    /\ file' = file + 1
    /\ bad' = FALSE
    /\ conn' = [conn EXCEPT ![t] = file + 1]
    /\ Goto(t, "read")
    /\ UNCHANGED <<job, seen, found, answer, disk, writerVars, memoVars,
                   evictVars, restVars>>

\* cache_lookup_conn: a row is found, and touched if it is old enough, or
\* there is none, or reading or decoding it fails.
ReadTable(t) ==
    /\ pc[t] = "read"
    /\ \/ \E r \in RowsFor(disk[conn[t]], job[t].key) :
             /\ found' = [found EXCEPT ![t] = r]
             /\ \/ disk' = [disk EXCEPT ![conn[t]] = Upsert(@, r)]
                \/ UNCHANGED disk
             /\ Goto(t, "put")
             /\ UNCHANGED answer
       \/ /\ Missed(t)
          /\ UNCHANGED <<found, disk>>
    /\ UNCHANGED <<job, seen, conn, file, bad, writerVars, memoVars,
                   evictVars, restVars>>

PutMemo(t) ==
    /\ pc[t] = "put"
    /\ MemoInsert(found[t])
    /\ Answer(t, found[t])
    /\ found' = [found EXCEPT ![t] = NoReport]
    /\ UNCHANGED <<seen, conn, writerVars, fileVars, evictVars, restVars>>

-----------------------------------------------------------------------------
(* The analysis, as far as the cache looks at its result.                  *)

\* The scan succeeds, leaves a gap (deadline, cut parse), or panics in YARA,
\* which trips the breaker; a scan behind a tripped breaker lacks findings.
Scan(t) ==
    /\ pc[t] = "scan"
    /\ \E q \in Qualities :
          /\ breaker => q = "weak"
          /\ job' = [job EXCEPT ![t].quality = q]
          /\ breaker' = (breaker \/ q = "weak")
    /\ Goto(t, "store")
    /\ UNCHANGED <<seen, found, answer, conn, loads, phase, late, boots, left,
                   writerVars, memoVars, fileVars, evictVars>>

\* load_all_rules of any engine, or compile_yara_rules after an update.
LoadRules ==
    /\ breaker /\ loads < Loads /\ phase = "run"
    /\ loads' = loads + 1
    /\ breaker' = FALSE
    /\ UNCHANGED <<phase, late, boots, left, threadVars, writerVars, memoVars,
                   fileVars, evictVars>>

-----------------------------------------------------------------------------
(* A store: the writer's queue, the eviction sample, the memo.             *)

\* report_cache_store up to the load of pending_bytes.
StoreBegin(t) ==
    /\ pc[t] = "store"
    /\ IF breaker \/ job[t].quality = "gap"
       THEN /\ job' = [job EXCEPT ![t] = NoReport]
            /\ Goto(t, "idle")
            /\ UNCHANGED seen
       ELSE /\ IF Bytes(job[t]) > MaxItemBytes
               THEN Goto(t, "count") /\ UNCHANGED seen
               ELSE Goto(t, "reserve") /\ seen' = [seen EXCEPT ![t] = pending]
            /\ UNCHANGED job
    /\ UNCHANGED <<found, answer, conn, writerVars, memoVars, fileVars,
                   evictVars, restVars>>

\* The compare-and-swap loop of Writer::enqueue.
Reserve(t) ==
    LET next == seen[t] + Bytes(job[t]) IN
    /\ pc[t] = "reserve"
    /\ IF next > MaxBytes
       THEN Goto(t, "count") /\ seen' = [seen EXCEPT ![t] = 0] /\ UNCHANGED pending
       ELSE IF pending = seen[t]
       THEN Goto(t, "send") /\ pending' = next /\ seen' = [seen EXCEPT ![t] = 0]
       ELSE seen' = [seen EXCEPT ![t] = pending] /\ UNCHANGED <<pc, pending>>
    /\ UNCHANGED <<job, found, answer, conn, chan, batch, wpc, wconn,
                   memoVars, fileVars, evictVars, restVars>>

\* try_send; a full channel gives the bytes back.
Send(t) ==
    /\ pc[t] = "send"
    /\ IF Len(chan) < ChanCap
       THEN chan' = Append(chan, job[t]) /\ UNCHANGED pending
       ELSE pending' = pending - Bytes(job[t]) /\ UNCHANGED chan
    /\ Goto(t, "count")
    /\ UNCHANGED <<job, seen, found, answer, conn, batch, wpc, wconn,
                   memoVars, fileVars, evictVars, restVars>>

\* Mutant: an eviction is started although one is running.
SpawnEvictionAlways(t) ==
    IF count = 0
    THEN /\ evicting' = TRUE
         /\ evict' = [evict EXCEPT ![t] = [NoEviction EXCEPT !.at = "open"]]
    ELSE UNCHANGED <<evict, evicting>>

\* Every Interval-th store starts an eviction, unless one is running.
SpawnEviction(t) ==
    IF count = 0 /\ ~evicting
    THEN /\ evicting' = TRUE
         /\ evict' = [evict EXCEPT ![t] = [NoEviction EXCEPT !.at = "open"]]
    ELSE UNCHANGED <<evict, evicting>>

CountStore(t) ==
    /\ pc[t] = "count"
    /\ SpawnEviction(t)
    /\ count' = (count + 1) % Interval
    /\ Goto(t, "keep")
    /\ UNCHANGED <<job, seen, found, answer, conn, writerVars, memoVars,
                   fileVars, restVars>>

KeepInMemo(t) ==
    /\ pc[t] = "keep"
    /\ MemoInsert(job[t])
    /\ job' = [job EXCEPT ![t] = NoReport]
    /\ Goto(t, "idle")
    /\ UNCHANGED <<seen, found, answer, conn, writerVars, fileVars,
                   evictVars, restVars>>

-----------------------------------------------------------------------------
(* The writer thread.                                                      *)

\* Mutant: the bytes are given back when the entries are received.
WriterTakeReleases ==
    /\ wpc = "recv" /\ chan # <<>> /\ phase # "over"
    /\ batch' = chan
    /\ chan' = <<>>
    /\ pending' = pending - TotalBytes(chan)
    /\ wpc' = "persist"
    /\ UNCHANGED <<wconn, threadVars, memoVars, fileVars, evictVars, restVars>>

WriterTake ==
    /\ wpc = "recv" /\ chan # <<>> /\ phase # "over"
    /\ LET n == IF Len(chan) < BatchCap THEN Len(chan) ELSE BatchCap
       IN /\ batch' = SubSeq(chan, 1, n)
          /\ chan' = DropFirst(chan, n)
    /\ wpc' = "persist"
    /\ UNCHANGED <<pending, wconn, threadVars, memoVars, fileVars, evictVars,
                   restVars>>

\* Entries that fail to compress are left out; the connection is opened on
\* first use and kept; the transaction commits as a whole or not at all.
WriterPersist ==
    /\ wpc = "persist" /\ phase # "over"
    /\ \E c \in {wconn, IF wconn # 0 \/ bad THEN wconn ELSE file} :
          /\ wconn' = c
          /\ \/ /\ c # 0
                /\ \E kept \in SUBSET DOMAIN batch :
                      disk' = [disk EXCEPT ![c] = Latest(@ \o Pick(batch, kept))]
             \/ UNCHANGED disk
    /\ wpc' = "release"
    /\ UNCHANGED <<pending, chan, batch, threadVars, memoVars, file, bad,
                   evictVars, restVars>>

WriterRelease ==
    /\ wpc = "release" /\ phase # "over"
    /\ pending' = pending - TotalBytes(batch)
    /\ batch' = <<>>
    /\ wpc' = "recv"
    /\ UNCHANGED <<chan, wconn, threadVars, memoVars, fileVars, evictVars,
                   restVars>>

-----------------------------------------------------------------------------
(* An eviction thread, with a connection of its own.  Every statement is a *)
(* step; a statement that meets a lock deletes nothing.                    *)

EvictAt(t, step) == evict[t].at = step /\ phase # "over"
EvictGoto(t, step, n) ==
    evict' = [evict EXCEPT ![t].at = step, ![t].rows = n]
EvictionEnds(t) ==
    /\ evict' = [evict EXCEPT ![t] = NoEviction]
    /\ evicting' = FALSE
Delete(f, n) ==
    \/ disk' = [disk EXCEPT ![f] = DropFirst(@, n)]
    \/ UNCHANGED disk

\* open_connection, then evict_idle: the rows past the TTL are the oldest ones.
EvictIdle(t) ==
    /\ EvictAt(t, "open")
    /\ \/ /\ ~bad
          /\ evict' = [evict EXCEPT ![t] = [at |-> "count", on |-> file, rows |-> 0]]
          /\ \E n \in 0..Len(disk[file]) : Delete(file, n)
          /\ UNCHANGED evicting
       \/ EvictionEnds(t) /\ UNCHANGED disk
    /\ UNCHANGED <<count, threadVars, writerVars, memoVars, file, bad, restVars>>

\* SELECT COUNT(*).
EvictCount(t) ==
    /\ EvictAt(t, "count")
    /\ LET total == Len(disk[evict[t].on])
       IN IF total > MaxRows
          THEN EvictGoto(t, "trim", total - RowTarget)
          ELSE EvictGoto(t, "sum", 0)
    /\ UNCHANGED <<evicting, count, threadVars, writerVars, memoVars, fileVars,
                   restVars>>

EvictTrim(t) ==
    /\ EvictAt(t, "trim")
    /\ Delete(evict[t].on, evict[t].rows)
    /\ EvictGoto(t, "sum", 0)
    /\ UNCHANGED <<evicting, count, file, bad, threadVars, writerVars, memoVars,
                   restVars>>

\* enforce_table_bytes: the rows to delete, from the mean size of a row.
EvictSum(t) ==
    /\ EvictAt(t, "sum")
    /\ LET rows == disk[evict[t].on]
           used == TotalBytes(rows)
           n == IF rows = <<>> THEN 0
                ELSE SatSub(used, ByteTarget) \div (used \div Len(rows))
       IN IF n = 0
          THEN EvictionEnds(t)
          ELSE EvictGoto(t, "shrink", n) /\ UNCHANGED evicting
    /\ UNCHANGED <<count, threadVars, writerVars, memoVars, fileVars, restVars>>

EvictShrink(t) ==
    /\ EvictAt(t, "shrink")
    /\ Delete(evict[t].on, evict[t].rows)
    /\ EvictionEnds(t)
    /\ UNCHANGED <<count, file, bad, threadVars, writerVars, memoVars, restVars>>

-----------------------------------------------------------------------------
(* The end of a command, crashes, and damage to the file.                  *)

\* flush is called once all analysis has joined.
FlushBegin ==
    /\ phase = "run"
    /\ \A t \in Threads : pc[t] = "idle"
    /\ phase' = "flush"
    /\ UNCHANGED <<breaker, loads, late, boots, left, threadVars, writerVars,
                   memoVars, fileVars, evictVars>>

FlushDone ==
    /\ phase = "flush" /\ pending = 0
    /\ phase' = "over"
    /\ UNCHANGED <<breaker, loads, late, boots, left, threadVars, writerVars,
                   memoVars, fileVars, evictVars>>

FlushDeadline ==
    /\ phase = "flush" /\ pending # 0
    /\ phase' = "over"
    /\ late' = TRUE
    /\ UNCHANGED <<breaker, loads, boots, left, threadVars, writerVars, memoVars,
                   fileVars, evictVars>>

\* A new process, after the old one ended or crashed.  Of the old one only
\* what it committed to the file at the path is left.
Reboot ==
    /\ boots < Boots
    /\ boots' = boots + 1
    /\ pc' = [t \in Threads |-> "idle"]
    /\ job' = [t \in Threads |-> NoReport]
    /\ seen' = [t \in Threads |-> 0]
    /\ found' = [t \in Threads |-> NoReport]
    /\ answer' = [t \in Threads |-> NoReport]
    /\ conn' = [t \in Threads |-> 0]
    /\ pending' = 0
    /\ chan' = <<>>
    /\ batch' = <<>>
    /\ wpc' = "recv"
    /\ wconn' = 0
    /\ memo' = <<>>
    /\ memoBytes' = 0
    /\ evict' = [t \in Threads |-> NoEviction]
    /\ evicting' = FALSE
    /\ count' = 0
    /\ breaker' = FALSE
    /\ phase' = "run"
    /\ late' = FALSE
    /\ disk' = [f \in 1..Files |-> IF f = file THEN disk[f] ELSE <<>>]
    /\ bad' \in {bad} \cup FoundBad(file)
    /\ UNCHANGED <<file, loads, left>>

Over ==
    /\ phase = "over"
    /\ UNCHANGED vars

ThreadStep(t) ==
    \/ Begin(t) \/ LookupMemo(t) \/ OpenConn(t) \/ Repair(t) \/ ReadTable(t)
    \/ PutMemo(t) \/ Scan(t) \/ StoreBegin(t) \/ Reserve(t) \/ Send(t)
    \/ CountStore(t) \/ KeepInMemo(t)
EvictionStep(t) ==
    \/ EvictIdle(t) \/ EvictCount(t) \/ EvictTrim(t)
    \/ EvictSum(t) \/ EvictShrink(t)
WriterStep == WriterTake \/ WriterPersist \/ WriterRelease

Next ==
    \/ \E t \in Threads : ThreadStep(t) \/ EvictionStep(t)
    \/ WriterStep
    \/ LoadRules
    \/ FlushBegin \/ FlushDone \/ FlushDeadline
    \/ Reboot \/ Over

Spec == Init /\ [][Next]_vars

-----------------------------------------------------------------------------
(* Properties.                                                             *)

\* The budget is exactly the bytes of the entries between the reservation in
\* enqueue and the end of the writer's batch, and it stays under MAX_BYTES: a
\* lost give-back would turn the disk cache off for the rest of the process.
BudgetExact ==
    LET charged == {t \in Threads : pc[t] = "send"}
    IN /\ pending = BytesAt(job, charged) + TotalBytes(chan) + TotalBytes(batch)
       /\ pending <= MaxBytes

\* The byte counter of the memo is the sum of what it holds, under its budget,
\* and no key is held twice: Memo::insert pops by the counter alone.
MemoExact ==
    /\ memoBytes = TotalBytes(memo)
    /\ memoBytes <= MemoBudget
    /\ \A i, j \in DOMAIN memo : memo[i].key = memo[j].key => i = j

\* A flush that ended before its deadline leaves nothing unwritten: every entry
\* that was accepted has had its transaction.
FlushMeansDone ==
    phase = "over" /\ ~late =>
        /\ chan = <<>>
        /\ batch = <<>> /\ wpc = "recv"

\* The counters that decide what is kept and when a command may end agree with
\* what they count.
CountersExact == BudgetExact /\ MemoExact /\ FlushMeansDone

\* Between its count and its delete an eviction is alone: it never takes the
\* table below the target, whatever the writer adds meanwhile.
TrimKeepsTarget ==
    [][\A t \in Threads :
          evict[t].at = "trim" /\ evict'[t].at = "sum"
             => Len(disk'[evict[t].on]) >= RowTarget]_vars

\* Where a report can still be served from: a store under way, a row on its
\* way into the memo, the queue, the batch, the memo, and every file that is
\* open somewhere.
Held ==
    {job[t] : t \in {u \in Threads : pc[u] \in StoreSteps}}
        \cup {found[t] : t \in {u \in Threads : pc[u] = "put"}}
        \cup Entries(chan) \cup Entries(batch) \cup Entries(memo)
        \cup UNION {Entries(disk[f]) : f \in 1..Files}

Promise == INSTANCE ResultCache WITH Callers <- Threads, cached <- Held

\* The cache keeps the promise of ResultCache: through crashes, repairs,
\* evictions and races, a hit is a gap-free report stored under the same key
\* for a path the rules cannot tell from the caller's.
KeepsPromise == Promise!CacheSpec

\* "caching them would serve the degraded verdict to every later run": no
\* report of a scan that lacked YARA findings is held anywhere.
OnlyFullScansCached == \A r \in Held : r.quality # "weak"
=============================================================================
