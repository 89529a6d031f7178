-------------------------------- MODULE Logs --------------------------------
(***************************************************************************)
(* The redis log handler of an application that runs in several processes *)
(* (LogHandler) and the client that reads its logs back (LoggerClient).   *)
(* A log gets its number from a counter and is stored in a hash; the      *)
(* process that stores a multiple of Batch moves the batch before the     *)
(* last one to a file and empties the hash up to there.                   *)
(***************************************************************************)
EXTENDS Integers, Sequences, SequencesExt, FiniteSets

CONSTANTS Procs,    \* processes of the application
          Batch,    \* 1000
          Keep,     \* MAX_MSGPACKS_LOGS_COUNT
          Drop,     \* 10
          MaxLogs,  \* bound on the counter
          MaxFaults \* bound on processes that end and logs that are deleted

ASSUME LogsAssumption ==
  /\ Batch \in Nat \ {0} /\ Keep \in Nat /\ Drop \in Nat /\ MaxLogs \in Nat /\ MaxFaults \in Nat
  /\ Drop <= Keep

VARIABLES incr,      \* logs:<app>:incr
          data,      \* keys of the hash logs:<app>:data
          files,     \* containers on disk, oldest first; k holds the batch k
          lpc,       \* where each process is in handle_log
          lid,       \* latest_id, which is also last_logid
          upto,      \* the id that _data_container_dump looks up next
          keys,      \* keystodelete
          faultsLeft,\* the bound on faults
          wpc,       \* the reader: "idle", "files", "done" or "failed"
          wids,      \* containers it is going to read
          seen,      \* logs it has handed out
          wanted,    \* history: what was stored when the walk began
          moved,     \* history: something was moved or removed during the walk
          written,   \* history: all logs that were ever stored
          gone,      \* history: logs that were deleted by request
          rotated,   \* history: containers removed by the rotation
          hurt       \* history: containers whose dump did not come to its end

redis   == <<incr, data, files>>
handler == <<lpc, lid, upto, keys>>
walker  == <<wpc, wids, seen, wanted>>
lhist   == <<written, gone, rotated, hurt>>
logVars == <<redis, handler, walker, moved, lhist, faultsLeft>>

Ids          == 1..MaxLogs
BatchOf(i)   == (i - 1) \div Batch + 1
IdsOf(k)     == {i \in Ids : BatchOf(i) = k}
Container(p) == lid[p] \div Batch - 1     \* the batch that ends at stopid
StopId(p)    == lid[p] - Batch
Archived     == UNION {IdsOf(files[k]) : k \in DOMAIN files}
Stored       == data \union Archived

\* Mutant of DumpDue: without the test that there is a batch before the last.
DumpDueFirst(p) == lid[p] > 0 /\ lid[p] % Batch = 0

\* Every Batch logs, from the second batch on.
DumpDue(p) == lid[p] >= 2 * Batch /\ lid[p] % Batch = 0

LogInit ==
  /\ incr = 0 /\ data = {} /\ files = <<>>
  /\ lpc = [p \in Procs |-> "idle"]
  /\ lid = [p \in Procs |-> 0]
  /\ upto = [p \in Procs |-> 0]
  /\ keys = [p \in Procs |-> {}]
  /\ wpc = "idle" /\ wids = {} /\ seen = {} /\ wanted = {} /\ moved = FALSE
  /\ faultsLeft = MaxFaults
  /\ written = {} /\ gone = {} /\ rotated = {} /\ hurt = {}

LGoto(p, l) == lpc' = [lpc EXCEPT ![p] = l]

Fault == faultsLeft > 0 /\ faultsLeft' = faultsLeft - 1

\* handle_log takes a number ...
LogIncr(p) ==
  /\ lpc[p] = "idle" /\ incr < MaxLogs
  /\ incr' = incr + 1
  /\ lid' = [lid EXCEPT ![p] = incr + 1]
  /\ LGoto(p, "hset")
  /\ UNCHANGED <<data, files, upto, keys, walker, moved, lhist>>

\* ... and stores the log under it; every Batch logs a dump follows.
LogHSet(p) ==
  /\ lpc[p] = "hset"
  /\ data' = data \union {lid[p]}
  /\ written' = written \union {lid[p]}
  /\ IF DumpDue(p)
     THEN LGoto(p, "collect") /\ upto' = [upto EXCEPT ![p] = lid[p] - 2 * Batch + 1]
     ELSE LGoto(p, "idle") /\ UNCHANGED upto
  /\ UNCHANGED <<incr, files, lid, keys, walker, moved, gone, rotated, hurt>>

\* _data_container_dump reads the logs of the batch one by one.
Collect(p) ==
  /\ lpc[p] = "collect"
  /\ upto[p] \in data
  /\ IF upto[p] = StopId(p)
     THEN LGoto(p, "write") /\ upto' = [upto EXCEPT ![p] = 0]
     ELSE UNCHANGED lpc /\ upto' = [upto EXCEPT ![p] = @ + 1]
  /\ UNCHANGED <<redis, lid, keys, walker, moved, lhist>>

\* Mutant of CollectFail: the dump goes on without its file.
CollectSkip(p) ==
  /\ lpc[p] = "collect"
  /\ upto[p] \notin data
  /\ LGoto(p, "keys")
  /\ upto' = [upto EXCEPT ![p] = 0]
  /\ UNCHANGED <<redis, lid, keys, walker, moved, lhist>>

\* A log that is not there makes _redis_get raise; the dump is not retried.
CollectFail(p) ==
  /\ lpc[p] = "collect"
  /\ upto[p] \notin data
  /\ hurt' = hurt \union {Container(p)}
  /\ LGoto(p, "raise")
  /\ upto' = [upto EXCEPT ![p] = 0]
  /\ UNCHANGED <<redis, lid, keys, walker, moved, written, gone, rotated>>

\* The container is written; when there are more than Keep + 1 of them the
\* oldest ones, down to Keep - Drop, are removed.
DumpWrite(p) ==
  LET all == Append(files, Container(p))
      n   == IF Len(all) > Keep + 1 THEN Len(all) - Keep + Drop ELSE 0
  IN
  /\ lpc[p] = "write"
  /\ files' = SubSeq(all, n + 1, Len(all))
  /\ rotated' = rotated \union {all[k] : k \in 1..n}
  /\ moved' = TRUE
  /\ LGoto(p, "keys")
  /\ UNCHANGED <<incr, data, lid, upto, keys, walker, written, gone, hurt>>

\* Mutant of DumpKeys: the end of the batch just logged, not of the one before.
DumpKeysAll(p) ==
  /\ lpc[p] = "keys"
  /\ keys' = [keys EXCEPT ![p] = {i \in data : i < lid[p] + 1}]
  /\ LGoto(p, "hdel")
  /\ UNCHANGED <<redis, lid, upto, walker, moved, lhist>>

\* All keys up to the end of the batch are listed ...
DumpKeys(p) ==
  /\ lpc[p] = "keys"
  /\ keys' = [keys EXCEPT ![p] = {i \in data : i < StopId(p) + 1}]
  /\ LGoto(p, "hdel")
  /\ UNCHANGED <<redis, lid, upto, walker, moved, lhist>>

\* ... and deleted.
DumpDel(p) ==
  /\ lpc[p] = "hdel"
  /\ data' = data \ keys[p]
  /\ keys' = [keys EXCEPT ![p] = {}]
  /\ moved' = TRUE
  /\ LGoto(p, "idle")
  /\ UNCHANGED <<incr, files, lid, upto, walker, lhist>>

\* The process ends, wherever it is; an unfinished dump stays unfinished.
LogEnd(p) ==
  /\ hurt' = IF lpc[p] \in {"hset", "collect", "write"} /\ DumpDue(p) THEN hurt \union {Container(p)} ELSE hurt
  /\ LGoto(p, "idle")
  /\ keys' = [keys EXCEPT ![p] = {}]
  /\ lid' = [lid EXCEPT ![p] = 0]
  /\ upto' = [upto EXCEPT ![p] = 0]
  /\ UNCHANGED <<redis, walker, moved, written, gone, rotated>>

LogCrash(p) ==
  /\ lpc[p] # "idle"
  /\ Fault
  /\ LogEnd(p)

\* exception_handle: the process whose dump failed exits.
LogExit(p) ==
  /\ lpc[p] = "raise"
  /\ LogEnd(p)
  /\ UNCHANGED faultsLeft

\* LoggerClient.delete_by_ids.
DeleteById(i) ==
  /\ i \in data
  /\ Fault
  /\ data' = data \ {i}
  /\ gone' = gone \union {i}
  /\ moved' = TRUE
  /\ UNCHANGED <<incr, files, handler, walker, written, rotated, hurt>>

-----------------------------------------------------------------------------
(* LoggerClient.walk over all logs of the application.                      *)

\* _data_container_ids_get_from_time: the containers on disk, with the one
\* before the first of them in front.
ContainerIds ==
  LET on == {files[k] : k \in DOMAIN files} IN
  on \union {k \in 1..MaxLogs : k + 1 \in on /\ \A j \in on : k < j}

WalkBegin ==
  /\ wpc = "idle"
  /\ wids' = ContainerIds
  /\ wanted' = Stored
  /\ moved' = FALSE
  /\ wpc' = "files"
  /\ UNCHANGED <<redis, handler, seen, lhist>>

\* The containers are read one by one, in order; one that is missing raises.
WalkFile ==
  /\ wpc = "files" /\ wids # {}
  /\ LET k == CHOOSE j \in wids : \A o \in wids : j <= o IN
     /\ wids' = wids \ {k}
     /\ IF k \in {files[j] : j \in DOMAIN files}
        THEN seen' = seen \union IdsOf(k) /\ UNCHANGED wpc
        ELSE wpc' = "failed" /\ UNCHANGED seen
  /\ UNCHANGED <<redis, handler, wanted, moved, lhist>>

\* Mutant of WalkRedis: only the newest Batch numbers, which may all be later
\* than the first log that the last dump left.
WalkRedisOne ==
  /\ wpc = "files" /\ wids = {}
  /\ seen' = seen \union {i \in data : i > incr - Batch /\ i < incr}
  /\ wpc' = "done"
  /\ UNCHANGED <<redis, handler, wids, wanted, moved, lhist>>

\* Then redis: from two batches before the counter up to, but without, it.
WalkRedis ==
  /\ wpc = "files" /\ wids = {}
  /\ seen' = seen \union {i \in data : i >= incr - 2 * Batch - 1 /\ i < incr}
  /\ wpc' = "done"
  /\ UNCHANGED <<redis, handler, wids, wanted, moved, lhist>>

WalkEnd ==
  /\ wpc \in {"done", "failed"}
  /\ wpc' = "idle" /\ wids' = {} /\ seen' = {} /\ wanted' = {} /\ moved' = FALSE
  /\ UNCHANGED <<redis, handler, lhist>>

LogStep(p) ==
  /\ \/ LogIncr(p) \/ LogHSet(p) \/ Collect(p) \/ CollectFail(p)
     \/ DumpWrite(p) \/ DumpKeys(p) \/ DumpDel(p)
  /\ UNCHANGED faultsLeft

Walk ==
  /\ WalkBegin \/ WalkFile \/ WalkRedis \/ WalkEnd
  /\ UNCHANGED faultsLeft

LogNext ==
  \/ \E p \in Procs : LogStep(p) \/ LogCrash(p) \/ LogExit(p)
  \/ \E i \in Ids : DeleteById(i)
  \/ Walk

LogSpec == LogInit /\ [][LogNext]_logVars

-----------------------------------------------------------------------------
LogTypeOK ==
  /\ incr \in 0..MaxLogs
  /\ data \subseteq Ids
  /\ files \in Seq(1..MaxLogs)
  /\ lpc \in [Procs -> {"idle", "hset", "collect", "write", "keys", "hdel", "raise"}]
  /\ lid \in [Procs -> 0..MaxLogs]
  /\ upto \in [Procs -> 0..MaxLogs]
  /\ keys \in [Procs -> SUBSET Ids]
  /\ wpc \in {"idle", "files", "done", "failed"}
  /\ wids \subseteq 1..MaxLogs /\ seen \subseteq Ids /\ wanted \subseteq Ids
  /\ moved \in BOOLEAN
  /\ faultsLeft \in 0..MaxFaults

\* Batches that some process has yet to move to disk.
Pending == {Container(p) : p \in {r \in Procs : lpc[r] \in {"hset", "collect", "write"} /\ DumpDue(r)}}

\* What walk_reverse promises: whatever dumps are under way, however late, the
\* newest Batch logs are in redis, but for the ones that were deleted.
NewestInRedis ==
  \A i \in written \ gone : i > incr - Batch => i \in data

\* Every log that was stored is in redis or in a container on disk, unless it
\* was deleted, its container was rotated away, or the dump of its container
\* was cut short or is late: then the next dump removes the logs for good.
LostOnlyIfHurt ==
  \A i \in written \ (gone \union Stored) : BatchOf(i) \in rotated \union hurt \union Pending

\* A walk that ends, and during which nothing was moved to disk or deleted,
\* hands out every log that was there when it began, but for the one with the
\* highest number and the ones that a dump left behind in redis: it was cut
\* short or is late, or it ended after its container and before the logs were
\* removed, and the container was rotated away.
WalkSees ==
  (wpc = "done" /\ ~moved) =>
    \A i \in wanted : \/ i \in seen
                      \/ \A k \in wanted : k <= i
                      \/ BatchOf(i) \in rotated \union hurt \union Pending
=============================================================================
