----------------------------- MODULE LogsProofs -----------------------------
(* What the log handler keeps of the logs and what a walk hands out, for   *)
(* any number of processes and logs, any size of the batches, any number   *)
(* of containers that are kept, and any number of crashes and deletions.   *)
EXTENDS Logs, TLAPS, NaturalsInduction, WellFoundedInduction

OnDisk == {files[k] : k \in DOMAIN files}

(* What the processes know: numbers come from the counter, a dump is under *)
(* way only where it is due, and the keys it is going to delete end at the *)
(* end of its batch.                                                       *)
HandlerInv ==
    \A p \in Procs :
        /\ lid[p] <= incr
        /\ lpc[p] # "idle" => lid[p] \in Ids
        /\ lpc[p] \in {"collect", "write", "keys", "hdel", "raise"} => DumpDue(p)
        /\ lpc[p] = "collect" => upto[p] \in 1..StopId(p)
        /\ \A i \in keys[p] : lpc[p] = "hdel" /\ i <= StopId(p)

(* The counter is ahead of everything that was stored.                     *)
Within ==
    /\ written \subseteq Ids
    /\ \A i \in data \union written \union wanted : i <= incr
    /\ \A k \in OnDisk : k * Batch <= incr

(* A batch is dumped when the one after it is full: unless it is on disk,  *)
(* it was rotated away, its dump failed or has not come to the file yet.   *)
DumpInv == \A k \in 1..MaxLogs : (k + 1) * Batch <= incr => k \in OnDisk \union rotated \union hurt \union Pending

(* Logs leave redis only with the dump of their batch or of a later one.   *)
MoveInv == \A i \in written \ (gone \union data) : (BatchOf(i) + 1) * Batch <= incr

(* A walk has read the containers that it does not still have to read.     *)
WalkInv ==
    /\ wpc = "files" /\ ~moved => wanted \subseteq Stored /\ \A k \in OnDisk : k \in wids \/ IdsOf(k) \subseteq seen
    /\ WalkSees

LogsInv == LogTypeOK /\ HandlerInv /\ Within /\ DumpInv /\ MoveInv /\ NewestInRedis /\ WalkInv

(* The steps of the log handlers and of the reader, wherever a process     *)
(* that ends comes from.                                                   *)
LogMove ==
    \/ \E p \in Procs : LogStep(p) \/ (LogEnd(p) /\ (Fault \/ UNCHANGED faultsLeft))
    \/ \E i \in Ids : DeleteById(i)
    \/ Walk

-----------------------------------------------------------------------------
(* Batches and numbers.                                                    *)

(* Quotient and remainder.                                                 *)
LEMMA DivMod ==
    ASSUME NEW n \in Nat, NEW b \in Nat \ {0}
    PROVE  n \div b \in Nat /\ n % b \in 0..(b - 1) /\ n = b * (n \div b) + (n % b)
  OBVIOUS

(* Products with the same factor are ordered as the other factors are.     *)
LEMMA MulLess ==
    ASSUME NEW a \in Int, NEW c \in Int, NEW b \in Nat \ {0}, b * a < b * c
    PROVE  a < c
  OBVIOUS

(* A multiple is divided exactly.                                          *)
LEMMA DivExact ==
    ASSUME NEW n \in Nat, NEW b \in Nat \ {0}, NEW k \in Nat, n = b * k
    PROVE  n \div b = k /\ n % b = 0
  OBVIOUS

(* A set of numbers has a least one.                                       *)
LEMMA NatMin ==
    ASSUME NEW T, T \subseteq Nat, T # {}
    PROVE  \E m \in T : \A o \in T : m <= o
<1>1. \E m \in T : \A o \in T : ~(<<o, m>> \in OpToRel(<, Nat))
  BY NatLessThanWellFounded, WFMin, Zenon
<1>2. PICK m \in T : \A o \in T : ~(o < m)
  BY <1>1, Zenon DEF OpToRel
<1> QED BY <1>2

(* Every log belongs to a batch.                                           *)
LEMMA BatchFacts ==
    ASSUME NEW i \in Ids
    PROVE  /\ BatchOf(i) \in 1..MaxLogs /\ i \in IdsOf(BatchOf(i))
           /\ BatchOf(i) * Batch < i + Batch /\ i <= BatchOf(i) * Batch
<1>1. i \in Nat \ {0} /\ i <= MaxLogs /\ Batch \in Nat \ {0} /\ MaxLogs \in Nat
  BY LogsAssumption DEF Ids
<1> DEFINE q == (i - 1) \div Batch
<1>2. q \in Nat /\ i - 1 >= Batch * q /\ i - 1 < Batch * q + Batch
  <2>1. PICK n \in Nat : n = i - 1
    BY <1>1
  <2>2. n \div Batch \in Nat /\ n % Batch \in 0..(Batch - 1) /\ n = Batch * (n \div Batch) + (n % Batch)
    BY <1>1, DivMod, Zenon
  <2> QED BY <1>1, <2>1, <2>2
<1> HIDE DEF q
<1>3. Batch * q >= q
  BY <1>1, <1>2
<1>4. (q + 1) * Batch = Batch * q + Batch
  BY <1>1, <1>2
<1>5. BatchOf(i) = q + 1
  BY DEF BatchOf, q
<1>6. BatchOf(i) \in 1..MaxLogs
  BY <1>1, <1>2, <1>3, <1>5
<1>7. i \in IdsOf(BatchOf(i))
  BY DEF IdsOf
<1>8. BatchOf(i) * Batch < i + Batch /\ i <= BatchOf(i) * Batch
  BY <1>1, <1>2, <1>4, <1>5
<1> QED BY <1>6, <1>7, <1>8

(* The container that a due dump writes is the batch before the last.      *)
LEMMA ContainerFacts ==
    ASSUME LogTypeOK, NEW p \in Procs, DumpDue(p)
    PROVE  /\ Container(p) \in 1..MaxLogs /\ (Container(p) + 1) * Batch = lid[p]
           /\ StopId(p) \in Ids /\ lid[p] - 2 * Batch + 1 \in 1..StopId(p)
           /\ Container(p) * Batch = StopId(p)
<1>1. lid[p] \in Nat /\ lid[p] <= MaxLogs /\ Batch \in Nat \ {0} /\ MaxLogs \in Nat /\ lid[p] >= 2 * Batch
  BY LogsAssumption DEF LogTypeOK, DumpDue
<1> DEFINE q == lid[p] \div Batch
<1>2. q \in Nat /\ lid[p] = Batch * q
  <2>1. /\ lid[p] \div Batch \in Nat /\ lid[p] % Batch \in 0..(Batch - 1)
        /\ lid[p] = Batch * (lid[p] \div Batch) + (lid[p] % Batch)
    BY <1>1, DivMod, Zenon
  <2>2. lid[p] % Batch = 0
    BY DEF DumpDue
  <2> QED BY <1>1, <2>1, <2>2
<1>3. Container(p) = q - 1
  BY DEF Container
<1> HIDE DEF q
<1>4. q >= 2
  <2>1. Batch * 1 < Batch * q
    BY <1>1, <1>2
  <2> QED BY <1>1, <1>2, <2>1, MulLess
<1>5. q <= Batch * q
  BY <1>1, <1>2
<1>6. (Container(p) + 1) * Batch = lid[p] /\ Container(p) * Batch = lid[p] - Batch
  BY <1>1, <1>2, <1>3
<1> QED BY <1>1, <1>2, <1>3, <1>4, <1>5, <1>6 DEF StopId, Ids

(* Logs up to the end of a batch that is dumped belong to it or to an      *)
(* earlier one.                                                            *)
LEMMA BatchUpTo ==
    ASSUME LogTypeOK, NEW p \in Procs, DumpDue(p), NEW i \in Ids, i <= StopId(p)
    PROVE  (BatchOf(i) + 1) * Batch <= lid[p]
<1>1. /\ BatchOf(i) \in Nat /\ BatchOf(i) * Batch < i + Batch /\ Batch \in Nat \ {0}
      /\ Container(p) \in Nat /\ (Container(p) + 1) * Batch = lid[p] /\ Container(p) * Batch = StopId(p)
      /\ i \in Nat
  BY BatchFacts, ContainerFacts, LogsAssumption DEF Ids
<1>2. Batch * BatchOf(i) < Batch * (Container(p) + 1)
  BY <1>1
<1>3. BatchOf(i) < Container(p) + 1
  BY <1>1, <1>2, MulLess
<1>4. (BatchOf(i) + 1) * Batch <= (Container(p) + 1) * Batch
  BY <1>1, <1>3
<1> QED BY <1>1, <1>4

(* The elements of a list.                                                 *)
LEMMA SeqRange ==
    ASSUME NEW S, NEW s \in Seq(S)
    PROVE  DOMAIN s = 1..Len(s) /\ Len(s) \in Nat /\ \A k \in DOMAIN s : s[k] \in S
  OBVIOUS

(* What the containers on disk are after a dump.                           *)
LEMMA WriteEffect ==
    ASSUME LogTypeOK, NEW p \in Procs, DumpDue(p), DumpWrite(p)
    PROVE  /\ files' \in Seq(1..MaxLogs)
           /\ OnDisk \union {Container(p)} \subseteq OnDisk' \union rotated'
           /\ OnDisk' \subseteq OnDisk \union {Container(p)}
           /\ rotated \subseteq rotated'
<1> DEFINE all == Append(files, Container(p))
           n   == IF Len(all) > Keep + 1 THEN Len(all) - Keep + Drop ELSE 0
<1>1. files' = SubSeq(all, n + 1, Len(all)) /\ rotated' = rotated \union {all[k] : k \in 1..n}
  BY DEF DumpWrite
<1>2. files \in Seq(1..MaxLogs) /\ Container(p) \in 1..MaxLogs
  BY ContainerFacts DEF LogTypeOK
<1>3. /\ all \in Seq(1..MaxLogs) /\ Len(all) = Len(files) + 1 /\ Len(files) \in Nat /\ all[Len(files) + 1] = Container(p)
      /\ DOMAIN files = 1..Len(files) /\ \A k \in 1..Len(files) : all[k] = files[k]
  BY <1>2
<1>4. n \in 0..Len(all)
  BY <1>3, LogsAssumption
<1> HIDE DEF all, n
<1>5. /\ files' \in Seq(1..MaxLogs)
      /\ \A j \in 1..Len(all) : (\E k \in 1..n : all[j] = all[k]) \/ (\E k \in DOMAIN files' : all[j] = files'[k])
      /\ \A k \in DOMAIN files' : \E j \in 1..Len(all) : files'[k] = all[j]
  <2>1. Len(all) \in Nat /\ n \in Nat /\ n <= Len(all) /\ \A j \in 1..Len(all) : all[j] \in 1..MaxLogs
    <3>1. Len(all) \in Nat /\ n \in Nat /\ n <= Len(all)
      BY <1>3, <1>4
    <3>2. all \in Seq(1..MaxLogs)
      BY <1>3
    <3>3. DOMAIN all = 1..Len(all) /\ \A j \in DOMAIN all : all[j] \in 1..MaxLogs
      BY <3>2, SeqRange, Zenon
    <3> QED BY <3>1, <3>3
  <2>2. files' = [k \in 1..(Len(all) - n) |-> all[k + n]]
    BY <1>1, <1>3, <2>1
  <2>3. files' \in Seq(1..MaxLogs)
    BY <1>1, <1>3, <2>1
  <2>4. ASSUME NEW j \in 1..Len(all), ~(j \in 1..n) PROVE \E k \in DOMAIN files' : all[j] = files'[k]
    <3>1. j - n \in 1..(Len(all) - n) /\ (j - n) + n = j
      BY <2>1, <2>4
    <3> QED BY <2>2, <3>1
  <2>5. \A k \in DOMAIN files' : k + n \in 1..Len(all) /\ files'[k] = all[k + n]
    BY <2>1, <2>2
  <2> QED BY <2>3, <2>4, <2>5
<1>6. \A c \in OnDisk \union {Container(p)} : \E j \in 1..Len(all) : c = all[j]
  BY <1>3 DEF OnDisk
<1>7. \A j \in 1..Len(all) : all[j] \in OnDisk \union {Container(p)}
  <2> SUFFICES ASSUME NEW j \in 1..Len(all), j # Len(files) + 1 PROVE all[j] \in OnDisk
    BY <1>3
  <2>1. j \in 1..Len(files)
    BY <1>3
  <2> QED BY <1>3, <2>1 DEF OnDisk
<1>8. OnDisk \union {Container(p)} \subseteq OnDisk' \union rotated'
  <2>1. \A j \in 1..Len(all) : all[j] \in OnDisk' \union {all[k] : k \in 1..n}
    BY <1>5 DEF OnDisk
  <2> QED BY <1>1, <1>6, <2>1
<1>9. OnDisk' \subseteq OnDisk \union {Container(p)}
  BY <1>5, <1>7 DEF OnDisk
<1> QED BY <1>1, <1>5, <1>8, <1>9

-----------------------------------------------------------------------------
(* Types, and what the processes know.                                     *)

(* The handlers' steps.                                                    *)
LEMMA TypeHandler ==
    ASSUME LogTypeOK, HandlerInv, NEW p \in Procs, LogStep(p)
    PROVE  LogTypeOK'
<1> USE DEF LogTypeOK
<1>1. /\ MaxLogs \in Nat /\ Batch \in Nat \ {0} /\ 0 \in 0..MaxLogs /\ lid[p] \in 0..MaxLogs /\ upto[p] \in 0..MaxLogs
      /\ Ids = 1..MaxLogs /\ incr \in Nat
  BY LogsAssumption DEF Ids
<1>2. CASE LogIncr(p)
  BY <1>1, <1>2 DEF LogIncr, LGoto, LogStep, walker, lhist
<1>3. CASE LogHSet(p)
  <2>1. lid[p] \in Ids
    BY <1>3 DEF LogHSet, HandlerInv
  <2>2. CASE DumpDue(p)
    <3>1. lid[p] - 2 * Batch + 1 \in 0..MaxLogs
      <4> HIDE DEF LogTypeOK
      <4>1. StopId(p) \in 1..MaxLogs /\ lid[p] - 2 * Batch + 1 \in 1..StopId(p)
        BY <1>1, <2>2, ContainerFacts, Zenon
      <4> DEFINE first == lid[p] - 2 * Batch + 1
                 stop == StopId(p)
      <4>2. first \in 0..MaxLogs
        <5>1. stop \in 1..MaxLogs /\ first \in 1..stop
          BY <4>1
        <5> HIDE DEF first, stop
        <5> QED BY <1>1, <5>1
      <4> QED BY <4>2
    <3> QED BY <1>3, <2>1, <2>2, <3>1 DEF LogHSet, LGoto, LogStep, walker
  <2>3. CASE ~DumpDue(p)
    BY <1>3, <2>1, <2>3 DEF LogHSet, LGoto, LogStep, walker
  <2> QED BY <2>2, <2>3
<1>4. CASE Collect(p)
  <2>1. DumpDue(p) /\ upto[p] \in 1..StopId(p)
    BY <1>4 DEF Collect, HandlerInv
  <2>2. StopId(p) \in 1..MaxLogs
    BY <1>1, <2>1, ContainerFacts
  <2>3. upto[p] # StopId(p) => upto[p] + 1 \in 0..MaxLogs
    BY <1>1, <2>1, <2>2
  <2> QED BY <1>1, <1>4, <2>3 DEF Collect, LGoto, LogStep, redis, walker
<1>5. CASE CollectFail(p)
  BY <1>1, <1>5 DEF CollectFail, LGoto, LogStep, redis, walker
<1>6. CASE DumpWrite(p)
  <2>1. DumpDue(p)
    BY <1>6 DEF DumpWrite, HandlerInv
  <2>2. files' \in Seq(1..MaxLogs)
    BY <1>6, <2>1, WriteEffect
  <2> QED BY <1>6, <2>2 DEF DumpWrite, LGoto, LogStep, walker
<1>7. CASE DumpKeys(p)
  <2>1. {i \in data : i < StopId(p) + 1} \subseteq Ids
    OBVIOUS
  <2> QED BY <1>7, <2>1 DEF DumpKeys, LGoto, LogStep, redis, walker
<1>8. CASE DumpDel(p)
  BY <1>8 DEF DumpDel, LGoto, LogStep, walker
<1> QED BY <1>2, <1>3, <1>4, <1>5, <1>6, <1>7, <1>8 DEF LogStep

(* The end of a process, deletions and the reader.                         *)
LEMMA TypeOthers ==
    ASSUME LogTypeOK,
           \/ \E p \in Procs : LogEnd(p) /\ (Fault \/ UNCHANGED faultsLeft)
           \/ \E i \in Ids : DeleteById(i)
           \/ Walk
    PROVE  LogTypeOK'
<1> USE DEF LogTypeOK
<1>1. MaxLogs \in Nat /\ MaxFaults \in Nat /\ 0 \in 0..MaxLogs /\ Ids = 1..MaxLogs
  BY LogsAssumption DEF Ids
<1>2. Fault => faultsLeft' \in 0..MaxFaults
  BY <1>1 DEF Fault
<1>3. ASSUME NEW p \in Procs, LogEnd(p), Fault \/ UNCHANGED faultsLeft PROVE LogTypeOK'
  BY <1>1, <1>2, <1>3 DEF LogEnd, LGoto, redis, walker
<1>4. ASSUME NEW i \in Ids, DeleteById(i) PROVE LogTypeOK'
  BY <1>2, <1>4 DEF DeleteById, handler, walker
<1>5. CASE Walk
  <2>1. CASE WalkBegin
    <3>1. ContainerIds \subseteq 1..MaxLogs
      <4>1. \A k \in DOMAIN files : files[k] \in 1..MaxLogs
        BY SeqRange
      <4> QED BY <4>1 DEF ContainerIds
    <3>2. Stored \subseteq Ids
      BY DEF Stored, Archived, IdsOf
    <3> QED BY <1>5, <2>1, <3>1, <3>2 DEF Walk, WalkBegin, redis, handler
  <2>2. CASE WalkFile
    <3>1. wids' \subseteq wids /\ wpc' \in {wpc, "failed"} /\ \E k : seen' \in {seen, seen \union IdsOf(k)}
      BY <2>2 DEF WalkFile
    <3>2. seen' \subseteq Ids
      BY <3>1 DEF IdsOf
    <3> QED BY <1>5, <2>2, <3>1, <3>2 DEF Walk, WalkFile, redis, handler
  <2>3. CASE WalkRedis
    BY <1>5, <2>3 DEF Walk, WalkRedis, redis, handler
  <2>4. CASE WalkEnd
    BY <1>5, <2>4 DEF Walk, WalkEnd, redis, handler
  <2> QED BY <1>5, <2>1, <2>2, <2>3, <2>4 DEF Walk
<1> QED BY <1>3, <1>4, <1>5

(* What the processes know is kept by the steps of the handlers ...        *)
LEMMA HandlerStep ==
    ASSUME LogTypeOK, HandlerInv, NEW p \in Procs, LogStep(p)
    PROVE  HandlerInv'
<1> USE DEF HandlerInv
<1>0. /\ lpc \in [Procs -> {"idle", "hset", "collect", "write", "keys", "hdel", "raise"}]
      /\ lid \in [Procs -> 0..MaxLogs] /\ upto \in [Procs -> 0..MaxLogs] /\ keys \in [Procs -> SUBSET Ids]
      /\ incr \in Nat /\ MaxLogs \in Nat /\ Batch \in Nat \ {0} /\ Ids = 1..MaxLogs /\ data \subseteq Ids
  BY LogsAssumption DEF LogTypeOK, Ids
<1>1. ASSUME UNCHANGED <<incr, lid>>,
             \A r \in Procs \ {p} : lpc'[r] = lpc[r] /\ upto'[r] = upto[r] /\ keys'[r] = keys[r],
             lpc'[p] # "idle" => lpc[p] # "idle",
             lpc'[p] \in {"collect", "write", "keys", "hdel", "raise"} => DumpDue(p),
             lpc'[p] = "collect" => upto'[p] \in 1..StopId(p),
             \A i \in keys'[p] : lpc'[p] = "hdel" /\ i <= StopId(p)
      PROVE  HandlerInv'
  BY <1>1 DEF DumpDue, StopId
<1>2. CASE LogIncr(p)
  <2>1. /\ incr' = incr + 1 /\ incr + 1 \in Ids /\ lpc[p] = "idle"
        /\ \A r \in Procs : lid'[r] = IF r = p THEN incr + 1 ELSE lid[r]
        /\ \A r \in Procs : lpc'[r] = IF r = p THEN "hset" ELSE lpc[r]
        /\ UNCHANGED <<upto, keys>>
    BY <1>0, <1>2 DEF LogIncr, LGoto
  <2>2. \A r \in Procs : lid[r] \in Nat
    BY <1>0
  <2> QED BY <1>0, <2>1, <2>2 DEF DumpDue, StopId
<1>3. CASE LogHSet(p)
  <2>1. lpc[p] = "hset" /\ UNCHANGED <<incr, lid, keys>> /\ \A i \in keys[p] : FALSE
    BY <1>3 DEF LogHSet
  <2>2. CASE DumpDue(p)
    <3>1. lid[p] - 2 * Batch + 1 \in 1..StopId(p)
      BY <2>2, ContainerFacts
    <3>2. lpc' = [lpc EXCEPT ![p] = "collect"] /\ upto' = [upto EXCEPT ![p] = lid[p] - 2 * Batch + 1]
      BY <1>3, <2>2 DEF LogHSet, LGoto
    <3> QED BY <1>0, <1>1, <2>1, <2>2, <3>1, <3>2
  <2>3. CASE ~DumpDue(p)
    <3>1. lpc' = [lpc EXCEPT ![p] = "idle"] /\ upto' = upto
      BY <1>3, <2>3 DEF LogHSet, LGoto
    <3> QED BY <1>0, <1>1, <2>1, <3>1
  <2> QED BY <2>2, <2>3
<1>4. CASE Collect(p)
  <2>1. /\ lpc[p] = "collect" /\ UNCHANGED <<incr, lid, keys>> /\ DumpDue(p) /\ upto[p] \in 1..StopId(p)
        /\ \A i \in keys[p] : FALSE
    BY <1>4 DEF Collect, redis
  <2>2. StopId(p) \in Ids
    BY <2>1, ContainerFacts
  <2>3. CASE upto[p] = StopId(p)
    <3>1. lpc' = [lpc EXCEPT ![p] = "write"] /\ upto' = [upto EXCEPT ![p] = 0]
      BY <1>4, <2>3 DEF Collect, LGoto
    <3> QED BY <1>0, <1>1, <2>1, <3>1
  <2>4. CASE upto[p] # StopId(p)
    <3>1. lpc' = lpc /\ upto' = [upto EXCEPT ![p] = @ + 1]
      BY <1>4, <2>4 DEF Collect
    <3>2. upto[p] + 1 \in 1..StopId(p)
      BY <1>0, <2>1, <2>2, <2>4
    <3> QED BY <1>0, <1>1, <2>1, <3>1, <3>2
  <2> QED BY <2>3, <2>4
<1>5. CASE CollectFail(p)
  <2>1. /\ lpc[p] = "collect" /\ UNCHANGED <<incr, lid, keys>> /\ lpc' = [lpc EXCEPT ![p] = "raise"]
        /\ upto' = [upto EXCEPT ![p] = 0]
    BY <1>5 DEF CollectFail, LGoto, redis
  <2> QED BY <1>0, <1>1, <2>1
<1>6. CASE DumpWrite(p)
  <2>1. lpc[p] = "write" /\ UNCHANGED <<incr, lid, upto, keys>> /\ lpc' = [lpc EXCEPT ![p] = "keys"]
    BY <1>6 DEF DumpWrite, LGoto
  <2> QED BY <1>0, <1>1, <2>1
<1>7. CASE DumpKeys(p)
  <2>1. /\ lpc[p] = "keys" /\ UNCHANGED <<incr, lid, upto>> /\ lpc' = [lpc EXCEPT ![p] = "hdel"]
        /\ keys' = [keys EXCEPT ![p] = {i \in data : i < StopId(p) + 1}]
    BY <1>7 DEF DumpKeys, LGoto, redis
  <2>2. DumpDue(p) /\ StopId(p) \in Nat
    BY <1>0, <2>1, ContainerFacts
  <2>3. \A i \in keys'[p] : i <= StopId(p)
    BY <1>0, <2>1, <2>2
  <2> QED BY <1>0, <1>1, <2>1, <2>2, <2>3
<1>8. CASE DumpDel(p)
  <2>1. /\ lpc[p] = "hdel" /\ UNCHANGED <<incr, lid, upto>> /\ lpc' = [lpc EXCEPT ![p] = "idle"]
        /\ keys' = [keys EXCEPT ![p] = {}]
    BY <1>8 DEF DumpDel, LGoto
  <2> QED BY <1>0, <1>1, <2>1
<1> QED BY <1>2, <1>3, <1>4, <1>5, <1>6, <1>7, <1>8 DEF LogStep

(* ... and by the other steps.                                             *)
LEMMA HandlerOthers ==
    ASSUME LogTypeOK, HandlerInv,
           \/ \E p \in Procs : LogEnd(p)
           \/ \E i \in Ids : DeleteById(i)
           \/ Walk
    PROVE  HandlerInv'
<1> USE DEF HandlerInv
<1>1. /\ lpc \in [Procs -> {"idle", "hset", "collect", "write", "keys", "hdel", "raise"}]
      /\ lid \in [Procs -> 0..MaxLogs] /\ upto \in [Procs -> 0..MaxLogs] /\ keys \in [Procs -> SUBSET Ids] /\ incr \in Nat
  BY LogsAssumption DEF LogTypeOK
<1>2. ASSUME NEW p \in Procs, LogEnd(p) PROVE HandlerInv'
  <2>1. /\ incr' = incr
        /\ \A r \in Procs \ {p} : lpc'[r] = lpc[r] /\ lid'[r] = lid[r] /\ upto'[r] = upto[r] /\ keys'[r] = keys[r]
        /\ lpc'[p] = "idle" /\ lid'[p] = 0 /\ keys'[p] = {}
    BY <1>1, <1>2 DEF LogEnd, LGoto, redis
  <2> QED BY <1>1, <2>1 DEF DumpDue, StopId
<1>3. CASE UNCHANGED <<incr, handler>>
  BY <1>3 DEF handler, DumpDue, StopId
<1> QED BY <1>2, <1>3 DEF DeleteById, Walk, WalkBegin, WalkFile, WalkRedis, WalkEnd, redis

-----------------------------------------------------------------------------
(* The counter is ahead: every number that is stored was taken from it.    *)
LEMMA WithinStep ==
    ASSUME LogTypeOK, HandlerInv, Within, LogMove
    PROVE  Within'
<1> USE DEF Within
<1>0. incr \in Nat /\ data \subseteq Ids /\ Ids \subseteq Nat /\ Batch \in Nat \ {0} /\ wanted \subseteq Ids
  BY LogsAssumption DEF LogTypeOK, Ids
<1>1. \A k \in OnDisk : k \in 1..MaxLogs /\ k * Batch \in Nat
  <2>1. files \in Seq(1..MaxLogs)
    BY DEF LogTypeOK
  <2>2. \A k \in DOMAIN files : files[k] \in 1..MaxLogs
    BY <2>1, SeqRange, Zenon
  <2> QED BY <1>0, <2>2, LogsAssumption DEF OnDisk
<1>2. ASSUME incr' = incr, data' \subseteq data, written' = written, wanted' \subseteq data \union written \union wanted, OnDisk' = OnDisk
      PROVE  Within'
  BY <1>2
<1>3. ASSUME NEW p \in Procs, LogIncr(p) PROVE Within'
  <2>1. incr' = incr + 1 /\ UNCHANGED <<data, written, wanted, files>>
    BY <1>3 DEF LogIncr, walker, lhist
  <2>2. OnDisk' = OnDisk
    BY <2>1 DEF OnDisk
  <2>3. \A i \in data \union written \union wanted : i \in Nat /\ i <= incr
    BY <1>0
  <2> QED BY <1>0, <1>1, <2>1, <2>2, <2>3
<1>4. ASSUME NEW p \in Procs, LogHSet(p) PROVE Within'
  <2>1. lid[p] \in Ids /\ lid[p] <= incr
    BY <1>4 DEF LogHSet, HandlerInv
  <2>2. UNCHANGED <<incr, wanted, files>> /\ data' = data \union {lid[p]} /\ written' = written \union {lid[p]}
    BY <1>4 DEF LogHSet, walker
  <2>3. OnDisk' = OnDisk
    BY <2>2 DEF OnDisk
  <2> QED BY <2>1, <2>2, <2>3
<1>5. ASSUME NEW p \in Procs, DumpWrite(p) PROVE Within'
  <2>1. DumpDue(p) /\ lid[p] <= incr /\ lid[p] \in Nat
    BY <1>5 DEF DumpWrite, HandlerInv, LogTypeOK
  <2>2. Container(p) * Batch <= incr
    <3>1. Container(p) * Batch = lid[p] - Batch
      BY <2>1, ContainerFacts DEF StopId
    <3> QED BY <1>0, <2>1, <3>1
  <2>3. OnDisk' \subseteq OnDisk \union {Container(p)}
    BY <1>5, <2>1, WriteEffect
  <2>4. UNCHANGED <<incr, data, written, wanted>>
    BY <1>5 DEF DumpWrite, walker
  <2> QED BY <2>2, <2>3, <2>4
<1>6. ASSUME NEW p \in Procs, Collect(p) \/ CollectFail(p) \/ DumpKeys(p) \/ DumpDel(p) \/ LogEnd(p) PROVE Within'
  <2>1. UNCHANGED <<incr, files, written, wanted>> /\ data' \subseteq data
    BY <1>6 DEF Collect, CollectFail, DumpKeys, DumpDel, LogEnd, redis, walker, lhist
  <2> QED BY <1>2, <2>1 DEF OnDisk
<1>7. ASSUME NEW i \in Ids, DeleteById(i) PROVE Within'
  <2>1. UNCHANGED <<incr, files, written, wanted>> /\ data' \subseteq data
    BY <1>7 DEF DeleteById, walker
  <2> QED BY <1>2, <2>1 DEF OnDisk
<1>8. CASE Walk
  <2>1. CASE WalkBegin
    <3>1. UNCHANGED <<incr, files, data, written>> /\ wanted' = Stored
      BY <2>1 DEF WalkBegin, redis, lhist
    <3>2. ASSUME NEW i \in Archived PROVE i <= incr
      <4>1. PICK k \in DOMAIN files : i \in IdsOf(files[k])
        BY DEF Archived
      <4>2. i \in Ids /\ BatchOf(i) = files[k] /\ files[k] \in OnDisk
        BY <4>1 DEF IdsOf, OnDisk
      <4>3. i <= files[k] * Batch
        BY <4>2, BatchFacts
      <4> QED BY <1>0, <1>1, <4>2, <4>3
    <3>3. OnDisk' = OnDisk
      BY <3>1 DEF OnDisk
    <3> QED BY <3>1, <3>2, <3>3 DEF Stored
  <2>2. CASE WalkFile \/ WalkRedis \/ WalkEnd
    <3>1. UNCHANGED <<incr, files, data, written>> /\ wanted' \subseteq wanted
      BY <2>2 DEF WalkFile, WalkRedis, WalkEnd, redis, lhist
    <3> QED BY <1>2, <3>1 DEF OnDisk
  <2> QED BY <1>8, <2>1, <2>2 DEF Walk
<1> QED BY <1>3, <1>4, <1>5, <1>6, <1>7, <1>8 DEF LogMove, LogStep

-----------------------------------------------------------------------------
(* Batches that are on disk, or excused from it.                           *)
Excused == rotated \union hurt \union Pending

(* Only a dump changes what is on disk; it moves a batch there that was    *)
(* pending, and the rotation takes some away.                              *)
LEMMA ExcusedKept ==
    ASSUME LogTypeOK, HandlerInv, LogMove
    PROVE  \/ Excused \subseteq Excused' /\ OnDisk' = OnDisk
           \/ moved' /\ OnDisk \union Excused \subseteq OnDisk' \union Excused' /\ incr' = incr
<1>0. /\ lpc \in [Procs -> {"idle", "hset", "collect", "write", "keys", "hdel", "raise"}]
      /\ lid \in [Procs -> 0..MaxLogs]
  BY DEF LogTypeOK
<1>1. ASSUME rotated \subseteq rotated', hurt \subseteq hurt', files' = files, NEW p \in Procs,
             \A r \in Procs \ {p} : lpc'[r] = lpc[r] /\ lid'[r] = lid[r],
             lpc[p] \in {"hset", "collect", "write"} /\ DumpDue(p) =>
               Container(p) \in hurt' \/ (lpc'[p] \in {"hset", "collect", "write"} /\ lid'[p] = lid[p])
      PROVE  Excused \subseteq Excused' /\ OnDisk' = OnDisk
  BY <1>1 DEF Excused, Pending, OnDisk, Container, DumpDue
<1>2. ASSUME NEW p \in Procs, LogIncr(p) PROVE Excused \subseteq Excused' /\ OnDisk' = OnDisk
  BY <1>0, <1>1, <1>2 DEF LogIncr, LGoto, lhist
<1>3. ASSUME NEW p \in Procs, LogHSet(p) PROVE Excused \subseteq Excused' /\ OnDisk' = OnDisk
  BY <1>0, <1>1, <1>3 DEF LogHSet, LGoto
<1>4. ASSUME NEW p \in Procs, Collect(p) PROVE Excused \subseteq Excused' /\ OnDisk' = OnDisk
  BY <1>0, <1>1, <1>4 DEF Collect, LGoto, lhist, redis
<1>5. ASSUME NEW p \in Procs, CollectFail(p) PROVE Excused \subseteq Excused' /\ OnDisk' = OnDisk
  BY <1>0, <1>1, <1>5 DEF CollectFail, LGoto, redis
<1>6. ASSUME NEW p \in Procs, DumpWrite(p)
      PROVE  moved' /\ OnDisk \union Excused \subseteq OnDisk' \union Excused' /\ incr' = incr
  <2>1. DumpDue(p)
    BY <1>6 DEF DumpWrite, HandlerInv
  <2>2. OnDisk \union {Container(p)} \subseteq OnDisk' \union rotated' /\ rotated \subseteq rotated'
    BY <1>6, <2>1, WriteEffect
  <2>3. /\ moved' /\ incr' = incr /\ lid' = lid /\ hurt' = hurt
        /\ \A r \in Procs \ {p} : lpc'[r] = lpc[r]
    BY <1>0, <1>6 DEF DumpWrite, LGoto
  <2>4. Pending \subseteq Pending' \union {Container(p)}
    BY <2>3 DEF Pending, Container, DumpDue
  <2> QED BY <2>2, <2>3, <2>4 DEF Excused
<1>7. ASSUME NEW p \in Procs, DumpKeys(p) \/ DumpDel(p) PROVE Excused \subseteq Excused' /\ OnDisk' = OnDisk
  BY <1>0, <1>1, <1>7 DEF DumpKeys, DumpDel, LGoto, lhist, redis
<1>8. ASSUME NEW p \in Procs, LogEnd(p) PROVE Excused \subseteq Excused' /\ OnDisk' = OnDisk
  BY <1>0, <1>1, <1>8 DEF LogEnd, LGoto, redis
<1>9. ASSUME UNCHANGED <<rotated, hurt, files, handler>> PROVE Excused \subseteq Excused' /\ OnDisk' = OnDisk
  BY <1>9 DEF Excused, Pending, OnDisk, Container, DumpDue, handler
<1>10. ASSUME NEW i \in Ids, DeleteById(i) PROVE Excused \subseteq Excused' /\ OnDisk' = OnDisk
  BY <1>9, <1>10 DEF DeleteById
<1>11. CASE Walk
  BY <1>9, <1>11 DEF Walk, WalkBegin, WalkFile, WalkRedis, WalkEnd, redis, lhist
<1> QED BY <1>2, <1>3, <1>4, <1>5, <1>6, <1>7, <1>8, <1>10, <1>11 DEF LogMove, LogStep

(* The process that takes the last number of a batch is the one that dumps *)
(* the batch before.                                                       *)
LEMMA DumpStep ==
    ASSUME LogTypeOK, HandlerInv, DumpInv, LogMove
    PROVE  DumpInv'
<1>0. /\ lpc \in [Procs -> {"idle", "hset", "collect", "write", "keys", "hdel", "raise"}]
      /\ lid \in [Procs -> 0..MaxLogs] /\ incr \in Nat /\ Batch \in Nat \ {0} /\ MaxLogs \in Nat
  BY LogsAssumption DEF LogTypeOK
<1>1. CASE incr' = incr
  BY <1>1, ExcusedKept DEF DumpInv, Excused
<1>2. CASE incr' # incr
  <2>1. PICK p \in Procs : LogIncr(p)
    BY <1>2 DEF LogMove, LogStep, LogHSet, Collect, CollectFail, DumpWrite, DumpKeys, DumpDel, LogEnd, DeleteById,
                Walk, WalkBegin, WalkFile, WalkRedis, WalkEnd, redis
  <2>2. /\ incr' = incr + 1 /\ lid'[p] = incr + 1 /\ lpc'[p] = "hset"
    BY <1>0, <2>1 DEF LogIncr, LGoto
  <2> SUFFICES ASSUME NEW k \in 1..MaxLogs, (k + 1) * Batch <= incr'
               PROVE  k \in OnDisk' \union Excused'
    BY DEF DumpInv, Excused
  <2>3. k \in Nat /\ (k + 1) * Batch \in Nat /\ (k + 1) * Batch >= 2 * Batch
    <3>1. k \in Nat /\ k >= 1
      BY <1>0
    <3> QED BY <1>0, <3>1
  <2>4. CASE (k + 1) * Batch <= incr
    BY <1>2, <2>2, <2>4, ExcusedKept DEF DumpInv, Excused
  <2>5. CASE (k + 1) * Batch = incr + 1
    <3>1. lid'[p] \div Batch = k + 1 /\ lid'[p] % Batch = 0
      <4>1. PICK n \in Nat : n = incr + 1
        BY <1>0
      <4>2. PICK m \in Nat : m = k + 1
        BY <2>3
      <4>3. n = Batch * m
        BY <1>0, <2>3, <2>5, <4>1, <4>2
      <4>4. n \div Batch = m /\ n % Batch = 0
        BY <1>0, <4>3, DivExact, Zenon
      <4> QED BY <2>2, <4>1, <4>2, <4>4
    <3>2. Container(p)' = k /\ DumpDue(p)'
      BY <2>2, <2>3, <2>5, <3>1 DEF Container, DumpDue
    <3>3. k \in Pending'
      BY <2>2, <3>2 DEF Pending
    <3> QED BY <3>3 DEF Excused
  <2> QED BY <1>0, <2>2, <2>3, <2>4, <2>5
<1> QED BY <1>1, <1>2

-----------------------------------------------------------------------------
(* What leaves redis.                                                      *)

(* A dump removes logs of batches that are full and followed by a full     *)
(* one, and never one of the newest.                                       *)
LEMMA MoveStep ==
    ASSUME LogTypeOK, HandlerInv, Within, MoveInv, NewestInRedis, LogMove
    PROVE  MoveInv' /\ NewestInRedis'
<1>0. /\ incr \in Nat /\ data \subseteq Ids /\ written \subseteq Ids /\ Ids \subseteq Nat /\ Batch \in Nat \ {0}
      /\ lid \in [Procs -> 0..MaxLogs]
  BY LogsAssumption DEF LogTypeOK, Ids, Within
<1>1. \A i \in written : BatchOf(i) \in Nat /\ (BatchOf(i) + 1) * Batch \in Nat
  BY <1>0, BatchFacts
<1>2. ASSUME incr' = incr, data \ data' \subseteq gone', gone \subseteq gone', written' \subseteq written \union data'
      PROVE  MoveInv' /\ NewestInRedis'
  BY <1>2 DEF MoveInv, NewestInRedis
<1>3. ASSUME NEW p \in Procs, LogIncr(p) PROVE MoveInv' /\ NewestInRedis'
  <2>1. incr' = incr + 1 /\ UNCHANGED <<data, written, gone>>
    BY <1>3 DEF LogIncr, lhist
  <2> QED BY <1>0, <1>1, <2>1 DEF MoveInv, NewestInRedis
<1>4. ASSUME NEW p \in Procs, DumpDel(p) PROVE MoveInv' /\ NewestInRedis'
  <2>1. /\ lpc[p] = "hdel" /\ data' = data \ keys[p] /\ UNCHANGED <<incr, written, gone>>
    BY <1>4 DEF DumpDel, lhist
  <2>2. DumpDue(p) /\ lid[p] <= incr /\ lid[p] \in Nat /\ \A i \in keys[p] : i <= StopId(p)
    BY <1>0, <2>1 DEF HandlerInv
  <2>3. ASSUME NEW i \in written, i \in keys[p] PROVE (BatchOf(i) + 1) * Batch <= incr /\ ~(i > incr - Batch)
    <3>1. i \in Ids /\ i <= StopId(p) /\ StopId(p) = lid[p] - Batch
      BY <1>0, <2>2, <2>3 DEF StopId
    <3>2. (BatchOf(i) + 1) * Batch <= lid[p]
      BY <2>2, <3>1, BatchUpTo
    <3> QED BY <1>0, <1>1, <2>2, <3>1, <3>2
  <2>4. MoveInv'
    BY <2>1, <2>3 DEF MoveInv
  <2>5. NewestInRedis'
    BY <2>1, <2>3 DEF NewestInRedis
  <2> QED BY <2>4, <2>5
<1>5. ASSUME NEW p \in Procs, LogHSet(p) PROVE MoveInv' /\ NewestInRedis'
  BY <1>2, <1>5 DEF LogHSet
<1>6. ASSUME NEW p \in Procs, Collect(p) \/ CollectFail(p) \/ DumpWrite(p) \/ DumpKeys(p) \/ LogEnd(p)
      PROVE  MoveInv' /\ NewestInRedis'
  BY <1>2, <1>6 DEF Collect, CollectFail, DumpWrite, DumpKeys, LogEnd, redis, lhist
<1>7. ASSUME NEW i \in Ids, DeleteById(i) PROVE MoveInv' /\ NewestInRedis'
  BY <1>2, <1>7 DEF DeleteById
<1>8. CASE Walk
  BY <1>2, <1>8 DEF Walk, WalkBegin, WalkFile, WalkRedis, WalkEnd, redis, lhist
<1> QED BY <1>3, <1>4, <1>5, <1>6, <1>7, <1>8 DEF LogMove, LogStep

(* What has left redis is on disk, or excused.                             *)
LEMMA NothingLost ==
    ASSUME LogTypeOK, Within, DumpInv, MoveInv
    PROVE  LostOnlyIfHurt
<1> SUFFICES ASSUME NEW i \in written, i \notin gone, i \notin Stored
             PROVE  BatchOf(i) \in rotated \union hurt \union Pending
  BY DEF LostOnlyIfHurt
<1>1. i \in Ids /\ i \notin data /\ i \notin Archived
  BY DEF Within, Stored
<1>2. BatchOf(i) \in 1..MaxLogs /\ i \in IdsOf(BatchOf(i))
  BY <1>1, BatchFacts
<1>3. (BatchOf(i) + 1) * Batch <= incr
  BY <1>1 DEF MoveInv
<1>4. BatchOf(i) \notin OnDisk
  BY <1>1, <1>2 DEF OnDisk, Archived
<1> QED BY <1>2, <1>3, <1>4 DEF DumpInv

-----------------------------------------------------------------------------
(* What a walk hands out.                                                  *)

(* The last step of a walk reads redis.                                    *)
LEMMA WalkLast ==
    ASSUME LogTypeOK, Within, DumpInv, WalkInv, WalkRedis
    PROVE  WalkInv'
<1>0. /\ incr \in Nat /\ data \subseteq Ids /\ Ids \subseteq Nat /\ Batch \in Nat \ {0} /\ wanted \subseteq Ids
  BY LogsAssumption DEF LogTypeOK, Ids
<1>1. /\ wpc = "files" /\ wids = {} /\ wpc' = "done" /\ UNCHANGED <<redis, handler, wanted, moved, lhist>>
      /\ seen' = seen \union {i \in data : i >= incr - 2 * Batch - 1 /\ i < incr}
  BY DEF WalkRedis
<1>2. ASSUME ~moved, NEW i \in wanted PROVE i \in seen' \/ (\A k \in wanted : k <= i) \/ BatchOf(i) \in Excused
  <2>1. i \in Ids /\ i <= incr /\ i \in Stored
    BY <1>0, <1>1, <1>2 DEF WalkInv, Within
  <2>2. CASE i \in Archived
    BY <1>1, <1>2, <2>2 DEF WalkInv, Archived, OnDisk
  <2>3. CASE i \in data /\ i >= incr
    <3>1. \A k \in wanted : k \in Nat /\ k <= incr
      BY <1>0 DEF Within
    <3> QED BY <1>0, <2>1, <2>3, <3>1
  <2>4. CASE i \in data /\ i < incr /\ i >= incr - 2 * Batch - 1
    BY <1>1, <2>4
  <2>5. CASE i \in data /\ i < incr - 2 * Batch - 1
    <3>1. BatchOf(i) \in 1..MaxLogs /\ i \in IdsOf(BatchOf(i)) /\ BatchOf(i) * Batch < i + Batch
      BY <2>1, BatchFacts
    <3>2. (BatchOf(i) + 1) * Batch = BatchOf(i) * Batch + Batch /\ BatchOf(i) * Batch \in Nat
      BY <1>0, <3>1, LogsAssumption
    <3>3. (BatchOf(i) + 1) * Batch <= incr
      BY <1>0, <2>1, <2>5, <3>1, <3>2
    <3>4. BatchOf(i) \in OnDisk \union Excused
      BY <3>1, <3>3 DEF DumpInv, Excused
    <3> QED BY <1>1, <1>2, <3>1, <3>4 DEF WalkInv
  <2> QED BY <1>0, <2>1, <2>2, <2>3, <2>4, <2>5 DEF Stored
<1>3. Excused' = Excused
  BY <1>1 DEF Excused, Pending, DumpDue, Container, handler, lhist
<1>4. WalkSees'
  BY <1>1, <1>2, <1>3 DEF WalkSees, Excused
<1> QED BY <1>1, <1>4 DEF WalkInv

(* Between the first and the last step of a walk during which nothing is   *)
(* moved, nothing that it began with goes away.                            *)
LEMMA WalkStep ==
    ASSUME LogTypeOK, HandlerInv, Within, DumpInv, WalkInv, LogMove
    PROVE  WalkInv'
<1>1. CASE WalkBegin
  <2>1. /\ wpc' = "files" /\ wids' = ContainerIds /\ wanted' = Stored /\ UNCHANGED <<files, data>>
    BY <1>1 DEF WalkBegin, redis
  <2>2. OnDisk' \subseteq wids' /\ wanted' \subseteq Stored'
    BY <2>1 DEF OnDisk, ContainerIds, Stored, Archived
  <2> QED BY <2>1, <2>2 DEF WalkInv, WalkSees
<1>2. CASE WalkFile
  <2>1. /\ wpc = "files" /\ wpc' # "done" /\ UNCHANGED <<files, data, wanted, moved>>
    BY <1>2 DEF WalkFile, redis
  <2>2. wpc' = "files" => \E j \in wids : wids' = wids \ {j} /\ seen' = seen \union IdsOf(j)
    <3> DEFINE j == CHOOSE j \in wids : \A o \in wids : j <= o
    <3>1. wids' = wids \ {j} /\ (wpc' = "files" => seen' = seen \union IdsOf(j))
      BY <1>2 DEF WalkFile
    <3>2. CASE j \in wids
      BY <3>1, <3>2
    <3>3. CASE j \notin wids
      <4>1. wids' = wids /\ wids # {}
        BY <1>2, <3>1, <3>3 DEF WalkFile
      <4>2. \E m \in wids : \A o \in wids : m <= o
        <5>1. wids \subseteq Nat
          BY DEF LogTypeOK
        <5> QED BY <4>1, <5>1, NatMin
      <4> QED BY <3>3, <4>2
    <3> QED BY <3>2, <3>3
  <2> QED BY <2>1, <2>2 DEF WalkInv, WalkSees, OnDisk, Stored, Archived
<1>3. CASE WalkRedis
  BY <1>3, WalkLast
<1>4. CASE WalkEnd
  BY <1>4 DEF WalkEnd, WalkInv, WalkSees
<1>5. ASSUME UNCHANGED <<wpc, wids, seen, wanted>>, ~moved' => ~moved /\ data \subseteq data' PROVE WalkInv'
  <2>1. CASE moved'
    BY <2>1 DEF WalkInv, WalkSees
  <2>2. CASE ~moved'
    <3>1. Excused \subseteq Excused' /\ OnDisk' = OnDisk /\ ~moved /\ data \subseteq data'
      BY <1>5, <2>2, ExcusedKept
    <3>2. Stored \subseteq Stored'
      <4>1. ASSUME NEW i \in Archived PROVE i \in Archived'
        <5>1. PICK k \in OnDisk : i \in IdsOf(k)
          BY DEF Archived, OnDisk
        <5>2. k \in OnDisk'
          BY <3>1
        <5> QED BY <5>1, <5>2 DEF Archived, OnDisk
      <4> QED BY <3>1, <4>1 DEF Stored
    <3>3. (wpc = "files" /\ ~moved => wanted \subseteq Stored /\ \A k \in OnDisk : k \in wids \/ IdsOf(k) \subseteq seen)'
      BY <1>5, <3>1, <3>2 DEF WalkInv
    <3>4. WalkSees'
      BY <1>5, <3>1 DEF WalkInv, WalkSees, Excused
    <3> QED BY <3>3, <3>4 DEF WalkInv
  <2> QED BY <2>1, <2>2
<1>6. ASSUME NEW p \in Procs, LogStep(p) \/ LogEnd(p) PROVE WalkInv'
  BY <1>5, <1>6 DEF LogStep, LogIncr, LogHSet, Collect, CollectFail, DumpWrite, DumpKeys, DumpDel, LogEnd, redis, walker
<1>7. ASSUME NEW i \in Ids, DeleteById(i) PROVE WalkInv'
  BY <1>5, <1>7 DEF DeleteById, walker
<1> QED BY <1>1, <1>2, <1>3, <1>4, <1>6, <1>7 DEF LogMove, Walk

-----------------------------------------------------------------------------
(* The invariant.                                                          *)

(* The invariant holds initially.                                          *)
LEMMA LogsInit == LogInit => LogsInv
<1> SUFFICES ASSUME LogInit PROVE LogsInv
  OBVIOUS
<1>1. /\ incr = 0 /\ data = {} /\ files = <<>> /\ written = {} /\ wanted = {} /\ wpc = "idle"
      /\ \A p \in Procs : lpc[p] = "idle" /\ lid[p] = 0 /\ keys[p] = {}
  BY DEF LogInit
<1>2. LogTypeOK
  <2>1. MaxLogs \in Nat /\ MaxFaults \in Nat /\ 0 \in 0..MaxLogs
    BY LogsAssumption
  <2>2. files \in Seq(1..MaxLogs)
    <3>1. <<>> \in Seq(1..MaxLogs)
      OBVIOUS
    <3> QED BY <1>1, <3>1
  <2>3. /\ lpc \in [Procs -> {"idle", "hset", "collect", "write", "keys", "hdel", "raise"}]
        /\ lid \in [Procs -> 0..MaxLogs] /\ upto \in [Procs -> 0..MaxLogs] /\ keys \in [Procs -> SUBSET Ids]
    BY <2>1 DEF LogInit
  <2>4. /\ wpc \in {"idle", "files", "done", "failed"} /\ wids \subseteq 1..MaxLogs /\ seen \subseteq Ids /\ wanted \subseteq Ids
    BY DEF LogInit
  <2>5. moved \in BOOLEAN
    BY DEF LogInit
  <2>6. faultsLeft \in 0..MaxFaults /\ incr \in 0..MaxLogs /\ data \subseteq Ids
    BY <2>1 DEF LogInit
  <2> QED BY <2>2, <2>3, <2>4, <2>5, <2>6 DEF LogTypeOK
<1>3. HandlerInv
  BY <1>1 DEF HandlerInv
<1>4. Within /\ OnDisk = {}
  BY <1>1 DEF Within, OnDisk
<1>5. DumpInv
  <2>1. \A k \in 1..MaxLogs : ~((k + 1) * Batch <= 0)
    BY LogsAssumption
  <2> QED BY <1>1, <2>1 DEF DumpInv
<1>6. MoveInv /\ NewestInRedis /\ WalkInv
  BY <1>1 DEF MoveInv, NewestInRedis, WalkInv, WalkSees
<1> QED BY <1>2, <1>3, <1>4, <1>5, <1>6 DEF LogsInv

(* Every step of a handler or of the reader keeps it.                      *)
LEMMA LogsStep == LogsInv /\ (LogMove \/ UNCHANGED logVars) => LogsInv'
<1> SUFFICES ASSUME LogsInv, LogMove \/ UNCHANGED logVars PROVE LogsInv'
  OBVIOUS
<1> USE DEF LogsInv
<1>1. CASE LogMove
  <2>1. LogTypeOK'
    BY <1>1, TypeHandler, TypeOthers DEF LogMove
  <2>2. HandlerInv'
    BY <1>1, HandlerStep, HandlerOthers DEF LogMove
  <2> QED BY <1>1, <2>1, <2>2, WithinStep, DumpStep, MoveStep, WalkStep
<1>2. CASE UNCHANGED logVars
  <2> USE <1>2 DEF logVars, redis, handler, walker, lhist
  <2>1. LogTypeOK'
    BY DEF LogTypeOK
  <2>2. HandlerInv'
    BY DEF HandlerInv, DumpDue, StopId
  <2>3. Within' /\ OnDisk' = OnDisk
    BY DEF Within, OnDisk
  <2>4. DumpInv'
    BY <2>3 DEF DumpInv, Pending, DumpDue, Container
  <2>5. MoveInv' /\ NewestInRedis'
    BY DEF MoveInv, NewestInRedis
  <2>6. WalkInv'
    BY <2>3 DEF WalkInv, WalkSees, Stored, Archived, Pending, DumpDue, Container
  <2> QED BY <2>1, <2>2, <2>3, <2>4, <2>5, <2>6
<1> QED BY <1>1, <1>2

(* The log handler on its own takes such steps only.                       *)
LEMMA LogsInductive == LogSpec => []LogsInv
<1>1. [LogNext]_logVars => (LogMove \/ UNCHANGED logVars)
  BY DEF LogNext, LogMove, LogCrash, LogExit
<1>2. LogsInv /\ [LogNext]_logVars => LogsInv'
  BY <1>1, LogsStep
<1> QED BY <1>2, LogsInit, PTL DEF LogSpec

(* Type correctness of the log handlers' state.                            *)
THEOREM LogTypes == LogSpec => []LogTypeOK
<1>1. LogsInv => LogTypeOK
  BY DEF LogsInv
<1> QED BY <1>1, LogsInductive, PTL

(* The newest Batch logs are in redis, however many processes log and dump *)
(* at the same time and wherever they end: what walk_reverse relies on.    *)
THEOREM NewestKept == LogSpec => []NewestInRedis
<1>1. LogsInv => NewestInRedis
  BY DEF LogsInv
<1> QED BY <1>1, LogsInductive, PTL

(* A log is lost only by a request, by the rotation, or with a batch whose *)
(* dump was cut short or is late (_data_container_dump).                   *)
THEOREM LogsFound == LogSpec => []LostOnlyIfHurt
<1>1. LogsInv => LostOnlyIfHurt
  BY NothingLost DEF LogsInv
<1> QED BY <1>1, LogsInductive, PTL

(* A walk during which nothing moved hands out what was there when it      *)
(* began (LoggerClient.walk), however many logs were added meanwhile.      *)
THEOREM WalkComplete == LogSpec => []WalkSees
<1>1. LogsInv => WalkSees
  BY DEF LogsInv, WalkInv
<1> QED BY <1>1, LogsInductive, PTL
=============================================================================
