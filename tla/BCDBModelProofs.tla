-------------------------- MODULE BCDBModelProofs --------------------------
(* Proofs about BCDBModel, for any set of processes and names, any number  *)
(* of ids and either store.                                                *)
EXTENDS BCDBModel, FiniteSetTheorems, TLAPS

(* The empty store and index are well-typed, and no process is at work.    *)
LEMMA InitType == Init => TypeOK
  BY ModelAssumption
  DEF Init, TypeOK, DiskType, ProcType, ProcStates, Labelled, Row, NoRows, NoObj, Ids, NoId, Saving, Numbered

(* A new object: the counter stays within its bound, and the id taken from *)
(* it is one of Ids.                                                       *)
LEMMA SetNewType == ASSUME TypeOK, NEW p \in Procs, SetNew(p) PROVE TypeOK'
<1>1. next \in Ids /\ next # NoId /\ next + 1 \in 1..(MaxId + 1)
  BY ModelAssumption DEF SetNew, Ids, NoId
<1>2. CASE Stor = "RDB"
  <2>1. /\ next' = next + 1 /\ key' = [key EXCEPT ![p] = next] /\ pc' = [pc EXCEPT ![p] = "hset"]
        /\ UNCHANGED <<store, obj, index, found, old, crashed, torn>> /\ pc[p] = "stor"
    BY <1>2 DEF SetNew, Goto
  <2>2. DiskType' /\ ProcType'
    BY <1>1, <2>1 DEF TypeOK, DiskType, ProcType, ProcStates
  <2>3. ASSUME NEW q \in Procs PROVE Labelled(q)'
    BY <1>1, <2>1 DEF TypeOK, ProcType, ProcStates, Labelled, Saving, Numbered
  <2> QED BY <2>2, <2>3 DEF TypeOK
<1>3. CASE Stor # "RDB"
  <2>1. /\ next' = next + 1 /\ store' = [store EXCEPT ![next] = obj[p].name]
        /\ obj' = [obj EXCEPT ![p].id = next] /\ pc' = [pc EXCEPT ![p] = "row"]
        /\ UNCHANGED <<key, index, found, old, crashed, torn>> /\ pc[p] = "stor"
    BY <1>3 DEF SetNew, Goto
  <2>2. DiskType' /\ ProcType'
    BY <1>1, <2>1 DEF TypeOK, DiskType, ProcType, ProcStates, Row
  <2>3. ASSUME NEW q \in Procs PROVE Labelled(q)'
    BY <1>1, <2>1 DEF TypeOK, ProcType, ProcStates, Labelled, Saving, Numbered
  <2> QED BY <2>2, <2>3 DEF TypeOK
<1> QED BY <1>2, <1>3

(* An update: the store gets the object's name, or refuses it.             *)
LEMMA SetKeyType == ASSUME TypeOK, NEW p \in Procs, SetKey(p) PROVE TypeOK'
<1>1. obj[p].id \in Ids /\ obj[p].name \in Names \cup {None} /\ obj[p].name # None
  BY DEF SetKey, TypeOK, ProcType, Labelled, Saving
<1>2. DiskType'
  BY <1>1 DEF SetKey, Overlap, TypeOK, DiskType, Row
<1>3. pc' = [pc EXCEPT ![p] = "idle"] \/ pc' = [pc EXCEPT ![p] = "row"]
  BY DEF SetKey, Goto
<1>4. UNCHANGED <<obj, key, found>> /\ pc[p] = "stor" /\ obj[p].id # NoId
  BY DEF SetKey
<1>5. ProcType' /\ \A q \in Procs : Labelled(q)'
  BY <1>1, <1>3, <1>4 DEF TypeOK, ProcType, ProcStates, Labelled, Saving, Numbered
<1> QED BY <1>2, <1>5 DEF TypeOK

(* Writing the row: the index gets the object's name, or the id is torn.   *)
LEMMA RowType ==
    ASSUME TypeOK, NEW p \in Procs, pc[p] \in {"create", "update"}, Refuse(p) \/ WriteRow(p),
           UNCHANGED <<store, next, obj, key, found, old, crashed>>
    PROVE  TypeOK'
<1>1. obj[p].id \in Ids /\ obj[p].name \in Names \cup {None}
  BY DEF TypeOK, ProcType, Labelled, Numbered
<1>2. DiskType'
  BY <1>1 DEF TypeOK, DiskType, Row, Refuse, WriteRow
<1>3. pc' = [pc EXCEPT ![p] = "idle"]
  BY DEF Refuse, WriteRow, Goto
<1>4. ProcType' /\ \A q \in Procs : Labelled(q)'
  BY <1>3 DEF TypeOK, ProcType, ProcStates, Labelled, Saving, Numbered
<1> QED BY <1>2, <1>4 DEF TypeOK

(* The walk of a rebuild takes a stored object in hand.                    *)
LEMMA WalkType == ASSUME TypeOK, NEW p \in Procs, Walk(p) PROVE TypeOK'
<1>1. PICK i \in found[p] :
        /\ found' = [found EXCEPT ![p] = @ \ {i}]
        /\ obj' = [obj EXCEPT ![p] = IF store[i] = None THEN NoObj ELSE [id |-> i, name |-> store[i]]]
        /\ pc' = [pc EXCEPT ![p] = IF store[i] = None THEN "walk" ELSE "reindex"]
  BY DEF Walk, Goto
<1>2. i \in Ids /\ i # NoId /\ store[i] \in Names \cup {None} /\ pc[p] = "walk" /\ UNCHANGED <<disk, key, old, crashed, torn>>
  BY DEF TypeOK, DiskType, ProcType, Row, Walk, Ids, NoId
<1>3. DiskType'
  BY <1>2 DEF TypeOK, DiskType, disk
<1>4. ProcType'
  BY <1>1, <1>2 DEF TypeOK, ProcType, ProcStates, NoObj, NoId
<1>5. ASSUME NEW q \in Procs PROVE Labelled(q)'
  BY <1>1, <1>2 DEF TypeOK, ProcType, ProcStates, Labelled, Saving, Numbered, NoObj
<1> QED BY <1>3, <1>4, <1>5 DEF TypeOK

(* destroy() removes objects one by one and then the index.                *)
LEMMA DestroyStepType == ASSUME TypeOK, NEW p \in Procs, DestroyStep(p) PROVE TypeOK'
<1>1. found' \in [Procs -> SUBSET Ids] /\ UNCHANGED <<next, obj, key, old>>
  BY DEF DestroyStep, TypeOK, ProcType
<1>2. pc' = pc \/ pc' = [pc EXCEPT ![p] = "idle"]
  BY DEF DestroyStep, Goto
<1>3. DiskType'
  BY <1>1 DEF DestroyStep, TypeOK, DiskType, ProcType, Row, NoRows
<1>4. ProcType' /\ \A q \in Procs : Labelled(q)'
  BY <1>1, <1>2 DEF DestroyStep, TypeOK, ProcType, ProcStates, Labelled, Saving, Numbered
<1> QED BY <1>3, <1>4 DEF TypeOK

(* Every step keeps the types.                                             *)
LEMMA StepType == ASSUME TypeOK, NEW p \in Procs, Step(p) PROVE TypeOK'
<1> USE ModelAssumption DEF TypeOK, DiskType, ProcType, Labelled, Row, NoRows, NoObj, Ids, NoId,
    ProcStates, Saving, Numbered, Goto, disk
<1>1. ASSUME NEW n \in Names, New(p, n) PROVE TypeOK'
  BY <1>1 DEF New
<1>2. ASSUME NEW n \in Names, Change(p, n) PROVE TypeOK'
  BY <1>2 DEF Change
<1>3. ASSUME NEW i \in Ids, Get(p, i) PROVE TypeOK'
  BY <1>3 DEF Get
<1>4. CASE FindIds(p)
  BY <1>4 DEF FindIds
<1>5. CASE Unique(p)
  BY <1>5 DEF Unique
<1>6. CASE SetNew(p)
  BY <1>6, SetNewType
<1>7. CASE HSet(p)
  BY <1>7 DEF HSet
<1>8. CASE SetKey(p)
  BY <1>8, SetKeyType
<1>9. CASE IndexRow(p)
  BY <1>9 DEF IndexRow
<1>10. CASE IndexCreate(p)
  BY <1>10, RowType DEF IndexCreate
<1>11. CASE IndexUpdate(p)
  BY <1>11 DEF IndexUpdate, Refuse, WriteRow
<1>12. CASE Delete(p)
  BY <1>12 DEF Delete, Overlap
<1>13. CASE DeleteRow(p)
  BY <1>13 DEF DeleteRow
<1>14. CASE IndexReset(p)
  BY <1>14 DEF IndexReset, WalkFrom
<1>15. CASE Walk(p)
  BY <1>15, WalkType
<1>16. CASE Reindex(p)
  BY <1>16 DEF Reindex
<1>17. CASE WalkEnd(p)
  BY <1>17 DEF WalkEnd
<1>18. CASE ModelRebuild(p)
  BY <1>18 DEF ModelRebuild
<1>19. CASE DestroyFind(p)
  BY <1>19 DEF DestroyFind
<1>20. CASE DestroyStep(p)
  BY <1>20, DestroyStepType
<1>21. CASE Crash(p)
  BY <1>21 DEF Crash, Open, Wiped
<1> QED
  BY <1>1, <1>2, <1>3, <1>4, <1>5, <1>6, <1>7, <1>8, <1>9, <1>10, <1>11, <1>12, <1>13, <1>14,
     <1>15, <1>16, <1>17, <1>18, <1>19, <1>20, <1>21 DEF Step

(* A save or a delete goes to the index only with an object that has an    *)
(* id, whatever was refused, interrupted or rebuilt before.                *)
THEOREM TypeCorrect == Spec => []TypeOK
<1>1. TypeOK /\ [Next]_vars => TypeOK'
  <2> SUFFICES ASSUME TypeOK, [Next]_vars PROVE TypeOK'
    OBVIOUS
  <2>1. CASE Next
    BY <2>1, StepType DEF Next
  <2>2. CASE UNCHANGED vars
    BY <2>2 DEF vars, disk, TypeOK, DiskType, ProcType, Labelled
  <2> QED BY <2>1, <2>2
<1> QED BY <1>1, InitType, PTL DEF Spec

-----------------------------------------------------------------------------
(* Ids from the counter on are unused.                                     *)
Ahead == \A i \in Ids : i >= next => store[i] = None /\ index[i] = None

(* An id taken and not written yet is unused and has one owner.            *)
KeysFresh ==
    \A p \in Procs : pc[p] = "hset" =>
        /\ key[p] < next /\ store[key[p]] = None /\ index[key[p]] = None
        /\ \A q \in Procs \ {p} : pc[q] = "hset" => key[q] # key[p]

(* No process has an object with an id that is not handed out or written.  *)
ObjsKnown ==
    \A p \in Procs : /\ obj[p].id < next
                     /\ \A q \in Procs : pc[q] = "hset" => obj[p].id # key[q]

FreshInv == Ahead /\ KeysFresh /\ ObjsKnown

(* The store starts empty.                                                 *)
LEMMA InitFresh == Init => FreshInv
  BY ModelAssumption DEF Init, FreshInv, Ahead, KeysFresh, ObjsKnown, NoRows, NoObj, NoId, Ids

(* A step that takes no id, and writes only under the id of the object in  *)
(* hand or where something is already, keeps new ids fresh.                *)
LEMMA FreshKeep ==
    ASSUME TypeOK, TypeOK', FreshInv, NEW p \in Procs, next' = next,
           \A q \in Procs : pc'[q] = "hset" => pc[q] = "hset" /\ key'[q] = key[q],
           \A i \in Ids : store'[i] # None => store[i] # None \/ i = obj[p].id,
           \A i \in Ids : index'[i] # None => index[i] # None \/ i = obj[p].id,
           \A q \in Procs : \/ obj'[q].id \in {NoId, obj[q].id}
                            \/ obj'[q].id \in Ids /\ store[obj'[q].id] # None
    PROVE  FreshInv'
<1>1. next \in Nat /\ \A q \in Procs : obj[q].id \in Ids \cup {NoId} /\ key[q] \in Ids \cup {NoId}
  BY ModelAssumption DEF TypeOK, DiskType, ProcType
<1>2. \A q \in Procs : pc[q] = "hset" => key[q] \in Ids
  BY <1>1 DEF TypeOK, Labelled
<1>3. Ahead'
  BY <1>1 DEF FreshInv, Ahead, ObjsKnown, Ids
<1>4. KeysFresh'
  BY <1>1, <1>2 DEF FreshInv, KeysFresh, ObjsKnown
<1>5. ASSUME NEW q \in Procs PROVE obj'[q].id < next /\ \A r \in Procs : pc[r] = "hset" => obj'[q].id # key[r]
  <2>1. CASE obj'[q].id = NoId
    BY <1>1, <1>2, <2>1, ModelAssumption DEF TypeOK, DiskType, Ids, NoId
  <2>2. CASE obj'[q].id = obj[q].id
    BY <2>2 DEF FreshInv, ObjsKnown
  <2>3. CASE obj'[q].id \in Ids /\ store[obj'[q].id] # None
    BY <1>1, <2>3, ModelAssumption DEF FreshInv, Ahead, KeysFresh, Ids
  <2> QED BY <2>1, <2>2, <2>3
<1> QED BY <1>3, <1>4, <1>5 DEF FreshInv, ObjsKnown

(* The two steps of a new object in redis, and the one step in 0-db.       *)
LEMMA SetNewFresh == ASSUME TypeOK, FreshInv, NEW p \in Procs, SetNew(p) PROVE FreshInv'
<1> USE DEF FreshInv, Ahead, KeysFresh, ObjsKnown, TypeOK, DiskType, ProcType, Labelled, Row, Ids, NoId, Goto
<1>1. CASE Stor = "RDB"
  <2>1. /\ next \in Ids /\ next' = next + 1 /\ key' = [key EXCEPT ![p] = next]
        /\ pc' = [pc EXCEPT ![p] = "hset"] /\ UNCHANGED <<index, store, obj>>
    BY <1>1 DEF SetNew
  <2>2. Ahead' /\ ObjsKnown'
    BY <2>1
  <2>3. KeysFresh'
    BY <2>1
  <2> QED BY <2>2, <2>3
<1>2. CASE Stor # "RDB"
  <2>1. /\ next \in Ids /\ next' = next + 1 /\ store' = [store EXCEPT ![next] = obj[p].name]
        /\ obj' = [obj EXCEPT ![p].id = next] /\ pc' = [pc EXCEPT ![p] = "row"] /\ UNCHANGED <<index, key>>
    BY <1>2 DEF SetNew
  <2>2. Ahead' /\ KeysFresh'
    BY <2>1
  <2>3. ObjsKnown'
    BY <2>1
  <2> QED BY <2>2, <2>3
<1> QED BY <1>1, <1>2

(* HSET puts the object under its own fresh id.                            *)
LEMMA HSetFresh == ASSUME TypeOK, FreshInv, NEW p \in Procs, HSet(p) PROVE FreshInv'
  BY DEF HSet, FreshInv, Ahead, KeysFresh, ObjsKnown, TypeOK, DiskType, ProcType, Labelled, Row, Ids, NoId, Goto

(* Every step keeps new ids fresh.                                         *)
LEMMA StepFresh == ASSUME TypeOK, FreshInv, NEW p \in Procs, Step(p) PROVE FreshInv'
<1> USE DEF Goto, disk
<1>0. /\ TypeOK' /\ pc \in [Procs -> ProcStates] /\ obj[p].id \in Ids \cup {NoId}
      /\ obj \in [Procs -> [id: Ids \cup {NoId}, name: Names \cup {None}]]
      /\ store \in Row /\ index \in Row /\ key \in [Procs -> Ids \cup {NoId}] /\ found[p] \subseteq Ids
  BY StepType DEF TypeOK, DiskType, ProcType
<1>1. ASSUME NEW n \in Names, New(p, n) PROVE FreshInv'
  BY <1>0, <1>1, FreshKeep DEF New
<1>2. ASSUME NEW n \in Names, Change(p, n) PROVE FreshInv'
  BY <1>0, <1>2, FreshKeep DEF Change
<1>3. ASSUME NEW i \in Ids, Get(p, i) PROVE FreshInv'
  BY <1>0, <1>3, FreshKeep DEF Get
<1>4. CASE FindIds(p)
  BY <1>0, <1>4, FreshKeep DEF FindIds
<1>5. CASE Unique(p)
  BY <1>0, <1>5, FreshKeep DEF Unique
<1>6. CASE SetNew(p)
  BY <1>6, SetNewFresh
<1>7. CASE HSet(p)
  BY <1>7, HSetFresh
<1>8. CASE SetKey(p)
  BY <1>0, <1>8, FreshKeep DEF SetKey, Row
<1>9. CASE IndexRow(p)
  BY <1>0, <1>9, FreshKeep DEF IndexRow
<1>10. CASE IndexCreate(p)
  BY <1>0, <1>10, FreshKeep DEF IndexCreate, Refuse, WriteRow, Row
<1>11. CASE IndexUpdate(p)
  BY <1>0, <1>11, FreshKeep DEF IndexUpdate, Refuse, WriteRow, Row
<1>12. CASE Delete(p)
  BY <1>0, <1>12, FreshKeep DEF Delete, Row
<1>13. CASE DeleteRow(p)
  BY <1>0, <1>13, FreshKeep DEF DeleteRow, Row, NoObj
<1>14. CASE IndexReset(p)
  BY <1>0, <1>14, FreshKeep DEF IndexReset, WalkFrom, NoRows, NoObj
<1>15. CASE Walk(p)
  BY <1>0, <1>15, FreshKeep DEF Walk, NoObj
<1>16. CASE Reindex(p)
  BY <1>0, <1>16, FreshKeep DEF Reindex, NoObj
<1>17. CASE WalkEnd(p)
  BY <1>0, <1>17, FreshKeep DEF WalkEnd
<1>18. CASE ModelRebuild(p)
  BY <1>0, <1>18, FreshKeep DEF ModelRebuild, NoRows
<1>19. CASE DestroyFind(p)
  BY <1>0, <1>19, FreshKeep DEF DestroyFind, NoObj
<1>20. CASE DestroyStep(p)
  BY <1>0, <1>20, FreshKeep DEF DestroyStep, NoRows, Row
<1>21. CASE Crash(p)
  BY <1>0, <1>21, FreshKeep DEF Crash, NoObj
<1> QED
  BY <1>1, <1>2, <1>3, <1>4, <1>5, <1>6, <1>7, <1>8, <1>9, <1>10, <1>11, <1>12, <1>13, <1>14,
     <1>15, <1>16, <1>17, <1>18, <1>19, <1>20, <1>21 DEF Step

(* Both invariants together are inductive.                                 *)
LEMMA FreshInductive == Spec => [](TypeOK /\ FreshInv)
<1>1. TypeOK /\ FreshInv /\ [Next]_vars => (TypeOK /\ FreshInv)'
  <2> SUFFICES ASSUME TypeOK, FreshInv, [Next]_vars PROVE TypeOK' /\ FreshInv'
    OBVIOUS
  <2>1. CASE Next
    BY <2>1, StepType, StepFresh DEF Next
  <2>2. CASE UNCHANGED vars
    BY <2>2 DEF vars, disk, TypeOK, DiskType, ProcType, Labelled, FreshInv, Ahead, KeysFresh, ObjsKnown
  <2> QED BY <2>1, <2>2
<1> QED BY <1>1, InitType, InitFresh, PTL DEF Spec

(* A new object never overwrites another one, although RDBClient.set takes *)
(* its id and writes under it with two commands: any number of processes,  *)
(* crashes, deletes and rebuilds in between.                               *)
THEOREM NewIdsFresh == Spec => []FreshIds
<1>1. TypeOK /\ FreshInv => FreshIds
  BY DEF FreshInv, KeysFresh, FreshIds
<1> QED BY <1>1, FreshInductive, PTL

-----------------------------------------------------------------------------
(* p is between the two writes of a save or delete of id i.                *)
IsOpen(p, i) == pc[p] \in {"row", "create", "update", "delrow"} /\ obj[p].id = i

(* What such a process has left in the store, and found in the index.      *)
Between(p, i) ==
    /\ store[i] = IF pc[p] = "delrow" THEN None ELSE obj[p].name
    /\ pc[p] = "create" => index[i] = None
    /\ pc[p] = "update" => index[i] # None

(* Store and index agree about id i, or exactly one process is about to    *)
(* make them agree.                                                        *)
Settled(i) ==
    /\ (\A p \in Procs : ~IsOpen(p, i)) => index[i] = store[i]
    /\ \A p \in Procs : IsOpen(p, i) => Between(p, i) /\ \A q \in Procs \ {p} : ~IsOpen(q, i)

(* A rebuild gives up on all ids before it writes rows of its own.         *)
Rebuilding == \A p \in Procs : pc[p] \in {"walk", "reindex"} => torn = Ids

SettledInv == Rebuilding /\ \A i \in Ids \ torn : Settled(i)

(* Nothing is written and nobody is at work.                               *)
LEMMA InitSettled == Init => SettledInv
  BY DEF Init, SettledInv, Rebuilding, Settled, IsOpen

(* A step that touches id i neither on disk nor in a save or delete.       *)
LEMMA SettledKeep ==
    ASSUME NEW i \in Ids, Settled(i), store'[i] = store[i], index'[i] = index[i],
           \A q \in Procs : \/ pc'[q] = pc[q] /\ obj'[q] = obj[q]
                            \/ ~IsOpen(q, i) /\ ~IsOpen(q, i)'
    PROVE  Settled(i)'
  BY DEF Settled, IsOpen, Between

(* One process alone opens id i, or goes on with it.                       *)
LEMMA SettledOpen ==
    ASSUME NEW i \in Ids, NEW p \in Procs, IsOpen(p, i)', Between(p, i)',
           \A q \in Procs \ {p} : ~IsOpen(q, i) /\ pc'[q] = pc[q] /\ obj'[q] = obj[q]
    PROVE  Settled(i)'
  BY DEF Settled, IsOpen

(* The only process that had id i open closes it, and the two agree.       *)
LEMMA SettledClose ==
    ASSUME NEW i \in Ids, NEW p \in Procs, IsOpen(p, i), Settled(i), ~IsOpen(p, i)', index'[i] = store'[i],
           \A q \in Procs \ {p} : pc'[q] = pc[q] /\ obj'[q] = obj[q]
    PROVE  Settled(i)'
  BY DEF Settled, IsOpen

(* Steps that leave the disk alone and open or close nothing.              *)
LEMMA QuietSettled ==
    ASSUME SettledInv, NEW p \in Procs, UNCHANGED <<store, index, torn>>,
           pc[p] \notin {"row", "create", "update", "delrow"}, pc'[p] \notin {"row", "create", "update", "delrow"},
           pc'[p] \in {"walk", "reindex"} => pc[p] \in {"walk", "reindex"},
           \A q \in Procs \ {p} : pc'[q] = pc[q] /\ obj'[q] = obj[q]
    PROVE  SettledInv'
<1>1. Rebuilding'
  BY DEF SettledInv, Rebuilding
<1>2. ASSUME NEW i \in Ids \ torn PROVE Settled(i)'
  BY <1>2, SettledKeep DEF SettledInv, IsOpen
<1> QED BY <1>1, <1>2 DEF SettledInv

(* After a step that gives up on all ids nothing is claimed.               *)
LEMMA TornSettled == ASSUME torn' = Ids PROVE SettledInv'
  BY DEF SettledInv, Rebuilding

(* The first write of a save or a delete of id k, by p.                    *)
LEMMA WriteSettled ==
    ASSUME TypeOK, SettledInv, NEW p \in Procs, NEW k \in Ids, NEW n,
           store' = [store EXCEPT ![k] = n], UNCHANGED index,
           torn' = torn \/ torn' = torn \cup Overlap(p, k),
           torn' = torn => k \in torn \/ \A q \in Procs \ {p} : ~IsOpen(q, k),
           pc[p] \notin {"row", "create", "update", "delrow"},
           IsOpen(p, k)', pc'[p] \in {"row", "delrow"}, n = IF pc'[p] = "delrow" THEN None ELSE obj'[p].name,
           \A q \in Procs \ {p} : pc'[q] = pc[q] /\ obj'[q] = obj[q]
    PROVE  SettledInv'
<1>1. Rebuilding'
  BY DEF SettledInv, Rebuilding, Overlap, TypeOK, DiskType
<1>2. ASSUME NEW i \in Ids \ torn' PROVE Settled(i)'
  <2>1. Settled(i) /\ store'[k] = n
    BY DEF SettledInv, Overlap, TypeOK, DiskType, Row
  <2>2. CASE i # k
    <3>1. store'[i] = store[i] /\ index'[i] = index[i]
      BY <2>2 DEF TypeOK, DiskType, Row
    <3>2. ~IsOpen(p, i) /\ ~IsOpen(p, i)'
      BY <2>2 DEF IsOpen
    <3> QED BY <2>1, <3>1, <3>2, SettledKeep
  <2>3. CASE i = k
    <3>1. \A q \in Procs \ {p} : ~IsOpen(q, i)
      BY <2>3 DEF Overlap, Open, IsOpen
    <3>2. Between(p, i)'
      BY <2>1, <2>3 DEF Between
    <3> QED BY <2>3, <3>1, <3>2, SettledOpen
  <2> QED BY <2>2, <2>3
<1> QED BY <1>1, <1>2 DEF SettledInv

(* A new object: nobody else can have its id open.                         *)
LEMMA NewSettled == ASSUME TypeOK, FreshInv, SettledInv, NEW p \in Procs, SetNew(p) \/ HSet(p) PROVE SettledInv'
<1> USE DEF Goto
<1>1. CASE SetNew(p) /\ Stor = "RDB"
  BY <1>1, QuietSettled DEF SetNew, TypeOK, ProcType
<1>2. CASE SetNew(p) /\ Stor # "RDB"
  <2>0. PICK k \in Ids : k = next
    BY <1>2 DEF SetNew
  <2>1. \A q \in Procs : ~IsOpen(q, k)
    BY <1>2, <2>0 DEF FreshInv, ObjsKnown, IsOpen, TypeOK, ProcType, Ids, NoId
  <2>2. obj'[p].name = obj[p].name /\ IsOpen(p, k)' /\ pc'[p] = "row"
    BY <1>2, <2>0 DEF SetNew, IsOpen, TypeOK, ProcType
  <2>3. /\ store' = [store EXCEPT ![k] = obj[p].name] /\ UNCHANGED <<index, torn>> /\ pc[p] = "stor"
        /\ \A q \in Procs \ {p} : pc'[q] = pc[q] /\ obj'[q] = obj[q]
    BY <1>2, <2>0 DEF SetNew, TypeOK, ProcType
  <2> QED BY <2>1, <2>2, <2>3, WriteSettled
<1>3. CASE HSet(p)
  <2>0. PICK k \in Ids : k = key[p]
    BY <1>3 DEF HSet, TypeOK, ProcType, Labelled
  <2>1. \A q \in Procs : ~IsOpen(q, k)
    BY <1>3, <2>0 DEF HSet, FreshInv, ObjsKnown, IsOpen
  <2>2. obj'[p].name = obj[p].name /\ IsOpen(p, k)' /\ pc'[p] = "row"
    BY <1>3, <2>0 DEF HSet, IsOpen, TypeOK, ProcType
  <2>3. /\ store' = [store EXCEPT ![k] = obj[p].name] /\ UNCHANGED <<index, torn>> /\ pc[p] = "hset"
        /\ \A q \in Procs \ {p} : pc'[q] = pc[q] /\ obj'[q] = obj[q]
    BY <1>3, <2>0 DEF HSet, TypeOK, ProcType
  <2> QED BY <2>1, <2>2, <2>3, WriteSettled
<1> QED BY <1>1, <1>2, <1>3

(* set() of an object with an id, and delete().                            *)
LEMMA ChangeSettled ==
    ASSUME TypeOK, SettledInv, NEW p \in Procs, SetKey(p) \/ Delete(p) PROVE SettledInv'
<1> USE DEF Goto
<1>0. PICK k \in Ids : k = obj[p].id
  BY DEF SetKey, Delete, TypeOK, ProcType
<1>1. CASE SetKey(p) /\ Stor = "ZDB" /\ store[k] = None
  BY <1>0, <1>1, QuietSettled DEF SetKey, TypeOK, ProcType
<1>2. CASE ~(SetKey(p) /\ Stor = "ZDB" /\ store[k] = None)
  <2>1. /\ UNCHANGED <<index, obj>> /\ torn' = torn \cup Overlap(p, k)
        /\ pc[p] \notin {"row", "create", "update", "delrow"}
    BY <1>0, <1>2 DEF SetKey, Delete
  <2>2. \/ pc' = [pc EXCEPT ![p] = "row"] /\ store' = [store EXCEPT ![k] = obj[p].name]
        \/ pc' = [pc EXCEPT ![p] = "delrow"] /\ store' = [store EXCEPT ![k] = None]
    BY <1>0, <1>2 DEF SetKey, Delete
  <2>3. /\ pc'[p] \in {"row", "delrow"} /\ IsOpen(p, k)'
        /\ store' = [store EXCEPT ![k] = IF pc'[p] = "delrow" THEN None ELSE obj'[p].name]
        /\ \A q \in Procs \ {p} : pc'[q] = pc[q] /\ obj'[q] = obj[q]
    BY <1>0, <2>1, <2>2 DEF IsOpen, TypeOK, ProcType
  <2>4. torn' = torn => k \in torn \/ \A q \in Procs \ {p} : ~IsOpen(q, k)
    BY <2>1 DEF Overlap, Open, IsOpen
  <2> QED BY <2>1, <2>3, <2>4, WriteSettled
<1> QED BY <1>1, <1>2

(* The second write: the row is looked up, written, refused or deleted.    *)
LEMMA RowSettled ==
    ASSUME TypeOK, SettledInv, NEW p \in Procs,
           IndexRow(p) \/ IndexCreate(p) \/ IndexUpdate(p) \/ DeleteRow(p)
    PROVE  SettledInv'
<1> USE DEF Goto
<1>0. PICK k \in Ids : k = obj[p].id
  BY DEF IndexRow, IndexCreate, IndexUpdate, DeleteRow, TypeOK, ProcType, Labelled, Numbered
<1>1. /\ IsOpen(p, k) /\ UNCHANGED store
      /\ pc' \in [Procs -> ProcStates] /\ pc'[p] \notin {"walk", "reindex"} /\ torn \subseteq torn' /\ torn' \subseteq Ids
      /\ \A q \in Procs \ {p} : pc'[q] = pc[q] /\ obj'[q] = obj[q]
  BY <1>0 DEF IndexRow, IndexCreate, IndexUpdate, DeleteRow, Refuse, WriteRow, disk, IsOpen, TypeOK, DiskType,
              ProcType, ProcStates, Labelled, Numbered
<1>2. Rebuilding'
  BY <1>1 DEF SettledInv, Rebuilding
<1>3. ASSUME NEW i \in Ids \ torn', i # k PROVE Settled(i)'
  <2>1. Settled(i) /\ index'[i] = index[i] /\ ~IsOpen(p, i) /\ ~IsOpen(p, i)'
    <3>1. Settled(i) /\ ~IsOpen(p, i)
      BY <1>0, <1>1, <1>3 DEF IsOpen, SettledInv
    <3>2. index'[i] = index[i]
      BY <1>0, <1>3 DEF IndexRow, IndexCreate, IndexUpdate, DeleteRow, Refuse, WriteRow, disk, TypeOK, DiskType, Row
    <3>3. obj'[p].id = k \/ obj'[p].id = NoId
      BY <1>0 DEF IndexRow, IndexCreate, IndexUpdate, DeleteRow, disk, NoObj, TypeOK, ProcType
    <3>4. ~IsOpen(p, i)'
      BY <3>3, <1>3 DEF IsOpen, NoId, Ids
    <3> QED BY <3>1, <3>2, <3>4
  <2> QED BY <1>1, <2>1, SettledKeep
<1>4. ASSUME k \notin torn' PROVE Settled(k)'
  <2>1. Settled(k) /\ Between(p, k) /\ \A q \in Procs \ {p} : ~IsOpen(q, k)
    BY <1>1, <1>4 DEF SettledInv, Settled
  <2>2. CASE IndexRow(p)
    <3>1. IsOpen(p, k)' /\ Between(p, k)'
      BY <1>0, <2>1, <2>2 DEF IndexRow, IsOpen, Between, disk, TypeOK, ProcType
    <3> QED BY <1>1, <2>1, <3>1, SettledOpen
  <2>3. CASE IndexCreate(p) \/ IndexUpdate(p)
    <3>1. WriteRow(p)
      BY <1>0, <1>4, <2>1, <2>3 DEF IndexCreate, IndexUpdate, Refuse, Between
    <3>2. index'[k] = store'[k] /\ ~IsOpen(p, k)'
      BY <1>0, <1>1, <2>1, <2>3, <3>1 DEF WriteRow, IndexCreate, IndexUpdate, Between, IsOpen, TypeOK, DiskType, ProcType, Row
    <3> QED BY <1>1, <2>1, <3>2, SettledClose
  <2>4. CASE DeleteRow(p)
    <3>1. index'[k] = store'[k] /\ ~IsOpen(p, k)'
      BY <1>0, <1>1, <2>1, <2>4 DEF DeleteRow, Between, IsOpen, TypeOK, DiskType, ProcType, Row
    <3> QED BY <1>1, <2>1, <3>1, SettledClose
  <2> QED BY <2>2, <2>3, <2>4
<1> QED BY <1>2, <1>3, <1>4 DEF SettledInv

(* destroy() gives up on an id when it deletes the object.                 *)
LEMMA DestroySettled == ASSUME TypeOK, SettledInv, NEW p \in Procs, DestroyStep(p) PROVE SettledInv'
<1>1. CASE torn' = Ids
  BY <1>1, TornSettled
<1>2. CASE torn' # Ids
  <2>1. PICK k \in found[p] : store' = [store EXCEPT ![k] = None] /\ torn' = torn \cup {k} /\ UNCHANGED <<index, pc, obj>>
    BY <1>2 DEF DestroyStep
  <2>2. Rebuilding'
    BY <2>1 DEF SettledInv, Rebuilding, TypeOK, ProcType
  <2>3. ASSUME NEW i \in Ids \ torn' PROVE Settled(i)'
    BY <2>1, <2>3, SettledKeep DEF SettledInv, TypeOK, DiskType, Row
  <2> QED BY <2>2, <2>3 DEF SettledInv
<1> QED BY <1>1, <1>2

(* A crash between two writes gives up on that id.                         *)
LEMMA CrashSettled == ASSUME TypeOK, SettledInv, NEW p \in Procs, Crash(p) PROVE SettledInv'
<1>1. /\ torn' = torn \cup Open(p) /\ Open(p) \subseteq Ids /\ UNCHANGED <<store, index>> /\ pc'[p] = "idle"
      /\ \A q \in Procs \ {p} : pc'[q] = pc[q] /\ obj'[q] = obj[q]
  BY DEF Crash, Goto, Open, disk, TypeOK, ProcType, Labelled, Numbered
<1>2. Rebuilding'
  BY <1>1 DEF SettledInv, Rebuilding
<1>3. ASSUME NEW i \in Ids \ torn' PROVE Settled(i)'
  BY <1>1, <1>3, SettledKeep DEF SettledInv, IsOpen, Open
<1> QED BY <1>2, <1>3 DEF SettledInv

(* Every step keeps the agreement.                                         *)
LEMMA StepSettled == ASSUME TypeOK, FreshInv, SettledInv, NEW p \in Procs, Step(p) PROVE SettledInv'
<1> USE DEF Goto, disk
<1>0. pc \in [Procs -> ProcStates] /\ obj \in [Procs -> [id: Ids \cup {NoId}, name: Names \cup {None}]]
  BY DEF TypeOK, ProcType
<1>1. ASSUME NEW n \in Names, New(p, n) \/ Change(p, n) PROVE SettledInv'
  BY <1>0, <1>1, QuietSettled DEF New, Change
<1>2. ASSUME NEW i \in Ids, Get(p, i) PROVE SettledInv'
  BY <1>0, <1>2, QuietSettled DEF Get
<1>3. CASE FindIds(p)
  BY <1>0, <1>3, QuietSettled DEF FindIds
<1>4. CASE Unique(p)
  BY <1>0, <1>4, QuietSettled DEF Unique
<1>5. CASE SetNew(p) \/ HSet(p)
  BY <1>5, NewSettled
<1>6. CASE SetKey(p) \/ Delete(p)
  BY <1>6, ChangeSettled
<1>7. CASE IndexRow(p) \/ IndexCreate(p) \/ IndexUpdate(p) \/ DeleteRow(p)
  BY <1>7, RowSettled
<1>8. CASE IndexReset(p) \/ ModelRebuild(p)
  BY <1>8, TornSettled DEF IndexReset, WalkFrom, ModelRebuild
<1>9. CASE Walk(p) \/ Reindex(p)
  <2>1. torn = Ids /\ UNCHANGED torn
    BY <1>9 DEF Walk, Reindex, SettledInv, Rebuilding
  <2> QED BY <2>1, TornSettled
<1>10. CASE WalkEnd(p)
  BY <1>0, <1>10, QuietSettled DEF WalkEnd
<1>11. CASE DestroyFind(p)
  BY <1>0, <1>11, QuietSettled DEF DestroyFind
<1>12. CASE DestroyStep(p)
  BY <1>12, DestroySettled
<1>13. CASE Crash(p)
  BY <1>13, CrashSettled
<1> QED BY <1>1, <1>2, <1>3, <1>4, <1>5, <1>6, <1>7, <1>8, <1>9, <1>10, <1>11, <1>12, <1>13 DEF Step

(* The store and the index disagree about an object only after a crash     *)
(* between its two writes, a refusal of the second one, an overlap of two  *)
(* processes on the same id, or while one process is between them: other   *)
(* objects are never affected, whatever happens to this one.               *)
THEOREM StoreAndIndexAgree == Spec => []Consistent
<1> DEFINE Inv == TypeOK /\ FreshInv /\ SettledInv
<1>1. Inv /\ [Next]_vars => Inv'
  <2> SUFFICES ASSUME Inv, [Next]_vars PROVE Inv'
    OBVIOUS
  <2>1. CASE Next
    BY <2>1, StepType, StepFresh, StepSettled DEF Next
  <2>2. CASE UNCHANGED vars
    BY <2>2 DEF vars, disk, TypeOK, DiskType, ProcType, Labelled, FreshInv, Ahead, KeysFresh, ObjsKnown,
                SettledInv, Rebuilding, Settled, IsOpen, Between
  <2> QED BY <2>1, <2>2
<1>2. Inv => Consistent
  BY DEF SettledInv, Settled, IsOpen, Consistent, Open
<1>3. Init => Inv
  BY InitType, InitFresh, InitSettled
<1> QED BY <1>1, <1>2, <1>3, PTL DEF Spec

-----------------------------------------------------------------------------
(* One process at work.                                                    *)
Alone == \A p, q \in Procs : p = q

(* What the index shows is stored, but for what the process is dealing     *)
(* with.                                                                   *)
RowsShown ==
    crashed = {} => \A i \in Ids : index[i] # None =>
        \/ index[i] = store[i]
        \/ \E p \in Procs : IsOpen(p, i) \/ (pc[p] = "wipe" /\ store[i] = None)

(* A save that has checked its name can write the row.                     *)
NameClear ==
    \A p \in Procs :
        /\ crashed = {} /\ pc[p] = "unique" => found[p] = {i \in Ids : index[i] = obj[p].name}
        /\ crashed = {} /\ pc[p] \in {"stor", "row", "create", "update"} /\ obj[p].id # NoId /\ index[obj[p].id] # None
             => ~Taken(obj[p].id, obj[p].name)
        /\ pc[p] = "create" => index[obj[p].id] = None
        /\ pc[p] \in {"row", "create", "update", "reindex"} => store[obj[p].id] = obj[p].name
        /\ pc[p] = "delrow" => store[obj[p].id] = None

(* The walk of a rebuild has found every name it came by.                  *)
WalkShown ==
    \A p \in Procs : pc[p] \in {"walk", "reindex"} =>
        /\ crashed = {}
        /\ \A i \in Ids \ found[p] : store[i] # None /\ ~(pc[p] = "reindex" /\ i = obj[p].id)
             => \E k \in Ids : index[k] = store[i]

AloneInv == RowsShown /\ NameClear /\ WalkShown

(* An object that was refused or cut short never has its name taken from   *)
(* it: Unique lets a save pass only when no other row shows the name.      *)
LEMMA UniqueClear ==
    ASSUME TypeOK, AloneInv, NEW p \in Procs, pc[p] = "unique", crashed = {}, obj[p].id # NoId,
           \A q \in Procs : q = p,
           LET r == {i \in found[p] : store[i] # None} IN ~(Cardinality(r) > 1 \/ (r # {} /\ obj[p].id \notin r))
    PROVE  ~Taken(obj[p].id, obj[p].name)
<1> SUFFICES ASSUME NEW k \in Ids, k # obj[p].id, index[k] = obj[p].name PROVE FALSE
  BY DEF Taken
<1> DEFINE r == {i \in found[p] : store[i] # None}
<1>1. obj[p].name # None /\ found[p] \subseteq Ids
  BY DEF TypeOK, ProcType, Labelled, Saving
<1>2. k \in found[p]
  BY DEF AloneInv, NameClear
<1>3. index[k] = store[k]
  BY <1>1 DEF AloneInv, RowsShown, IsOpen
<1>4. k \in r
  BY <1>1, <1>2, <1>3
<1>5. obj[p].id \in r /\ ~(Cardinality(r) > 1)
  BY <1>4
<1>6. IsFiniteSet(r)
  <2>1. IsFiniteSet(Ids)
    BY FS_Interval, ModelAssumption DEF Ids
  <2> QED BY <1>1, <2>1, FS_Subset
<1>7. Cardinality(r) \in Nat /\ Cardinality(r) # 0
  BY <1>4, <1>6, FS_CardinalityType, FS_EmptySet
<1>8. Cardinality(r) = 1
  BY <1>5, <1>7
<1>9. PICK x : r = {x}
  BY <1>6, <1>8, FS_Singleton
<1> QED BY <1>4, <1>5, <1>9

(* A step that writes nothing and starts or ends no write keeps what the   *)
(* index shows.                                                            *)
LEMMA AloneKeep ==
    ASSUME AloneInv, NEW p \in Procs, \A q \in Procs : q = p, UNCHANGED <<store, index, crashed>>,
           pc[p] \notin {"row", "create", "update", "delrow", "walk", "reindex", "wipe"},
           pc'[p] \in {"idle", "find", "hset", "wipe"}
    PROVE  AloneInv'
<1>1. RowsShown'
  BY DEF AloneInv, RowsShown, IsOpen
<1>2. NameClear' /\ WalkShown'
  BY DEF NameClear, WalkShown
<1> QED BY <1>1, <1>2 DEF AloneInv

(* The process checks the name of what it saves.                           *)
LEMMA AloneCheck ==
    ASSUME TypeOK, AloneInv, NEW p \in Procs, \A q \in Procs : q = p, FindIds(p) \/ Unique(p)
    PROVE  AloneInv'
<1>1. UNCHANGED <<store, index, crashed, obj>> /\ pc \in [Procs -> ProcStates] /\ found \in [Procs -> SUBSET Ids]
  BY DEF FindIds, Unique, disk, TypeOK, ProcType
<1>2. CASE FindIds(p)
  <2>1. pc[p] = "find" /\ pc'[p] = "unique" /\ found'[p] = {i \in Ids : index[i] = obj[p].name}
    BY <1>1, <1>2 DEF FindIds, Goto
  <2>2. RowsShown'
    BY <1>1, <2>1 DEF AloneInv, RowsShown, IsOpen
  <2>3. NameClear'
    BY <1>1, <2>1 DEF NameClear
  <2>4. WalkShown'
    BY <2>1 DEF WalkShown
  <2> QED BY <2>2, <2>3, <2>4 DEF AloneInv
<1>3. CASE Unique(p)
  <2> DEFINE r == {i \in found[p] : store[i] # None}
             refused == Cardinality(r) > 1 \/ (r # {} /\ obj[p].id # NoId /\ obj[p].id \notin r)
  <2>1. pc[p] = "unique" /\ pc'[p] = IF refused THEN "idle" ELSE "stor"
    BY <1>1, <1>3 DEF Unique, Goto
  <2>2. CASE refused
    BY <1>1, <2>1, <2>2, AloneKeep
  <2>3. CASE ~refused
    <3>1. RowsShown'
      BY <1>1, <2>1, <2>3 DEF AloneInv, RowsShown, IsOpen
    <3>2. crashed = {} /\ obj[p].id # NoId => ~Taken(obj[p].id, obj[p].name)
      BY <2>1, <2>3, UniqueClear
    <3>3. pc'[p] = "stor"
      BY <2>1, <2>3
    <3> HIDE DEF r, refused
    <3>4. NameClear'
      BY <1>1, <3>2, <3>3 DEF NameClear, Taken
    <3>5. WalkShown'
      BY <3>3 DEF WalkShown
    <3> QED BY <3>1, <3>4, <3>5 DEF AloneInv
  <2> QED BY <2>2, <2>3
<1> QED BY <1>2, <1>3

(* The process writes the store.                                           *)
LEMMA AloneStore ==
    ASSUME TypeOK, FreshInv, AloneInv, NEW p \in Procs, \A q \in Procs : q = p, SetNew(p) \/ HSet(p) \/ SetKey(p) \/ Delete(p)
    PROVE  AloneInv'
<1>0. /\ store \in Row /\ index \in Row /\ pc \in [Procs -> ProcStates] /\ next \in Nat
      /\ obj \in [Procs -> [id: Ids \cup {NoId}, name: Names \cup {None}]] /\ NoId \notin Ids
      /\ UNCHANGED <<index, crashed>>
  BY ModelAssumption DEF TypeOK, DiskType, ProcType, SetNew, HSet, SetKey, Delete, Ids, NoId
<1>1. ASSUME NEW i \in Ids, NEW n \in Names \cup {None}, store' = [store EXCEPT ![i] = n], obj'[p].id = i,
             pc[p] \in {"stor", "hset", "idle"},
             \/ /\ pc'[p] = "row" /\ obj'[p].name = n
                /\ crashed = {} /\ index[i] # None => ~Taken(i, n)
             \/ pc'[p] = "delrow" /\ n = None
      PROVE  AloneInv'
  <2>1. RowsShown'
    BY <1>0, <1>1 DEF AloneInv, RowsShown, IsOpen, Row
  <2>2. NameClear'
    BY <1>0, <1>1 DEF NameClear, Taken, Row
  <2>3. WalkShown'
    BY <1>1 DEF WalkShown
  <2> QED BY <2>1, <2>2, <2>3 DEF AloneInv
<1>2. CASE SetNew(p)
  <2>1. CASE Stor = "RDB"
    BY <1>0, <1>2, <2>1, AloneKeep DEF SetNew, Goto
  <2>2. CASE Stor # "RDB"
    <3>1. /\ pc[p] = "stor" /\ pc'[p] = "row" /\ next \in Ids /\ store' = [store EXCEPT ![next] = obj[p].name]
          /\ obj'[p].id = next /\ obj'[p].name = obj[p].name
      BY <1>0, <1>2, <2>2 DEF SetNew, Goto
    <3>2. index[next] = None
      BY <1>0, <3>1 DEF FreshInv, Ahead
    <3> QED BY <1>0, <1>1, <3>1, <3>2
  <2> QED BY <2>1, <2>2
<1>3. CASE HSet(p)
  <2>1. /\ pc[p] = "hset" /\ pc'[p] = "row" /\ key[p] \in Ids /\ store' = [store EXCEPT ![key[p]] = obj[p].name]
        /\ obj'[p].id = key[p] /\ obj'[p].name = obj[p].name
    BY <1>0, <1>3 DEF HSet, Goto, TypeOK, ProcType, Labelled
  <2>2. index[key[p]] = None
    BY <2>1 DEF FreshInv, KeysFresh
  <2> QED BY <1>0, <1>1, <2>1, <2>2
<1>4. CASE SetKey(p)
  <2>1. obj[p].id \in Ids /\ pc[p] = "stor" /\ UNCHANGED obj
    BY <1>0, <1>4 DEF SetKey
  <2>2. CASE Stor = "ZDB" /\ store[obj[p].id] = None
    BY <1>0, <1>4, <2>1, <2>2, AloneKeep DEF SetKey, Goto
  <2>3. CASE ~(Stor = "ZDB" /\ store[obj[p].id] = None)
    <3>1. pc'[p] = "row" /\ store' = [store EXCEPT ![obj[p].id] = obj[p].name]
      BY <1>0, <1>4, <2>3 DEF SetKey, Goto
    <3>2. crashed = {} /\ index[obj[p].id] # None => ~Taken(obj[p].id, obj[p].name)
      BY <1>0, <2>1 DEF AloneInv, NameClear
    <3> QED BY <1>0, <1>1, <2>1, <3>1, <3>2
  <2> QED BY <2>2, <2>3
<1>5. CASE Delete(p)
  <2>1. /\ obj[p].id \in Ids /\ pc[p] = "idle" /\ pc'[p] = "delrow" /\ UNCHANGED obj
        /\ store' = [store EXCEPT ![obj[p].id] = None]
    BY <1>0, <1>5 DEF Delete, Goto
  <2> QED BY <1>0, <1>1, <2>1
<1> QED BY <1>2, <1>3, <1>4, <1>5

(* The process writes the row.                                             *)
LEMMA AloneRow ==
    ASSUME TypeOK, AloneInv, NEW p \in Procs, \A q \in Procs : q = p,
           IndexRow(p) \/ IndexCreate(p) \/ IndexUpdate(p) \/ DeleteRow(p)
    PROVE  AloneInv'
<1>0. /\ store \in Row /\ index \in Row /\ pc \in [Procs -> ProcStates] /\ obj[p].id \in Ids
      /\ UNCHANGED <<store, crashed>>
  BY DEF TypeOK, DiskType, ProcType, Labelled, Numbered, IndexRow, IndexCreate, IndexUpdate, DeleteRow, disk
<1>1. ASSUME pc'[p] = "idle", pc[p] \in {"create", "update", "delrow"}, \A k \in Ids \ {obj[p].id} : index'[k] = index[k],
             crashed = {} => index'[obj[p].id] \in {None, store[obj[p].id]}
      PROVE  AloneInv'
  <2>1. RowsShown'
    BY <1>0, <1>1 DEF AloneInv, RowsShown, IsOpen
  <2>2. NameClear' /\ WalkShown'
    BY <1>1 DEF NameClear, WalkShown
  <2> QED BY <2>1, <2>2 DEF AloneInv
<1>2. CASE IndexRow(p)
  <2>1. pc[p] = "row" /\ pc'[p] = (IF index[obj[p].id] = None THEN "create" ELSE "update") /\ UNCHANGED <<index, obj>>
    BY <1>0, <1>2 DEF IndexRow, Goto, disk
  <2>2. RowsShown'
    BY <1>0, <2>1 DEF AloneInv, RowsShown, IsOpen
  <2>3. NameClear'
    BY <1>0, <2>1 DEF AloneInv, NameClear, Taken
  <2>4. WalkShown'
    BY <2>1 DEF WalkShown
  <2> QED BY <2>2, <2>3, <2>4 DEF AloneInv
<1>3. CASE IndexCreate(p)
  <2>1. pc[p] = "create" /\ pc'[p] = "idle" /\ index[obj[p].id] = None /\ store[obj[p].id] = obj[p].name
    BY <1>0, <1>3 DEF IndexCreate, Refuse, WriteRow, Goto, AloneInv, NameClear
  <2>2. index' = index \/ index' = [index EXCEPT ![obj[p].id] = obj[p].name]
    BY <1>3 DEF IndexCreate, Refuse, WriteRow
  <2> QED BY <1>0, <1>1, <2>1, <2>2 DEF Row
<1>4. CASE IndexUpdate(p)
  <2>1. pc[p] = "update" /\ pc'[p] = "idle" /\ store[obj[p].id] = obj[p].name
    BY <1>0, <1>4 DEF IndexUpdate, Refuse, WriteRow, Goto, AloneInv, NameClear
  <2>2. \/ index' = index /\ index[obj[p].id] = None
        \/ index' = index /\ index[obj[p].id] # None /\ Taken(obj[p].id, obj[p].name)
        \/ index' = [index EXCEPT ![obj[p].id] = obj[p].name]
    BY <1>4 DEF IndexUpdate, Refuse, WriteRow
  <2>3. crashed = {} /\ index[obj[p].id] # None => ~Taken(obj[p].id, obj[p].name)
    <3>1. obj[p].id # NoId
      BY <2>1 DEF TypeOK, Labelled, Numbered
    <3> QED BY <2>1, <3>1 DEF AloneInv, NameClear
  <2> QED BY <1>0, <1>1, <2>1, <2>2, <2>3 DEF Row
<1>5. CASE DeleteRow(p)
  <2>1. pc[p] = "delrow" /\ pc'[p] = "idle" /\ index' = [index EXCEPT ![obj[p].id] = None]
    BY <1>0, <1>5 DEF DeleteRow, Goto
  <2> QED BY <1>0, <1>1, <2>1 DEF Row
<1> QED BY <1>2, <1>3, <1>4, <1>5

(* The index is emptied: rebuilds and the end of destroy().                *)
LEMMA AloneEmpty ==
    ASSUME TypeOK, FreshInv, AloneInv, NEW p \in Procs, \A q \in Procs : q = p, index' = NoRows, crashed' = {},
           UNCHANGED <<store, next>>,
           \/ pc'[p] = "idle"
           \/ pc'[p] = "walk" /\ found'[p] = {i \in Ids : i <= next}
    PROVE  AloneInv'
<1>1. \A i \in Ids : index'[i] = None
  BY DEF NoRows
<1>2. RowsShown'
  BY <1>1 DEF RowsShown
<1>3. NameClear'
  BY DEF NameClear
<1>4. WalkShown'
  <2>1. \A i \in Ids : ~(i <= next) => store[i] = None
    BY ModelAssumption DEF FreshInv, Ahead, TypeOK, DiskType, Ids
  <2> QED BY <2>1 DEF WalkShown
<1> QED BY <1>2, <1>3, <1>4 DEF AloneInv

(* The walk comes by the next key.                                         *)
LEMMA AloneWalk ==
    ASSUME TypeOK, AloneInv, NEW p \in Procs, \A q \in Procs : q = p, Walk(p)
    PROVE  AloneInv'
<1>1. PICK i \in found[p] :
        /\ found' = [found EXCEPT ![p] = @ \ {i}]
        /\ obj' = [obj EXCEPT ![p] = IF store[i] = None THEN NoObj ELSE [id |-> i, name |-> store[i]]]
        /\ pc' = [pc EXCEPT ![p] = IF store[i] = None THEN "walk" ELSE "reindex"]
  BY DEF Walk, Goto
<1>2. /\ pc[p] = "walk" /\ pc'[p] = (IF store[i] = None THEN "walk" ELSE "reindex") /\ found'[p] = found[p] \ {i}
      /\ store[i] # None => obj'[p].id = i /\ obj'[p].name = store[i]
      /\ UNCHANGED <<store, index, crashed>>
  BY <1>1 DEF Walk, disk, TypeOK, ProcType
<1>3. RowsShown'
  BY <1>2 DEF AloneInv, RowsShown, IsOpen
<1>4. NameClear'
  BY <1>2 DEF NameClear
<1>5. WalkShown'
  BY <1>2 DEF AloneInv, WalkShown
<1> QED BY <1>3, <1>4, <1>5 DEF AloneInv

(* set(store=False) writes the row of the object and drops those of the    *)
(* same name: the name is found, and no other row goes wrong.              *)
LEMMA AloneReindex ==
    ASSUME TypeOK, AloneInv, NEW p \in Procs, \A q \in Procs : q = p, Reindex(p)
    PROVE  AloneInv'
<1> DEFINE o == obj[p]
<1>1. /\ pc[p] = "reindex" /\ pc'[p] = "walk" /\ UNCHANGED <<store, found, crashed>> /\ o.id \in Ids /\ o.name # None
      /\ index' = [k \in Ids |-> IF k = o.id THEN o.name ELSE IF index[k] = o.name THEN None ELSE index[k]]
  BY DEF Reindex, Goto, TypeOK, ProcType, Labelled, Numbered, Saving
<1>2. store[o.id] = o.name /\ crashed = {}
  BY <1>1 DEF AloneInv, NameClear, WalkShown
<1> HIDE DEF o
<1>3. RowsShown'
  BY <1>1, <1>2 DEF AloneInv, RowsShown, IsOpen
<1>4. NameClear'
  BY <1>1 DEF NameClear
<1>5. ASSUME NEW i \in Ids \ found[p], store[i] # None PROVE \E k \in Ids : index'[k] = store[i]
  <2>1. CASE store[i] = o.name
    BY <1>1, <2>1
  <2>2. CASE store[i] # o.name
    <3>1. PICK k \in Ids : index[k] = store[i]
      BY <1>1, <1>2, <1>5, <2>2 DEF AloneInv, WalkShown, o
    <3>2. k # o.id
      <4>1. index[k] # None /\ ~IsOpen(p, k) /\ pc[p] # "wipe"
        BY <1>1, <1>5, <3>1 DEF IsOpen
      <4>2. index[k] = store[k]
        BY <1>2, <4>1 DEF AloneInv, RowsShown
      <4> QED BY <1>2, <2>2, <3>1, <4>2
    <3> QED BY <1>1, <2>2, <3>1, <3>2
  <2> QED BY <2>1, <2>2
<1>6. WalkShown'
  BY <1>1, <1>2, <1>5 DEF WalkShown
<1> QED BY <1>3, <1>4, <1>6 DEF AloneInv

(* Every step keeps what the index shows.                                  *)
LEMMA AloneStep ==
    ASSUME TypeOK, FreshInv, AloneInv, NEW p \in Procs, \A q \in Procs : q = p, Step(p)
    PROVE  AloneInv'
<1>0. pc \in [Procs -> ProcStates] /\ found \in [Procs -> SUBSET Ids] /\ store \in Row /\ index \in Row
  BY DEF TypeOK, ProcType, DiskType
<1> USE DEF Goto, disk
<1>1. ASSUME NEW n \in Names, New(p, n) \/ Change(p, n) PROVE AloneInv'
  BY <1>0, <1>1, AloneKeep DEF New, Change
<1>2. ASSUME NEW i \in Ids, Get(p, i) PROVE AloneInv'
  BY <1>0, <1>2, AloneKeep DEF Get
<1>3. CASE FindIds(p) \/ Unique(p)
  BY <1>3, AloneCheck
<1>4. CASE SetNew(p) \/ HSet(p) \/ SetKey(p) \/ Delete(p)
  BY <1>4, AloneStore
<1>5. CASE IndexRow(p) \/ IndexCreate(p) \/ IndexUpdate(p) \/ DeleteRow(p)
  BY <1>5, AloneRow
<1>6. CASE IndexReset(p)
  BY <1>0, <1>6, AloneEmpty DEF IndexReset, WalkFrom
<1>7. CASE Walk(p)
  BY <1>7, AloneWalk
<1>8. CASE Reindex(p)
  BY <1>8, AloneReindex
<1>9. CASE WalkEnd(p)
  <2>1. pc[p] = "walk" /\ pc'[p] = "idle" /\ UNCHANGED <<store, index, crashed>>
    BY <1>0, <1>9 DEF WalkEnd
  <2>2. RowsShown'
    BY <2>1 DEF AloneInv, RowsShown, IsOpen
  <2> QED BY <2>1, <2>2 DEF AloneInv, NameClear, WalkShown
<1>10. CASE ModelRebuild(p)
  BY <1>10, AloneEmpty DEF ModelRebuild
<1>11. CASE DestroyFind(p)
  BY <1>0, <1>11, AloneKeep DEF DestroyFind
<1>12. CASE DestroyStep(p)
  <2>1. CASE index' = NoRows /\ crashed' = {} /\ pc'[p] = "idle" /\ UNCHANGED <<store, next>>
    BY <2>1, AloneEmpty
  <2>2. CASE \E i \in found[p] : store' = [store EXCEPT ![i] = None] /\ UNCHANGED <<index, pc, crashed>>
    <3>1. pc[p] = "wipe"
      BY <1>12 DEF DestroyStep
    <3>2. RowsShown'
      BY <1>0, <2>2, <3>1 DEF AloneInv, RowsShown, IsOpen, Row
    <3> QED BY <2>2, <3>1, <3>2 DEF AloneInv, NameClear, WalkShown
  <2> QED BY <1>0, <1>12, <2>1, <2>2 DEF DestroyStep
<1>13. CASE Crash(p)
  <2>1. pc'[p] = "idle" /\ crashed' = crashed \cup Open(p) \cup Wiped(p) /\ UNCHANGED <<store, index>>
    BY <1>0, <1>13 DEF Crash
  <2>2. ASSUME crashed' = {}, NEW i \in Ids, index[i] # None PROVE index[i] = store[i]
    <3>1. crashed = {} /\ Open(p) = {} /\ Wiped(p) = {}
      BY <2>1, <2>2
    <3>2. ~IsOpen(p, i) /\ ~(pc[p] = "wipe" /\ store[i] = None)
      BY <2>2, <3>1 DEF Open, Wiped, IsOpen
    <3> QED BY <2>2, <3>1, <3>2 DEF AloneInv, RowsShown
  <2>3. RowsShown'
    BY <2>1, <2>2 DEF RowsShown
  <2> QED BY <2>1, <2>3 DEF AloneInv, NameClear, WalkShown
<1> QED BY <1>1, <1>2, <1>3, <1>4, <1>5, <1>6, <1>7, <1>8, <1>9, <1>10, <1>11, <1>12, <1>13 DEF Step

(* The invariant of one process holds in every state.                      *)
LEMMA AloneInductive == ASSUME Alone PROVE Spec => [](TypeOK /\ FreshInv /\ AloneInv)
<1>1. Init => AloneInv
  BY DEF Init, AloneInv, RowsShown, NameClear, WalkShown, NoRows
<1>2. TypeOK /\ FreshInv /\ AloneInv /\ [Next]_vars => AloneInv'
  <2> SUFFICES ASSUME TypeOK, FreshInv, AloneInv, [Next]_vars PROVE AloneInv'
    OBVIOUS
  <2>1. CASE Next
    <3>1. PICK p \in Procs : Step(p)
      BY <2>1 DEF Next
    <3>2. \A q \in Procs : q = p
      BY DEF Alone
    <3> QED BY <3>1, <3>2, AloneStep
  <2>2. CASE UNCHANGED vars
    BY <2>2 DEF vars, disk, AloneInv, RowsShown, NameClear, WalkShown, IsOpen, Taken
  <2> QED BY <2>1, <2>2
<1> QED BY <1>1, <1>2, FreshInductive, PTL DEF Spec

(* Of one process: refused saves, deletes, destroys and rebuilds that were *)
(* cut short leave no row that shows another name than the stored object   *)
(* has; only a crash between the two writes of an object does.             *)
THEOREM IndexShowsStored == ASSUME Alone PROVE Spec => []IndexAgrees
<1>1. AloneInv => IndexAgrees
  <2> SUFFICES ASSUME AloneInv, crashed = {}, \A p \in Procs : pc[p] = "idle", NEW i \in Ids, index[i] # None
               PROVE  index[i] = store[i]
    BY DEF IndexAgrees
  <2>1. \A p \in Procs : ~IsOpen(p, i) /\ pc[p] # "wipe"
    BY DEF IsOpen
  <2> QED BY <2>1 DEF AloneInv, RowsShown
<1> QED BY <1>1, AloneInductive, PTL

(* Of one process: the index that BCDB.index_rebuild has built when its    *)
(* walk ends finds every stored name and shows nothing that is not stored, *)
(* whatever the crashes before left in the store and in the old index.     *)
THEOREM RebuildComplete == ASSUME Alone PROVE Spec => RebuildRestores
<1> DEFINE Good(p) == /\ \A i \in Ids : index[i] # None => index[i] = store[i]
                      /\ \A i \in Ids : store[i] # None => \E k \in Ids : index[k] = store[i]
<1>1. ASSUME AloneInv, NEW p \in Procs, WalkEnd(p) PROVE Good(p)
  <2>1. pc[p] = "walk" /\ found[p] = {} /\ \A q \in Procs : q = p
    BY <1>1 DEF WalkEnd, Alone
  <2>2. \A i \in Ids : ~\E q \in Procs : IsOpen(q, i) \/ (pc[q] = "wipe" /\ store[i] = None)
    BY <2>1 DEF IsOpen
  <2>3. crashed = {}
    BY <1>1, <2>1 DEF AloneInv, WalkShown
  <2>4. \A i \in Ids : index[i] # None => index[i] = store[i]
    BY <1>1, <2>2, <2>3 DEF AloneInv, RowsShown
  <2>5. \A i \in Ids : store[i] # None => \E k \in Ids : index[k] = store[i]
    BY <1>1, <2>1 DEF AloneInv, WalkShown
  <2> QED BY <2>4, <2>5
<1>2. AloneInv => [\A p \in Procs : (pc[p] # "idle" /\ WalkEnd(p)) => Good(p)]_vars
  BY <1>1
<1> QED BY <1>2, AloneInductive, PTL DEF RebuildRestores
=============================================================================
