----------------------------- MODULE BCDBModel -----------------------------
(***************************************************************************)
(* One model of the BCDB: objects live in a key-value store (redis or      *)
(* 0-db), and a sqlite table holds one row per object with its unique      *)
(* name.  Nothing makes the two writes of a save or of a delete one step:  *)
(* the data processor that would run them one after the other is switched  *)
(* off (skip_for_debug).  An object is its id and its name; what else it   *)
(* holds is not indexed.  Key 0 of the store holds INIT and is no object.  *)
(***************************************************************************)
EXTENDS Naturals, FiniteSets

CONSTANTS
    MaxId,  \* bound: ids the store hands out
    Names,  \* values of the unique property
    Procs,  \* greenlets and processes that use the model
    Stor,   \* "RDB" or "ZDB"
    Ops,    \* which of "crash", "rebuild", "model_rebuild", "destroy" happen
    None

ASSUME ModelAssumption == MaxId \in Nat /\ None \notin Names

Ids == 1..MaxId
NoId == 0            \* obj.id is None

VARIABLES
    store,  \* id -> name stored under it
    next,   \* the store's counter
    index,  \* id -> name in the sqlite row
    pc,     \* where each process is in its save, delete, ...
    obj,    \* the object it has in hand
    key,    \* id got from the counter and not written yet
    found,  \* ids that a query returned, still to be dealt with
    old,    \* history: the index when it was reset for a rebuild
    crashed, \* history: ids that a crash left written in the store only, since the index was last emptied
    torn    \* history: ids whose two writes were interrupted, refused or overlapped

disk == <<store, next, index>>
vars == <<disk, pc, obj, key, found, old, crashed, torn>>

NoObj == [id |-> NoId, name |-> None]
NoRows == [i \in Ids |-> None]

Init ==
    /\ store = NoRows /\ next = 1 /\ index = NoRows
    /\ pc = [p \in Procs |-> "idle"] /\ obj = [p \in Procs |-> NoObj]
    /\ key = [p \in Procs |-> NoId] /\ found = [p \in Procs |-> {}]
    /\ old = NoRows /\ crashed = {} /\ torn = {}

Goto(p, where) == pc' = [pc EXCEPT ![p] = where]

(* Ids that p has written in the store but not yet in the index.           *)
Open(p) == IF pc[p] \in {"row", "create", "update", "delrow"} THEN {obj[p].id} ELSE {}

(* Ids that p has deleted in a destroy, which still have their row.        *)
Wiped(p) == IF pc[p] = "wipe" THEN {i \in Ids : store[i] = None /\ index[i] # None} ELSE {}

(* Another process is between its two writes of id i.                      *)
Overlap(p, i) == IF \E q \in Procs \ {p} : i \in Open(q) THEN {i} ELSE {}

(* sqlite: the unique constraint on the name column                        *)
Taken(i, n) == \E k \in Ids \ {i} : index[k] = n

-----------------------------------------------------------------------------
(* BCDBModel.new, then JSXObjectRoot.save                                  *)
New(p, n) ==
    /\ pc[p] = "idle"
    /\ obj' = [obj EXCEPT ![p] = [id |-> NoId, name |-> n]]
    /\ Goto(p, "find")
    /\ UNCHANGED <<disk, key, found, old, crashed, torn>>

(* BCDBModel.get                                                           *)
Get(p, i) ==
    /\ pc[p] = "idle" /\ store[i] # None
    /\ obj' = [obj EXCEPT ![p] = [id |-> i, name |-> store[i]]]
    /\ UNCHANGED <<disk, pc, key, found, old, crashed, torn>>

(* An object in hand is changed and saved, maybe under another name, also  *)
(* one whose first save was refused: it kept the id it got.                *)
Change(p, n) ==
    /\ pc[p] = "idle" /\ obj[p].id # NoId
    /\ obj' = [obj EXCEPT ![p].name = n]
    /\ Goto(p, "find")
    /\ UNCHANGED <<disk, key, found, old, crashed, torn>>

(* save(): the index is asked for the name ...                             *)
FindIds(p) ==
    /\ pc[p] = "find"
    /\ found' = [found EXCEPT ![p] = {i \in Ids : index[i] = obj[p].name}]
    /\ Goto(p, "unique")
    /\ UNCHANGED <<disk, obj, key, old, crashed, torn>>

(* Mutant of Unique: an object that has an id may take any name.           *)
UniqueNewOnly(p) ==
    /\ pc[p] = "unique"
    /\ Goto(p, IF {i \in found[p] : store[i] # None} # {} /\ obj[p].id = NoId THEN "idle" ELSE "stor")
    /\ found' = [found EXCEPT ![p] = {}]
    /\ UNCHANGED <<disk, obj, key, old, crashed, torn>>

(* ... find() drops the rows without a stored object, and save() refuses   *)
(* the name when another object has it; a new object passes.               *)
Unique(p) ==
    LET r == {i \in found[p] : store[i] # None} IN
    /\ pc[p] = "unique"
    /\ Goto(p, IF Cardinality(r) > 1 \/ (r # {} /\ obj[p].id # NoId /\ obj[p].id \notin r) THEN "idle" ELSE "stor")
    /\ found' = [found EXCEPT ![p] = {}]
    /\ UNCHANGED <<disk, obj, key, old, crashed, torn>>

(* Mutant of SetNew: the new id is the one after the highest in use.       *)
SetNewAfterLast(p) ==
    /\ pc[p] = "stor" /\ obj[p].id = NoId
    /\ \E i \in Ids : /\ \A k \in Ids : store[k] # None => k < i
                      /\ \A k \in Ids : k + 1 = i => store[k] # None
                      /\ key' = [key EXCEPT ![p] = i]
    /\ Goto(p, "hset")
    /\ UNCHANGED <<disk, obj, found, old, crashed, torn>>

(* set() of a new object: RDBClient takes an id from the counter and       *)
(* writes under it with a second command, 0-db does both at once.          *)
SetNew(p) ==
    /\ pc[p] = "stor" /\ obj[p].id = NoId /\ next \in Ids
    /\ next' = next + 1
    /\ IF Stor = "RDB"
       THEN /\ key' = [key EXCEPT ![p] = next]
            /\ Goto(p, "hset")
            /\ UNCHANGED <<store, obj>>
       ELSE /\ store' = [store EXCEPT ![next] = obj[p].name]
            /\ obj' = [obj EXCEPT ![p].id = next]
            /\ Goto(p, "row")
            /\ UNCHANGED key
    /\ UNCHANGED <<index, found, old, crashed, torn>>

(* Mutant of HSet: RDBClient.set does not return the key it took.          *)
HSetNoKey(p) ==
    /\ pc[p] = "hset"
    /\ store' = [store EXCEPT ![key[p]] = obj[p].name]
    /\ key' = [key EXCEPT ![p] = NoId]
    /\ Goto(p, "row")
    /\ UNCHANGED <<next, index, obj, found, old, crashed, torn>>

HSet(p) ==
    /\ pc[p] = "hset"
    /\ store' = [store EXCEPT ![key[p]] = obj[p].name]
    /\ obj' = [obj EXCEPT ![p].id = key[p]]
    /\ key' = [key EXCEPT ![p] = NoId]
    /\ Goto(p, "row")
    /\ UNCHANGED <<next, index, found, old, crashed, torn>>

(* set() of an object that has an id: redis writes the key whether it      *)
(* exists or not, 0-db refuses to update a missing one.                    *)
SetKey(p) ==
    LET i == obj[p].id IN
    /\ pc[p] = "stor" /\ i # NoId
    /\ IF Stor = "ZDB" /\ store[i] = None
       THEN Goto(p, "idle") /\ UNCHANGED <<store, torn>>
       ELSE /\ store' = [store EXCEPT ![i] = obj[p].name]
            /\ torn' = torn \cup Overlap(p, i)
            /\ Goto(p, "row")
    /\ UNCHANGED <<next, index, obj, key, found, old, crashed>>

(* _sql_index_set: is there a row with this id?                            *)
IndexRow(p) ==
    /\ pc[p] = "row"
    /\ Goto(p, IF index[obj[p].id] = None THEN "create" ELSE "update")
    /\ UNCHANGED <<disk, obj, key, found, old, crashed, torn>>

(* The write of the row: an IntegrityError is raised to the caller, after  *)
(* the object was stored; it keeps its id.                                 *)
Refuse(p) ==
    /\ torn' = torn \cup {obj[p].id}
    /\ Goto(p, "idle")
    /\ UNCHANGED index

WriteRow(p) ==
    /\ index' = [index EXCEPT ![obj[p].id] = obj[p].name]
    /\ Goto(p, "idle")
    /\ UNCHANGED torn

IndexCreate(p) ==
    LET i == obj[p].id IN
    /\ pc[p] = "create"
    /\ IF index[i] # None \/ Taken(i, obj[p].name) THEN Refuse(p) ELSE WriteRow(p)
    /\ UNCHANGED <<store, next, obj, key, found, old, crashed>>

IndexUpdate(p) ==
    LET i == obj[p].id IN
    /\ pc[p] = "update"
    /\ \/ index[i] = None /\ Goto(p, "idle") /\ UNCHANGED <<index, torn>>   \* no row to update
       \/ index[i] # None /\ Taken(i, obj[p].name) /\ Refuse(p)
       \/ index[i] # None /\ ~Taken(i, obj[p].name) /\ WriteRow(p)
    /\ UNCHANGED <<store, next, obj, key, found, old, crashed>>

(* delete: the store first, then the row                                   *)
Delete(p) ==
    LET i == obj[p].id IN
    /\ pc[p] = "idle" /\ i # NoId
    /\ store' = [store EXCEPT ![i] = None]
    /\ torn' = torn \cup Overlap(p, i)
    /\ Goto(p, "delrow")
    /\ UNCHANGED <<next, index, obj, key, found, old, crashed>>

(* Mutant of DeleteRow: the row is kept.                                   *)
DeleteRowKept(p) ==
    /\ pc[p] = "delrow"
    /\ obj' = [obj EXCEPT ![p] = NoObj]
    /\ Goto(p, "idle")
    /\ UNCHANGED <<disk, key, found, old, crashed, torn>>

DeleteRow(p) ==
    /\ pc[p] = "delrow"
    /\ index' = [index EXCEPT ![obj[p].id] = None]
    /\ obj' = [obj EXCEPT ![p] = NoObj]
    /\ Goto(p, "idle")
    /\ UNCHANGED <<store, next, key, found, old, crashed, torn>>

-----------------------------------------------------------------------------
(* BCDB.index_rebuild: the index is removed and every key of the store up  *)
(* to its counter is walked in order.                                      *)
WalkFrom(p, last) ==
    /\ pc[p] = "idle" /\ "rebuild" \in Ops
    /\ index' = NoRows /\ old' = index /\ crashed' = {} /\ torn' = Ids
    /\ found' = [found EXCEPT ![p] = {i \in Ids : i <= last}]
    /\ obj' = [obj EXCEPT ![p] = NoObj]
    /\ Goto(p, "walk")
    /\ UNCHANGED <<store, next, key>>

(* Mutant of IndexReset: the walk stops one key early.                     *)
IndexResetShort(p) == WalkFrom(p, IF next > 1 THEN next - 2 ELSE 0)

IndexReset(p) == WalkFrom(p, next)

Walk(p) ==
    /\ pc[p] = "walk"
    /\ \E i \in found[p] :
        /\ \A k \in found[p] : i <= k
        /\ found' = [found EXCEPT ![p] = @ \ {i}]
        /\ obj' = [obj EXCEPT ![p] = IF store[i] = None THEN NoObj ELSE [id |-> i, name |-> store[i]]]
        /\ Goto(p, IF store[i] = None THEN "walk" ELSE "reindex")
    /\ UNCHANGED <<disk, key, old, crashed, torn>>

(* set(store=False): index.delete removes the row with the id and the row  *)
(* with the name, then the row is written.                                 *)
Reindex(p) ==
    LET o == obj[p] IN
    /\ pc[p] = "reindex"
    /\ index' = [k \in Ids |-> IF k = o.id THEN o.name ELSE IF index[k] = o.name THEN None ELSE index[k]]
    /\ obj' = [obj EXCEPT ![p] = NoObj]
    /\ Goto(p, "walk")
    /\ UNCHANGED <<store, next, key, found, old, crashed, torn>>

WalkEnd(p) ==
    /\ pc[p] = "walk" /\ found[p] = {}
    /\ Goto(p, "idle")
    /\ UNCHANGED <<disk, obj, key, found, old, crashed, torn>>

(* BCDBModel.index_rebuild: destroys the index and then iterates over the  *)
(* objects that the index knows, which are none.                           *)
ModelRebuild(p) ==
    /\ pc[p] = "idle" /\ "model_rebuild" \in Ops
    /\ index' = NoRows /\ old' = index /\ crashed' = {} /\ torn' = Ids
    /\ UNCHANGED <<store, next, pc, obj, key, found>>

(* BCDBModel.destroy: deletes what the index knows, then the index.        *)
DestroyFind(p) ==
    /\ pc[p] = "idle" /\ "destroy" \in Ops
    /\ found' = [found EXCEPT ![p] = {i \in Ids : index[i] # None}]
    /\ obj' = [obj EXCEPT ![p] = NoObj]
    /\ Goto(p, "wipe")
    /\ UNCHANGED <<disk, key, old, crashed, torn>>

DestroyStep(p) ==
    /\ pc[p] = "wipe"
    /\ \/ \E i \in found[p] : /\ store' = [store EXCEPT ![i] = None]
                              /\ found' = [found EXCEPT ![p] = @ \ {i}]
                              /\ torn' = torn \cup {i}
                              /\ UNCHANGED <<index, pc, crashed>>
       \/ /\ found[p] = {} /\ index' = NoRows /\ crashed' = {} /\ torn' = Ids
          /\ Goto(p, "idle") /\ UNCHANGED <<store, found>>
    /\ UNCHANGED <<next, obj, key, old>>

(* The process dies; what it has written stays.                            *)
Crash(p) ==
    /\ pc[p] # "idle" /\ "crash" \in Ops
    /\ torn' = torn \cup Open(p) /\ crashed' = crashed \cup Open(p) \cup Wiped(p)
    /\ Goto(p, "idle")
    /\ obj' = [obj EXCEPT ![p] = NoObj] /\ key' = [key EXCEPT ![p] = NoId] /\ found' = [found EXCEPT ![p] = {}]
    /\ UNCHANGED <<disk, old>>

-----------------------------------------------------------------------------
Step(p) ==
    \/ \E n \in Names : New(p, n) \/ Change(p, n)
    \/ \E i \in Ids : Get(p, i)
    \/ FindIds(p) \/ Unique(p) \/ SetNew(p) \/ HSet(p) \/ SetKey(p)
    \/ IndexRow(p) \/ IndexCreate(p) \/ IndexUpdate(p)
    \/ Delete(p) \/ DeleteRow(p)
    \/ IndexReset(p) \/ Walk(p) \/ Reindex(p) \/ WalkEnd(p)
    \/ ModelRebuild(p) \/ DestroyFind(p) \/ DestroyStep(p) \/ Crash(p)

Next == \E p \in Procs : Step(p)

Spec == Init /\ [][Next]_vars

-----------------------------------------------------------------------------
Row == [Ids -> Names \cup {None}]

Saving == {"find", "unique", "stor", "hset", "row", "create", "update", "reindex"}
Numbered == {"row", "create", "update", "delrow", "reindex"}

ProcStates == {"idle", "find", "unique", "stor", "hset", "row", "create", "update", "delrow",
               "walk", "reindex", "wipe"}

DiskType ==
    /\ store \in Row /\ index \in Row /\ old \in Row /\ next \in 1..(MaxId + 1)
    /\ crashed \subseteq Ids /\ torn \subseteq Ids

ProcType ==
    /\ pc \in [Procs -> ProcStates]
    /\ obj \in [Procs -> [id: Ids \cup {NoId}, name: Names \cup {None}]]
    /\ key \in [Procs -> Ids \cup {NoId}] /\ found \in [Procs -> SUBSET Ids]

Labelled(p) ==
    /\ pc[p] \in Saving => obj[p].name # None
    /\ pc[p] \in Numbered => obj[p].id # NoId
    /\ pc[p] = "hset" <=> key[p] # NoId

(* Type correctness of the store, the index and the processes; an object   *)
(* has a name while it is saved, and an id once it is in the store (the    *)
(* asserts of BCDBModel.set and _sql_index_set).                           *)
TypeOK == DiskType /\ ProcType /\ \A p \in Procs : Labelled(p)

(* A new object never overwrites another one: an id taken from the counter *)
(* belongs to one process, and nothing is stored or indexed under it when  *)
(* it is written, although RDBClient.set takes the id and writes under it  *)
(* in two commands (the worry in the TODO of RDBClient.py).                *)
FreshIds ==
    \A p \in Procs : pc[p] = "hset" =>
        /\ store[key[p]] = None /\ index[key[p]] = None
        /\ \A q \in Procs \ {p} : pc[q] = "hset" => key[q] # key[p]

(* Store and index disagree about an object only if the two writes of one  *)
(* of its saves or deletes were interrupted by a crash, refused by the     *)
(* unique constraint, or overlapped with another process' (BCDBModel.set   *)
(* and delete).                                                            *)
Consistent ==
    \A i \in Ids \ torn : (\A p \in Procs : i \notin Open(p)) => index[i] = store[i]

(* Of one process: whatever saves were refused and however rebuilds were   *)
(* cut short, a row shows the name that the stored object has, as long as  *)
(* no crash fell between the two writes of a save or delete, or into a     *)
(* destroy, since the index was emptied (JSXObjectRoot.save checks the     *)
(* name before it writes the store, sqlite only after).                    *)
IndexAgrees ==
    crashed = {} /\ (\A p \in Procs : pc[p] = "idle") =>
        \A i \in Ids : index[i] # None => index[i] = store[i]

(* Whatever crashes left behind, BCDB.index_rebuild brings back an index   *)
(* that finds every stored name and shows nothing that is not stored.      *)
RebuildRestores ==
    [][\A p \in Procs : (pc[p] # "idle" /\ WalkEnd(p)) =>
         /\ \A i \in Ids : index[i] # None => index[i] = store[i]
         /\ \A i \in Ids : store[i] # None => \E k \in Ids : index[k] = store[i]]_vars
=============================================================================
