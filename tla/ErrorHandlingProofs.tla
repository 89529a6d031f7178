------------------------ MODULE ErrorHandlingProofs ------------------------
(* The logs, the alerts and the link between them, for any number of       *)
(* processes, errors, logs and requests to delete.                         *)
EXTENDS ErrorHandling, LogsProofs

(* The calls that are about one alert, and the ones that go on resetting.  *)
InAlert   == {"incr", "hsetid", "set", "delid", "del"}
Resetting == {"delids", "delcounter"}

(* What a process in a call holds, and that a stored alert has a number.   *)
CallInv ==
    /\ \A r \in Callers :
        /\ apc[r] \in InAlert => amsg[r] \in Msgs
        /\ apc[r] \notin InAlert => amsg[r] = None /\ copy[r] = NoAlert
        /\ apc[r] = "incr" => copy[r].id = 0
        /\ apc[r] \in InAlert \ {"incr"} => copy[r].id \in AlertIds
    /\ \A m \in Msgs : alerts[m] # None => alerts[m].id \in AlertIds

(* The types, and what the alert handler can be in whatever overlaps.      *)
AlertInv == AlertTypeOK /\ CallInv /\ raced \subseteq Msgs

(* Nobody else is in a call while the numbers and the counter are reset.   *)
ResetInv ==
    \A r \in Callers : apc[r] \in Resetting =>
        /\ \A s \in Callers \ {r} : apc[s] = "idle"
        /\ \A m \in Msgs : alerts[m] = None /\ raises[m] = 0
        /\ apc[r] = "delcounter" => \A k \in AlertIds : ids[k] = None

(* The number k belongs to m, in redis or in the memory of a process.      *)
Holds(k, m) ==
    \/ alerts[m] # None /\ alerts[m].id = k
    \/ ids[k] = m
    \/ \E r \in Callers : apc[r] \in InAlert /\ amsg[r] = m /\ copy[r].id = k

(* A number was handed out and belongs to one identifier only.             *)
OwnInv ==
    \A k \in AlertIds, m \in Msgs : Holds(k, m) => k <= counter /\ \A n \in Msgs : Holds(k, n) => n = m

(* Until a reset overlaps with another call.                               *)
CleanInv == raced # Msgs => ResetInv /\ OwnInv

CallsOn(m) == {r \in Callers : apc[r] # "idle" /\ amsg[r] = m}

(* What AlertsExact says of an alert at rest, carried through the calls.   *)
Exact(m) ==
    /\ CallsOn(m) = {} =>
        /\ alerts[m] = None => raises[m] = 0
        /\ alerts[m] # None => ids[alerts[m].id] = m /\ alerts[m].count = raises[m]
    /\ \A r \in CallsOn(m) :
        /\ CallsOn(m) = {r}
        /\ apc[r] \in {"incr", "hsetid", "set"} => copy[r].count = raises[m]
        /\ apc[r] \in {"set", "delid"} => ids[copy[r].id] = m

ExactInv == \A m \in Msgs \ raced : Exact(m)

(* The steps of the alert handlers.                                        *)
AlertMove ==
    \E p \in Callers :
        \/ AlertStep(p) \/ DeleteAll(p) \/ AlertCrash(p)
        \/ \E m \in Msgs : AlertDelete(p, m) \/ \E l \in Nat : AlertGet(p, m, l)

-----------------------------------------------------------------------------
(* The alert handler.                                                      *)

(* Its state starts well-typed, with no alert, no call and no number.      *)
LEMMA AlertsInit == AlertInit => AlertInv /\ CleanInv /\ ExactInv
<1> SUFFICES ASSUME AlertInit PROVE AlertInv /\ CleanInv /\ ExactInv
  OBVIOUS
<1>1. /\ \A m \in Msgs : alerts[m] = None /\ raises[m] = 0
      /\ \A k \in AlertIds : ids[k] = None
      /\ \A r \in Callers : apc[r] = "idle" /\ amsg[r] = None /\ copy[r] = NoAlert
      /\ raced = {}
  BY DEF AlertInit
<1>2. AlertTypeOK
  <2>1. NoAlert \in AlertType /\ 0 \in 0..MaxAlerts
    BY AlertsAssumption DEF NoAlert, AlertType
  <2> QED BY <2>1 DEF AlertInit, AlertTypeOK
<1>3. CallInv
  BY <1>1 DEF CallInv, InAlert
<1>4. ResetInv
  BY <1>1 DEF ResetInv, Resetting
<1>5. \A k \in AlertIds, m \in Msgs : ~Holds(k, m)
  BY <1>1, AlertsAssumption DEF Holds, InAlert
<1>6. ExactInv
  BY <1>1 DEF ExactInv, Exact, CallsOn
<1> QED BY <1>1, <1>2, <1>3, <1>4, <1>5, <1>6 DEF AlertInv, CleanInv, OwnInv

(* An alert is not None.                                                   *)
LEMMA AlertNotNone == None \notin AlertType
  BY AlertsAssumption DEF AlertType

(* A process that loads an alert gets a number with it, or none.           *)
LEMMA Loaded ==
  ASSUME AlertInv, NEW p \in Callers, NEW m \in Msgs, NEW l \in Nat, AlertGet(p, m, l)
  PROVE  /\ apc[p] = "idle" /\ amsg'[p] = m /\ apc'[p] \in {"incr", "set"} /\ copy'[p] \in AlertType
         /\ copy'[p].link = l
         /\ alerts[m] = None => apc'[p] = "incr" /\ copy'[p].id = 0 /\ copy'[p].count = 1
         /\ alerts[m] # None => apc'[p] = "set" /\ copy'[p].id = alerts[m].id /\ copy'[p].count = alerts[m].count + 1
         /\ \A r \in Callers \ {p} : apc'[r] = apc[r] /\ amsg'[r] = amsg[r] /\ copy'[r] = copy[r]
<1> DEFINE a == IF alerts[m] = None THEN NoAlert ELSE alerts[m]
<1>1. a \in AlertType
  BY AlertsAssumption DEF AlertInv, AlertTypeOK, NoAlert, AlertType
<1>2. apc[p] = "idle" /\ copy' = [copy EXCEPT ![p] = [id |-> a.id, count |-> a.count + 1, link |-> l]]
      /\ apc' = [apc EXCEPT ![p] = IF a.id = 0 THEN "incr" ELSE "set"] /\ amsg' = [amsg EXCEPT ![p] = m]
  BY DEF AlertGet, AGoto
<1>3. alerts[m] # None => a.id # 0
  BY DEF AlertInv, CallInv, AlertIds
<1>4. alerts[m] = None => a.id = 0 /\ a.count = 0
  BY DEF NoAlert
<1>5. [id |-> a.id, count |-> a.count + 1, link |-> l] \in AlertType
  BY <1>1 DEF AlertType
<1>6. copy \in [Callers -> AlertType] /\ amsg \in [Callers -> Msgs \union {None}]
  BY DEF AlertInv, AlertTypeOK
<1>7. DOMAIN apc = Callers
  BY DEF AlertInv, AlertTypeOK
<1>8. copy'[p] = [id |-> a.id, count |-> a.count + 1, link |-> l]
  BY <1>2, <1>6
<1>9. amsg'[p] = m /\ apc'[p] = IF a.id = 0 THEN "incr" ELSE "set"
  BY <1>2, <1>6, <1>7
<1>10. \A r \in Callers \ {p} : apc'[r] = apc[r] /\ amsg'[r] = amsg[r] /\ copy'[r] = copy[r]
  BY <1>2, <1>6, <1>7
<1>11. copy'[p] \in AlertType /\ copy'[p].link = l /\ copy'[p].id = a.id /\ copy'[p].count = a.count + 1
  BY <1>5, <1>8
<1> HIDE DEF a
<1>12. alerts[m] # None => a = alerts[m]
  BY DEF a
<1> QED BY <1>2, <1>3, <1>4, <1>9, <1>10, <1>11, <1>12

(* A process that returns has forgotten everything.                        *)
LEMMA Returned ==
  ASSUME AlertInv, NEW p \in Callers, Return(p)
  PROVE  /\ apc'[p] = "idle" /\ amsg'[p] = None /\ copy'[p] = NoAlert
         /\ \A r \in Callers \ {p} : apc'[r] = apc[r] /\ amsg'[r] = amsg[r] /\ copy'[r] = copy[r]
  BY DEF AlertInv, AlertTypeOK, Return, AGoto

(* Every step keeps the types.                                             *)
LEMMA AlertTypeStep == AlertInv /\ AlertMove => AlertTypeOK'
<1> SUFFICES ASSUME AlertInv, NEW p \in Callers,
                    \/ AlertStep(p) \/ DeleteAll(p) \/ AlertCrash(p)
                    \/ \E m \in Msgs : AlertDelete(p, m) \/ \E l \in Nat : AlertGet(p, m, l)
             PROVE  AlertTypeOK'
  BY DEF AlertMove
<1> USE DEF AlertTypeOK, AlertInv, AGoto
<1>1. NoAlert \in AlertType /\ 0 \in 0..MaxAlerts
  BY AlertsAssumption DEF NoAlert, AlertType
<1>2. ASSUME Return(p) PROVE /\ apc' \in [Callers -> {"idle", "incr", "hsetid", "set", "delid", "del", "delids", "delcounter"}]
                             /\ amsg' \in [Callers -> Msgs \union {None}] /\ copy' \in [Callers -> AlertType]
  BY <1>1, <1>2 DEF Return
<1>3. ASSUME NEW m \in Msgs, NEW l \in Nat, AlertGet(p, m, l) PROVE AlertTypeOK'
  <2>1. copy' \in [Callers -> AlertType]
    <3>1. DOMAIN copy' = Callers /\ copy' = [r \in Callers |-> copy'[r]]
      BY <1>3 DEF AlertGet
    <3> QED BY <1>3, <3>1, Loaded
  <2>2. raises' \in [Msgs -> Nat]
    BY <1>3 DEF AlertGet
  <2>3. apc' \in [Callers -> {"idle", "incr", "hsetid", "set", "delid", "del", "delids", "delcounter"}]
        /\ amsg' \in [Callers -> Msgs \union {None}]
    BY <1>3 DEF AlertGet
  <2>4. UNCHANGED <<alerts, ids, counter>>
    BY <1>3 DEF AlertGet
  <2> QED BY <2>1, <2>2, <2>3, <2>4
<1>4. CASE AlertIncr(p)
  <2>1. counter + 1 \in 0..MaxAlerts
    BY <1>4, AlertsAssumption DEF AlertIncr
  <2>2. copy' \in [Callers -> AlertType]
    BY <1>4, <2>1 DEF AlertIncr, AlertType
  <2>3. apc' \in [Callers -> {"idle", "incr", "hsetid", "set", "delid", "del", "delids", "delcounter"}]
    BY <1>4 DEF AlertIncr
  <2> QED BY <1>4, <2>1, <2>2, <2>3 DEF AlertIncr
<1>5. CASE AlertHSetId(p)
  BY <1>5 DEF AlertHSetId
<1>6. CASE AlertSet(p)
  <2>1. alerts' \in [Msgs -> AlertType \union {None}]
    BY <1>6 DEF AlertSet
  <2>2. UNCHANGED <<ids, counter, raises>> /\ Return(p)
    BY <1>6 DEF AlertSet
  <2> QED BY <1>2, <2>1, <2>2
<1>7. CASE AlertDelId(p)
  BY <1>7 DEF AlertDelId
<1>8. CASE AlertDel(p)
  <2>1. alerts' \in [Msgs -> AlertType \union {None}] /\ raises' \in [Msgs -> Nat]
    BY <1>8 DEF AlertDel
  <2>2. UNCHANGED <<ids, counter>> /\ Return(p)
    BY <1>8 DEF AlertDel
  <2> QED BY <1>2, <2>1, <2>2
<1>9. CASE DeleteAllIds(p)
  BY <1>9 DEF DeleteAllIds
<1>10. CASE DeleteAllCounter(p)
  BY <1>1, <1>2, <1>10 DEF DeleteAllCounter
<1>11. CASE DeleteAll(p)
  BY <1>11 DEF DeleteAll
<1>12. CASE AlertCrash(p)
  BY <1>2, <1>12 DEF AlertCrash
<1>13. ASSUME NEW m \in Msgs, AlertDelete(p, m) PROVE AlertTypeOK'
  <2>1. alerts[m] \in AlertType
    BY <1>13 DEF AlertDelete
  <2> QED BY <1>13, <2>1 DEF AlertDelete
<1> QED BY <1>3, <1>4, <1>5, <1>6, <1>7, <1>8, <1>9, <1>10, <1>11, <1>12, <1>13 DEF AlertStep

(* Every step keeps what processes in a call hold.                         *)
LEMMA CallStep == AlertInv /\ AlertMove => CallInv'
<1> SUFFICES ASSUME AlertInv, NEW p \in Callers,
                    \/ AlertStep(p) \/ DeleteAll(p) \/ AlertCrash(p)
                    \/ \E m \in Msgs : AlertDelete(p, m) \/ \E l \in Nat : AlertGet(p, m, l)
             PROVE  CallInv'
  BY DEF AlertMove
<1>t. AlertTypeOK /\ CallInv
  BY DEF AlertInv
<1> USE DEF InAlert
<1>1. ASSUME NEW m \in Msgs, NEW l \in Nat, AlertGet(p, m, l) PROVE CallInv'
  <2>1. alerts' = alerts
    BY <1>1 DEF AlertGet
  <2> QED BY <1>1, <1>t, <2>1, Loaded DEF CallInv
<1>2. ASSUME NEW m \in Msgs, AlertDelete(p, m) PROVE CallInv'
  BY <1>2, <1>t DEF CallInv, AlertTypeOK, AlertDelete, AGoto
<1>3. CASE AlertIncr(p)
  <2>1. counter + 1 \in AlertIds
    BY <1>3, <1>t, AlertsAssumption DEF AlertIncr, AlertTypeOK, AlertIds
  <2>2. copy'[p].id = counter + 1
    BY <1>3, <1>t DEF AlertIncr, AlertTypeOK, AlertType
  <2>3. \A r \in Callers \ {p} : copy'[r] = copy[r] /\ apc'[r] = apc[r]
    BY <1>3, <1>t DEF AlertIncr, AlertTypeOK, AGoto
  <2>4. apc[p] = "incr" /\ apc'[p] = "hsetid" /\ amsg' = amsg /\ alerts' = alerts
    BY <1>3, <1>t DEF AlertIncr, AlertTypeOK, AGoto
  <2> QED BY <1>t, <2>1, <2>2, <2>3, <2>4 DEF CallInv
<1>4. CASE AlertHSetId(p)
  BY <1>4, <1>t DEF CallInv, AlertTypeOK, AlertHSetId, AGoto
<1>5. CASE AlertSet(p)
  <2>1. Return(p) /\ alerts' = [alerts EXCEPT ![amsg[p]] = copy[p]] /\ apc[p] = "set"
    BY <1>5 DEF AlertSet
  <2>2. \A m \in Msgs : alerts'[m] # None => alerts'[m].id \in AlertIds
    BY <1>t, <2>1 DEF CallInv, AlertTypeOK
  <2> QED BY <1>t, <2>1, <2>2, Returned DEF CallInv
<1>6. CASE AlertDelId(p)
  BY <1>6, <1>t DEF CallInv, AlertTypeOK, AlertDelId, AGoto
<1>7. CASE AlertDel(p)
  <2>1. Return(p) /\ alerts' = [alerts EXCEPT ![amsg[p]] = None]
    BY <1>7 DEF AlertDel
  <2>2. \A m \in Msgs : alerts'[m] # None => alerts'[m].id \in AlertIds
    BY <1>t, <2>1 DEF CallInv, AlertTypeOK
  <2> QED BY <1>t, <2>1, <2>2, Returned DEF CallInv
<1>8. CASE DeleteAllIds(p)
  BY <1>8, <1>t DEF CallInv, AlertTypeOK, DeleteAllIds, AGoto
<1>9. CASE DeleteAllCounter(p)
  BY <1>9, <1>t, Returned DEF CallInv, DeleteAllCounter
<1>10. CASE DeleteAll(p)
  BY <1>10, <1>t DEF CallInv, AlertTypeOK, DeleteAll, AGoto
<1>11. CASE AlertCrash(p)
  BY <1>11, <1>t, Returned DEF CallInv, AlertCrash
<1> QED BY <1>1, <1>2, <1>3, <1>4, <1>5, <1>6, <1>7, <1>8, <1>9, <1>10, <1>11 DEF AlertStep

(* History only grows, and a call that meets a reset races with all.       *)
LEMMA RacedGrows ==
  ASSUME AlertInv, AlertMove
  PROVE  raced \subseteq raced' /\ raced' \subseteq Msgs
<1>1. PICK p \in Callers :
        \/ AlertStep(p) \/ DeleteAll(p) \/ AlertCrash(p)
        \/ \E m \in Msgs : AlertDelete(p, m) \/ \E l \in Nat : AlertGet(p, m, l)
  BY DEF AlertMove
<1>2. raced \subseteq Msgs /\ amsg[p] \in Msgs \union {None}
  BY DEF AlertInv, AlertTypeOK
<1>3. \A m \in Msgs : Clash(m) \subseteq Msgs
  BY DEF Clash
<1>4. CASE AlertStep(p)
  BY <1>2, <1>4 DEF AlertStep, AlertIncr, AlertHSetId, AlertSet, AlertDelId, AlertDel, DeleteAllIds, DeleteAllCounter
<1>5. CASE DeleteAll(p)
  BY <1>2, <1>5 DEF DeleteAll
<1>6. CASE AlertCrash(p)
  BY <1>2, <1>6 DEF AlertCrash
<1>7. ASSUME NEW m \in Msgs, AlertDelete(p, m) \/ \E l \in Nat : AlertGet(p, m, l)
      PROVE  raced \subseteq raced' /\ raced' \subseteq Msgs
  BY <1>2, <1>3, <1>7 DEF AlertDelete, AlertGet
<1> QED BY <1>1, <1>4, <1>5, <1>6, <1>7

(* A step that leaves raced short of Msgs overlaps with no reset, and a    *)
(* reset that begins overlaps with nothing.                                *)
LEMMA NoReset ==
  ASSUME AlertInv, NEW p \in Callers, NEW m \in Msgs, raced' # Msgs, raced' \subseteq Msgs,
         raced' = raced \union Clash(m)
  PROVE  (\A r \in Callers : apc[r] \notin Resetting) /\ (m \notin raced' => InCall(m) = {})
<1>1. ~\E r \in Callers : apc[r] \in Resetting
  BY DEF Clash, Resetting
<1> QED BY <1>1 DEF Clash, Resetting

(* A reset stays alone: whoever begins a call during it makes all race.    *)
LEMMA ResetStep ==
  ASSUME AlertInv, AlertMove, raced' # Msgs, CleanInv
  PROVE  ResetInv'
<1>1. raced # Msgs /\ raced' \subseteq Msgs /\ ResetInv
  BY RacedGrows DEF CleanInv, AlertInv
<1>2. PICK p \in Callers :
        \/ AlertStep(p) \/ DeleteAll(p) \/ AlertCrash(p)
        \/ \E m \in Msgs : AlertDelete(p, m) \/ \E l \in Nat : AlertGet(p, m, l)
  BY DEF AlertMove
<1>t. AlertTypeOK
  BY DEF AlertInv
<1>3. ASSUME NEW m \in Msgs, NEW l \in Nat, AlertGet(p, m, l) PROVE ResetInv'
  <2>1. \A r \in Callers : apc[r] \notin Resetting
    BY <1>1, <1>3, NoReset DEF AlertGet
  <2>2. apc'[p] \notin Resetting /\ \A r \in Callers \ {p} : apc'[r] = apc[r]
    BY <1>3, Loaded DEF Resetting
  <2> QED BY <2>1, <2>2 DEF ResetInv
<1>4. ASSUME NEW m \in Msgs, AlertDelete(p, m) PROVE ResetInv'
  <2>1. \A r \in Callers : apc[r] \notin Resetting
    BY <1>1, <1>4, NoReset DEF AlertDelete
  <2>2. apc'[p] \notin Resetting /\ \A r \in Callers \ {p} : apc'[r] = apc[r]
    BY <1>4, <1>t DEF AlertDelete, AGoto, AlertTypeOK, Resetting
  <2> QED BY <2>1, <2>2 DEF ResetInv
<1>5. CASE AlertIncr(p) \/ AlertHSetId(p) \/ AlertSet(p) \/ AlertDelId(p) \/ AlertDel(p)
  <2>1. apc[p] # "idle" /\ apc[p] \notin Resetting
    BY <1>5 DEF AlertIncr, AlertHSetId, AlertSet, AlertDelId, AlertDel, Resetting
  <2>2. \A r \in Callers : apc[r] \notin Resetting
    BY <1>1, <2>1 DEF ResetInv
  <2>3. apc'[p] \notin Resetting /\ \A r \in Callers \ {p} : apc'[r] = apc[r]
    BY <1>5, <1>t DEF AlertIncr, AlertHSetId, AlertSet, AlertDelId, AlertDel, Return, AGoto, AlertTypeOK, Resetting
  <2> QED BY <2>2, <2>3 DEF ResetInv
<1>6. CASE DeleteAllIds(p)
  <2>1. apc'[p] = "delcounter" /\ (\A r \in Callers \ {p} : apc'[r] = apc[r]) /\ apc[p] \in Resetting
    BY <1>6, <1>t DEF DeleteAllIds, AGoto, AlertTypeOK, Resetting
  <2>2. alerts' = alerts /\ raises' = raises /\ \A k \in AlertIds : ids'[k] = None
    BY <1>6 DEF DeleteAllIds
  <2> QED BY <1>1, <2>1, <2>2 DEF ResetInv, Resetting
<1>7. CASE DeleteAllCounter(p)
  <2>1. apc[p] \in Resetting /\ apc'[p] = "idle" /\ \A r \in Callers \ {p} : apc'[r] = apc[r]
    BY <1>7, Returned DEF DeleteAllCounter, Resetting
  <2> QED BY <1>1, <2>1 DEF ResetInv, Resetting
<1>8. CASE DeleteAll(p)
  <2>1. \A q \in Callers : apc[q] = "idle"
    BY <1>1, <1>8 DEF DeleteAll
  <2>2. apc'[p] # "delcounter" /\ \A r \in Callers \ {p} : apc'[r] = apc[r]
    BY <1>8, <1>t DEF DeleteAll, AGoto, AlertTypeOK
  <2>3. \A m \in Msgs : alerts'[m] = None /\ raises'[m] = 0
    BY <1>8 DEF DeleteAll
  <2> QED BY <2>1, <2>2, <2>3 DEF ResetInv, Resetting
<1>9. CASE AlertCrash(p)
  <2>1. apc'[p] = "idle" /\ \A r \in Callers \ {p} : apc'[r] = apc[r]
    BY <1>9, Returned DEF AlertCrash
  <2>2. alerts' = alerts /\ raises' = raises /\ ids' = ids
    BY <1>9 DEF AlertCrash
  <2> QED BY <1>1, <2>1, <2>2 DEF ResetInv, Resetting
<1> QED BY <1>2, <1>3, <1>4, <1>5, <1>6, <1>7, <1>8, <1>9 DEF AlertStep

(* A step that hands out no number gives no identifier a number.           *)
LEMMA OwnKept ==
  ASSUME OwnInv, \A k \in AlertIds, m \in Msgs : Holds(k, m)' => Holds(k, m), counter' = counter
  PROVE  OwnInv'
  BY DEF OwnInv

(* Numbers stay with the identifier they were handed out for.              *)
LEMMA OwnStep ==
  ASSUME AlertInv, AlertMove, raced' # Msgs, CleanInv
  PROVE  OwnInv'
<1>1. raced # Msgs /\ raced' \subseteq Msgs /\ ResetInv /\ OwnInv
  BY RacedGrows DEF CleanInv, AlertInv
<1>2. PICK p \in Callers :
        \/ AlertStep(p) \/ DeleteAll(p) \/ AlertCrash(p)
        \/ \E m \in Msgs : AlertDelete(p, m) \/ \E l \in Nat : AlertGet(p, m, l)
  BY DEF AlertMove
<1>t. AlertTypeOK /\ CallInv
  BY DEF AlertInv
<1>0. 0 \notin AlertIds /\ None \notin Msgs
  BY AlertsAssumption DEF AlertIds
<1> SUFFICES \/ OwnInv'
             \/ counter' = counter /\ \A k \in AlertIds, m \in Msgs : Holds(k, m)' => Holds(k, m)
  BY <1>1, OwnKept
<1>3. ASSUME NEW m \in Msgs, NEW l \in Nat, AlertGet(p, m, l)
      PROVE  counter' = counter /\ \A k \in AlertIds, n \in Msgs : Holds(k, n)' => Holds(k, n)
  <2>1. counter' = counter /\ alerts' = alerts /\ ids' = ids
    BY <1>3 DEF AlertGet
  <2>2. ASSUME NEW k \in AlertIds, NEW n \in Msgs, Holds(k, n)' PROVE Holds(k, n)
    <3>1. CASE \E r \in Callers \ {p} : apc'[r] \in InAlert /\ amsg'[r] = n /\ copy'[r].id = k
      BY <1>3, <3>1, Loaded DEF Holds
    <3>2. CASE apc'[p] \in InAlert /\ amsg'[p] = n /\ copy'[p].id = k
      BY <1>0, <1>3, <3>2, Loaded DEF Holds
    <3> QED BY <2>1, <2>2, <3>1, <3>2 DEF Holds
  <2> QED BY <2>1, <2>2
<1>4. ASSUME NEW m \in Msgs, AlertDelete(p, m)
      PROVE  counter' = counter /\ \A k \in AlertIds, n \in Msgs : Holds(k, n)' => Holds(k, n)
  <2>1. counter' = counter /\ alerts' = alerts /\ ids' = ids /\ alerts[m] # None
    BY <1>4 DEF AlertDelete
  <2>2. copy'[p] = alerts[m] /\ amsg'[p] = m /\ \A r \in Callers \ {p} : apc'[r] = apc[r] /\ amsg'[r] = amsg[r] /\ copy'[r] = copy[r]
    BY <1>4, <1>t DEF AlertDelete, AGoto, AlertTypeOK
  <2>3. ASSUME NEW k \in AlertIds, NEW n \in Msgs, Holds(k, n)' PROVE Holds(k, n)
    <3>1. CASE \E r \in Callers \ {p} : apc'[r] \in InAlert /\ amsg'[r] = n /\ copy'[r].id = k
      BY <2>2, <3>1 DEF Holds
    <3>2. CASE apc'[p] \in InAlert /\ amsg'[p] = n /\ copy'[p].id = k
      BY <2>1, <2>2, <3>2 DEF Holds
    <3> QED BY <2>1, <2>3, <3>1, <3>2 DEF Holds
  <2> QED BY <2>1, <2>3
<1>5. CASE AlertIncr(p)
  <2>1. counter \in Nat /\ counter' = counter + 1 /\ alerts' = alerts /\ ids' = ids /\ amsg' = amsg /\ amsg[p] \in Msgs
    BY <1>5, <1>t DEF AlertIncr, CallInv, InAlert, AlertTypeOK
  <2>2. /\ copy'[p].id = counter + 1 /\ \A r \in Callers \ {p} : apc'[r] = apc[r] /\ copy'[r] = copy[r]
    BY <1>5, <1>t DEF AlertIncr, AGoto, AlertTypeOK, AlertType
  <2>3. ASSUME NEW k \in AlertIds, NEW n \in Msgs, Holds(k, n)'
        PROVE  Holds(k, n) \/ (k = counter + 1 /\ n = amsg[p])
    <3>1. CASE \E r \in Callers \ {p} : apc'[r] \in InAlert /\ amsg'[r] = n /\ copy'[r].id = k
      BY <2>1, <2>2, <3>1 DEF Holds
    <3>2. CASE apc'[p] \in InAlert /\ amsg'[p] = n /\ copy'[p].id = k
      BY <2>1, <2>2, <3>2
    <3> QED BY <2>1, <2>3, <3>1, <3>2 DEF Holds
  <2>4. \A k \in AlertIds, n \in Msgs : Holds(k, n) => k <= counter /\ k # counter + 1
    BY <1>1, <2>1 DEF OwnInv, AlertIds
  <2>5. ASSUME NEW k \in AlertIds, NEW m \in Msgs, Holds(k, m)'
        PROVE  k <= counter' /\ \A n \in Msgs : Holds(k, n)' => n = m
    <3>1. CASE Holds(k, m)
      <4>1. k <= counter /\ k # counter + 1
        BY <2>4, <3>1
      <4>2. \A n \in Msgs : Holds(k, n)' => Holds(k, n)
        BY <2>3, <4>1
      <4> QED BY <1>1, <2>1, <3>1, <4>1, <4>2 DEF OwnInv, AlertIds
    <3>2. CASE k = counter + 1 /\ m = amsg[p]
      BY <2>1, <2>3, <2>4, <3>2
    <3> QED BY <2>3, <2>5, <3>1, <3>2
  <2> QED BY <2>5 DEF OwnInv
<1>6. CASE AlertHSetId(p)
  <2>1. counter' = counter /\ alerts' = alerts /\ copy' = copy /\ amsg' = amsg /\ apc[p] = "hsetid" /\ amsg[p] \in Msgs
    BY <1>6, <1>t DEF AlertHSetId, CallInv, InAlert
  <2>2. \A r \in Callers : apc'[r] \in InAlert => apc[r] \in InAlert
    BY <1>6, <1>t DEF AlertHSetId, AGoto, AlertTypeOK, InAlert
  <2>3. \A k \in AlertIds : ids'[k] = ids[k] \/ (ids'[k] = amsg[p] /\ k = copy[p].id)
    BY <1>6, <1>t DEF AlertHSetId, AlertTypeOK
  <2>4. apc[p] \in InAlert
    BY <2>1 DEF InAlert
  <2> QED BY <2>1, <2>2, <2>3, <2>4 DEF Holds
<1>7. CASE AlertSet(p)
  <2>1. counter' = counter /\ ids' = ids /\ apc[p] = "set" /\ Return(p) /\ alerts' = [alerts EXCEPT ![amsg[p]] = copy[p]]
    BY <1>7 DEF AlertSet
  <2>2. \A n \in Msgs : alerts'[n] = alerts[n] \/ (n = amsg[p] /\ alerts'[n] = copy[p])
    BY <2>1, <1>t DEF AlertTypeOK
  <2>3. \A r \in Callers : apc'[r] \in InAlert => apc[r] \in InAlert /\ amsg'[r] = amsg[r] /\ copy'[r] = copy[r]
    BY <2>1, Returned DEF InAlert
  <2>4. apc[p] \in InAlert
    BY <2>1 DEF InAlert
  <2> QED BY <2>1, <2>2, <2>3, <2>4 DEF Holds
<1>8. CASE AlertDelId(p)
  <2>1. counter' = counter /\ alerts' = alerts /\ copy' = copy /\ amsg' = amsg
    BY <1>8 DEF AlertDelId
  <2>2. \A r \in Callers : apc'[r] \in InAlert => apc[r] \in InAlert
    BY <1>8, <1>t DEF AlertDelId, AGoto, AlertTypeOK, InAlert
  <2>3. \A k \in AlertIds : ids'[k] = ids[k] \/ ids'[k] = None
    BY <1>8, <1>t DEF AlertDelId, AlertTypeOK
  <2> QED BY <1>0, <2>1, <2>2, <2>3 DEF Holds
<1>9. CASE AlertDel(p)
  <2>1. counter' = counter /\ ids' = ids /\ Return(p) /\ alerts' = [alerts EXCEPT ![amsg[p]] = None]
    BY <1>9 DEF AlertDel
  <2>2. \A n \in Msgs : alerts'[n] = alerts[n] \/ alerts'[n] = None
    BY <2>1, <1>t DEF AlertTypeOK
  <2>3. \A r \in Callers : apc'[r] \in InAlert => apc[r] \in InAlert /\ amsg'[r] = amsg[r] /\ copy'[r] = copy[r]
    BY <2>1, Returned DEF InAlert
  <2> QED BY <2>1, <2>2, <2>3 DEF Holds
<1>10. CASE DeleteAllIds(p)
  <2>1. counter' = counter /\ alerts' = alerts /\ copy' = copy /\ amsg' = amsg /\ \A k \in AlertIds : ids'[k] = None
    BY <1>10 DEF DeleteAllIds
  <2>2. \A r \in Callers : apc'[r] \in InAlert => apc[r] \in InAlert
    BY <1>10, <1>t DEF DeleteAllIds, AGoto, AlertTypeOK, InAlert
  <2> QED BY <1>0, <2>1, <2>2 DEF Holds
<1>11. CASE DeleteAllCounter(p)
  <2>1. apc[p] = "delcounter" /\ alerts' = alerts /\ ids' = ids /\ Return(p)
    BY <1>11 DEF DeleteAllCounter
  <2>2. /\ \A m \in Msgs : alerts'[m] = None
        /\ \A k \in AlertIds : ids'[k] = None
        /\ \A s \in Callers : apc'[s] = "idle"
    BY <1>1, <2>1, Returned DEF ResetInv, Resetting
  <2>3. \A k \in AlertIds, m \in Msgs : ~Holds(k, m)'
    BY <1>0, <2>2 DEF Holds, InAlert
  <2> QED BY <2>3 DEF OwnInv
<1>12. CASE DeleteAll(p)
  <2>1. counter' = counter /\ ids' = ids /\ copy' = copy /\ \A m \in Msgs : alerts'[m] = None
    BY <1>12 DEF DeleteAll
  <2>2. \A r \in Callers : apc'[r] \in InAlert => apc[r] \in InAlert /\ amsg'[r] = amsg[r]
    BY <1>12, <1>t DEF DeleteAll, AGoto, AlertTypeOK, InAlert
  <2> QED BY <2>1, <2>2 DEF Holds
<1>13. CASE AlertCrash(p)
  <2>1. counter' = counter /\ ids' = ids /\ alerts' = alerts /\ Return(p)
    BY <1>13 DEF AlertCrash
  <2>2. \A r \in Callers : apc'[r] \in InAlert => apc[r] \in InAlert /\ amsg'[r] = amsg[r] /\ copy'[r] = copy[r]
    BY <2>1, Returned DEF InAlert
  <2> QED BY <2>1, <2>2 DEF Holds
<1> QED BY <1>2, <1>3, <1>4, <1>5, <1>6, <1>7, <1>8, <1>9, <1>10, <1>11, <1>12, <1>13 DEF AlertStep

(* The invariant of the numbers holds after every step.                    *)
LEMMA CleanStep == AlertInv /\ AlertMove /\ CleanInv => CleanInv'
  BY ResetStep, OwnStep DEF CleanInv

(* An alert that races with nothing counts every event and is found by its *)
(* number, before, during and after each call about it.                    *)
LEMMA ExactStep == AlertInv /\ AlertMove /\ CleanInv /\ ExactInv => ExactInv'
<1> SUFFICES ASSUME AlertInv, AlertMove, CleanInv, ExactInv, NEW m \in Msgs, m \notin raced'
             PROVE  Exact(m)'
  BY DEF ExactInv
<1>1. raced \subseteq raced' /\ raced' \subseteq Msgs /\ raced' # Msgs /\ raced # Msgs /\ m \notin raced
  BY RacedGrows
<1>2. ResetInv /\ OwnInv /\ Exact(m)
  BY <1>1 DEF CleanInv, ExactInv
<1>3. PICK p \in Callers :
        \/ AlertStep(p) \/ DeleteAll(p) \/ AlertCrash(p)
        \/ \E n \in Msgs : AlertDelete(p, n) \/ \E l \in Nat : AlertGet(p, n, l)
  BY DEF AlertMove
<1>t. AlertTypeOK /\ CallInv
  BY DEF AlertInv
<1>0. None \notin Msgs /\ None \notin AlertType
  BY AlertNotNone, AlertsAssumption
<1>4. ASSUME NEW n \in Msgs, NEW l \in Nat, AlertGet(p, n, l) PROVE Exact(m)'
  <2>1. alerts' = alerts /\ ids' = ids /\ raises' = [raises EXCEPT ![n] = @ + 1]
    BY <1>4 DEF AlertGet
  <2>2. CASE n = m
    <3>1. InCall(m) = {}
      BY <1>1, <1>4, <2>2, NoReset DEF AlertGet
    <3>2. CallsOn(m) = {}
      BY <3>1 DEF InCall, CallsOn
    <3>3. CallsOn(m)' = {p}
      <4>1. apc'[p] # "idle" /\ amsg'[p] = m
        BY <1>4, <2>2, Loaded
      <4>2. \A r \in Callers \ {p} : ~(apc'[r] # "idle" /\ amsg'[r] = m)
        BY <1>4, <3>2, Loaded DEF CallsOn
      <4> QED BY <4>1, <4>2 DEF CallsOn
    <3>4. raises'[m] = raises[m] + 1
      BY <1>t, <2>1, <2>2 DEF AlertTypeOK
    <3>5. copy'[p].count = raises'[m] /\ (apc'[p] \in {"set", "delid"} => ids'[copy'[p].id] = m)
      <4>1. CASE alerts[m] = None
        <5>1. apc'[p] = "incr" /\ copy'[p].count = 1
          BY <1>4, <2>2, <4>1, Loaded
        <5>2. raises[m] = 0
          BY <1>2, <3>2, <4>1 DEF Exact
        <5> QED BY <3>4, <5>1, <5>2
      <4>2. CASE alerts[m] # None
        <5>1. copy'[p].id = alerts[m].id /\ copy'[p].count = alerts[m].count + 1
          BY <1>4, <2>2, <4>2, Loaded
        <5>2. ids[alerts[m].id] = m /\ alerts[m].count = raises[m]
          BY <1>2, <3>2, <4>2 DEF Exact
        <5> QED BY <2>1, <3>4, <5>1, <5>2
      <4> QED BY <4>1, <4>2
    <3> QED BY <3>3, <3>5 DEF Exact
  <2>3. CASE n # m
    <3>1. CallsOn(m)' = CallsOn(m) /\ p \notin CallsOn(m)
      BY <1>4, <2>3, Loaded DEF CallsOn
    <3>2. raises'[m] = raises[m]
      BY <1>t, <2>1, <2>3 DEF AlertTypeOK
    <3>3. \A r \in CallsOn(m) : apc'[r] = apc[r] /\ copy'[r] = copy[r]
      BY <1>4, <3>1, Loaded DEF CallsOn
    <3> QED BY <1>2, <2>1, <3>1, <3>2, <3>3 DEF Exact
  <2> QED BY <2>2, <2>3
<1>5. ASSUME NEW n \in Msgs, AlertDelete(p, n) PROVE Exact(m)'
  <2>1. /\ alerts' = alerts /\ ids' = ids /\ raises' = raises /\ apc[p] = "idle" /\ alerts[n] # None
        /\ apc'[p] = "delid" /\ amsg'[p] = n /\ copy'[p] = alerts[n]
        /\ \A r \in Callers \ {p} : apc'[r] = apc[r] /\ amsg'[r] = amsg[r] /\ copy'[r] = copy[r]
    BY <1>5, <1>t DEF AlertDelete, AGoto, AlertTypeOK
  <2>2. CASE n = m
    <3>1. InCall(m) = {}
      BY <1>1, <1>5, <2>2, NoReset DEF AlertDelete
    <3>2. CallsOn(m) = {}
      BY <3>1 DEF InCall, CallsOn
    <3>3. CallsOn(m)' = {p}
      <4>1. \A r \in Callers \ {p} : ~(apc'[r] # "idle" /\ amsg'[r] = m)
        BY <2>1, <3>2 DEF CallsOn
      <4> QED BY <2>1, <2>2, <4>1 DEF CallsOn
    <3>4. ids'[copy'[p].id] = m
      BY <1>2, <2>1, <2>2, <3>2 DEF Exact
    <3> QED BY <2>1, <3>3, <3>4 DEF Exact
  <2>3. CASE n # m
    <3>1. CallsOn(m)' = CallsOn(m) /\ p \notin CallsOn(m)
      BY <2>1, <2>3 DEF CallsOn
    <3>2. \A r \in CallsOn(m) : apc'[r] = apc[r] /\ copy'[r] = copy[r]
      BY <2>1, <3>1 DEF CallsOn
    <3> QED BY <1>2, <2>1, <3>1, <3>2 DEF Exact
  <2> QED BY <2>2, <2>3
  (* A change of the number of another identifier does not touch m's.      *)
<1>6. ASSUME amsg[p] # m, apc[p] \in InAlert \ {"incr"}, \A k \in AlertIds \ {copy[p].id} : ids'[k] = ids[k]
      PROVE  /\ alerts[m] # None => ids'[alerts[m].id] = ids[alerts[m].id]
             /\ \A r \in CallsOn(m) : apc[r] \in {"set", "delid"} => ids'[copy[r].id] = ids[copy[r].id]
  <2>1. amsg[p] \in Msgs /\ copy[p].id \in AlertIds /\ Holds(copy[p].id, amsg[p])
    BY <1>6, <1>t DEF CallInv, Holds
  <2>2. ~Holds(copy[p].id, m)
    BY <1>2, <1>6, <2>1 DEF OwnInv
  <2>3. alerts[m] # None => alerts[m].id \in AlertIds \ {copy[p].id}
    BY <1>t, <2>2 DEF CallInv, Holds
  <2>4. \A r \in CallsOn(m) : apc[r] \in {"set", "delid"} => copy[r].id \in AlertIds \ {copy[p].id}
    BY <1>t, <2>2 DEF CallInv, Holds, CallsOn, InAlert
  <2> QED BY <1>6, <2>3, <2>4
<1>7. CASE AlertIncr(p)
  <2>1. /\ alerts' = alerts /\ ids' = ids /\ raises' = raises /\ amsg' = amsg /\ apc[p] = "incr" /\ apc'[p] = "hsetid"
        /\ copy'[p].count = copy[p].count /\ \A r \in Callers \ {p} : apc'[r] = apc[r] /\ copy'[r] = copy[r]
    BY <1>7, <1>t DEF AlertIncr, AGoto, AlertTypeOK, AlertType
  <2>2. CallsOn(m)' = CallsOn(m)
    BY <2>1 DEF CallsOn
  <2>3. \A r \in CallsOn(m) : /\ apc'[r] \in {"incr", "hsetid", "set"} => copy'[r].count = raises[m]
                              /\ apc'[r] \in {"set", "delid"} => ids[copy'[r].id] = m
    BY <1>2, <2>1 DEF Exact, CallsOn
  <2> QED BY <1>2, <2>1, <2>2, <2>3 DEF Exact
<1>8. CASE AlertHSetId(p)
  <2>1. /\ alerts' = alerts /\ raises' = raises /\ amsg' = amsg /\ copy' = copy /\ apc[p] = "hsetid" /\ apc'[p] = "set"
        /\ \A r \in Callers \ {p} : apc'[r] = apc[r]
    BY <1>8, <1>t DEF AlertHSetId, AGoto, AlertTypeOK
  <2>2. CallsOn(m)' = CallsOn(m)
    BY <2>1 DEF CallsOn
  <2>3. copy[p].id \in AlertIds
    BY <1>t, <2>1 DEF CallInv, InAlert
  <2>4. ids'[copy[p].id] = amsg[p] /\ \A k \in AlertIds \ {copy[p].id} : ids'[k] = ids[k]
    BY <1>8, <1>t, <2>3 DEF AlertHSetId, AlertTypeOK
  <2>5. CASE amsg[p] = m
    <3>1. CallsOn(m) = {p} /\ copy[p].count = raises[m]
      BY <1>2, <2>1, <2>5 DEF Exact, CallsOn
    <3> QED BY <2>1, <2>2, <2>4, <2>5, <3>1 DEF Exact
  <2>6. CASE amsg[p] # m
    <3>1. p \notin CallsOn(m) /\ \A r \in CallsOn(m) : apc'[r] = apc[r]
      BY <2>1, <2>6 DEF CallsOn
    <3>2. /\ alerts[m] # None => ids'[alerts[m].id] = ids[alerts[m].id]
          /\ \A r \in CallsOn(m) : apc[r] \in {"set", "delid"} => ids'[copy[r].id] = ids[copy[r].id]
      BY <1>6, <2>1, <2>4, <2>6 DEF InAlert
    <3> QED BY <1>2, <2>1, <2>2, <3>1, <3>2 DEF Exact
  <2> QED BY <2>5, <2>6
<1>9. CASE AlertSet(p)
  <2>1. /\ ids' = ids /\ raises' = raises /\ apc[p] = "set" /\ Return(p) /\ alerts' = [alerts EXCEPT ![amsg[p]] = copy[p]]
    BY <1>9 DEF AlertSet
  <2>2. CallsOn(m)' = CallsOn(m) \ {p}
    BY <1>0, <2>1, Returned DEF CallsOn
  <2>3. \A r \in Callers \ {p} : apc'[r] = apc[r] /\ copy'[r] = copy[r]
    BY <2>1, Returned
  <2>4. CASE amsg[p] = m
    <3>1. p \in CallsOn(m)
      BY <2>1, <2>4 DEF CallsOn
    <3>2. CallsOn(m) = {p} /\ copy[p].count = raises[m] /\ ids[copy[p].id] = m
      BY <1>2, <2>1, <3>1 DEF Exact
    <3>3. alerts'[m] = copy[p]
      BY <1>t, <2>1, <2>4 DEF AlertTypeOK
    <3>4. copy[p] # None
      BY <1>0, <1>t DEF AlertTypeOK
    <3> QED BY <2>1, <2>2, <3>2, <3>3, <3>4 DEF Exact
  <2>5. CASE amsg[p] # m
    <3>1. alerts'[m] = alerts[m] /\ p \notin CallsOn(m)
      BY <1>t, <2>1, <2>5 DEF AlertTypeOK, CallsOn
    <3>2. \A r \in CallsOn(m) : apc'[r] = apc[r] /\ copy'[r] = copy[r]
      BY <2>3, <3>1 DEF CallsOn
    <3>3. CallsOn(m)' = CallsOn(m)
      BY <2>2, <3>1
    <3> QED BY <1>2, <2>1, <3>1, <3>2, <3>3 DEF Exact
  <2> QED BY <2>4, <2>5
<1>10. CASE AlertDelId(p)
  <2>1. /\ alerts' = alerts /\ raises' = raises /\ amsg' = amsg /\ copy' = copy /\ apc[p] = "delid" /\ apc'[p] = "del"
        /\ \A r \in Callers \ {p} : apc'[r] = apc[r]
    BY <1>10, <1>t DEF AlertDelId, AGoto, AlertTypeOK
  <2>2. CallsOn(m)' = CallsOn(m)
    BY <2>1 DEF CallsOn
  <2>3. copy[p].id \in AlertIds
    BY <1>t, <2>1 DEF CallInv, InAlert
  <2>4. \A k \in AlertIds \ {copy[p].id} : ids'[k] = ids[k]
    BY <1>10, <1>t, <2>3 DEF AlertDelId, AlertTypeOK
  <2>5. CASE amsg[p] = m
    <3>1. CallsOn(m) = {p}
      BY <1>2, <2>1, <2>5 DEF Exact, CallsOn
    <3> QED BY <2>1, <2>2, <3>1 DEF Exact
  <2>6. CASE amsg[p] # m
    <3>1. p \notin CallsOn(m) /\ \A r \in CallsOn(m) : apc'[r] = apc[r]
      BY <2>1, <2>6 DEF CallsOn
    <3>2. /\ alerts[m] # None => ids'[alerts[m].id] = ids[alerts[m].id]
          /\ \A r \in CallsOn(m) : apc[r] \in {"set", "delid"} => ids'[copy[r].id] = ids[copy[r].id]
      BY <1>6, <2>1, <2>4, <2>6 DEF InAlert
    <3> QED BY <1>2, <2>1, <2>2, <3>1, <3>2 DEF Exact
  <2> QED BY <2>5, <2>6
<1>11. CASE AlertDel(p)
  <2>1. /\ ids' = ids /\ apc[p] = "del" /\ Return(p) /\ alerts' = [alerts EXCEPT ![amsg[p]] = None]
        /\ raises' = [raises EXCEPT ![amsg[p]] = 0]
    BY <1>11 DEF AlertDel
  <2>2. CallsOn(m)' = CallsOn(m) \ {p}
    BY <1>0, <2>1, Returned DEF CallsOn
  <2>3. CASE amsg[p] = m
    <3>1. CallsOn(m) = {p}
      BY <1>2, <2>1, <2>3 DEF Exact, CallsOn
    <3>2. alerts'[m] = None /\ raises'[m] = 0
      BY <1>t, <2>1, <2>3 DEF AlertTypeOK
    <3> QED BY <2>2, <3>1, <3>2 DEF Exact
  <2>4. CASE amsg[p] # m
    <3>1. alerts'[m] = alerts[m] /\ raises'[m] = raises[m] /\ p \notin CallsOn(m)
      BY <1>t, <2>1, <2>4 DEF AlertTypeOK, CallsOn
    <3>2. \A r \in CallsOn(m) : apc'[r] = apc[r] /\ copy'[r] = copy[r]
      BY <2>1, <3>1, Returned DEF CallsOn
    <3>3. CallsOn(m)' = CallsOn(m)
      BY <2>2, <3>1
    <3> QED BY <1>2, <2>1, <3>1, <3>2, <3>3 DEF Exact
  <2> QED BY <2>3, <2>4
<1>12. CASE DeleteAllIds(p) \/ DeleteAllCounter(p)
  <2>1. /\ apc[p] \in Resetting /\ alerts' = alerts /\ raises' = raises
        /\ amsg'[p] = amsg[p] \/ amsg'[p] = None
        /\ \A r \in Callers \ {p} : apc'[r] = apc[r] /\ amsg'[r] = amsg[r]
    BY <1>12, <1>t DEF DeleteAllIds, DeleteAllCounter, Return, AGoto, AlertTypeOK, Resetting
  <2>2. amsg[p] = None
    BY <1>t, <2>1 DEF CallInv, Resetting, InAlert
  <2>3. alerts[m] = None /\ raises[m] = 0 /\ \A r \in Callers \ {p} : apc[r] = "idle"
    BY <1>2, <2>1 DEF ResetInv
  <2>4. CallsOn(m)' = {}
    BY <1>0, <2>1, <2>2, <2>3 DEF CallsOn
  <2> QED BY <2>1, <2>3, <2>4 DEF Exact
<1>13. CASE DeleteAll(p)
  <2>1. \A q \in Callers : apc[q] = "idle"
    BY <1>1, <1>13 DEF DeleteAll
  <2>2. /\ amsg'[p] = None /\ alerts'[m] = None /\ raises'[m] = 0
        /\ \A r \in Callers \ {p} : apc'[r] = apc[r]
    BY <1>13, <1>t DEF DeleteAll, AGoto, AlertTypeOK
  <2>3. CallsOn(m)' = {}
    BY <1>0, <2>1, <2>2 DEF CallsOn
  <2> QED BY <2>2, <2>3 DEF Exact
<1>14. CASE AlertCrash(p)
  <2>1. alerts' = alerts /\ ids' = ids /\ raises' = raises /\ Return(p)
    BY <1>14 DEF AlertCrash
  <2>2. p \notin CallsOn(m)
    BY <1>0, <1>1, <1>14 DEF AlertCrash, CallsOn
  <2>3. CallsOn(m)' = CallsOn(m)
    BY <1>0, <2>1, <2>2, Returned DEF CallsOn
  <2>4. \A r \in CallsOn(m) : apc'[r] = apc[r] /\ copy'[r] = copy[r]
    BY <2>1, <2>2, Returned DEF CallsOn
  <2> QED BY <1>2, <2>1, <2>3, <2>4 DEF Exact
<1> QED BY <1>3, <1>4, <1>5, <1>7, <1>8, <1>9, <1>10, <1>11, <1>12, <1>13, <1>14 DEF AlertStep

(* At rest, what is carried through the calls is what readers see.         *)
LEMMA ExactAtRest == AlertInv /\ ExactInv => AlertsExact
<1> SUFFICES ASSUME AlertInv, ExactInv, NEW m \in Msgs \ raced, alerts[m] # None, InCall(m) = {}
             PROVE  alerts[m].id \in AlertIds /\ ids[alerts[m].id] = m /\ alerts[m].count = raises[m]
  BY DEF AlertsExact
<1>1. CallsOn(m) = {}
  BY DEF CallsOn, InCall
<1> QED BY <1>1 DEF AlertInv, CallInv, ExactInv, Exact

-----------------------------------------------------------------------------
(* Logs and alerts together.                                               *)

(* Until somebody deletes alerts, a process that is going to exit has its  *)
(* alert stored or is still storing it.                                    *)
DyingInv ==
    deleteLeft = MaxDelete =>
        /\ \A r \in Callers : apc[r] \notin {"delid", "del"} \union Resetting
        /\ \A r \in dying : (apc[r] # "idle" /\ amsg[r] = DumpError) \/ alerts[DumpError] # None
        /\ exited > 0 => alerts[DumpError] # None

OwnType == dying \subseteq Procs /\ exited \in Nat /\ raiseLeft \in 0..MaxRaise /\ deleteLeft \in 0..MaxDelete

ErrorsInv == LogsInv /\ AlertInv /\ CleanInv /\ ExactInv /\ OwnType /\ DyingInv

(* Every step is one of the log handlers and the reader, or leaves the     *)
(* logs alone; and one of the alert handlers, or leaves the alerts alone.  *)
LEMMA Parts ==
  ASSUME LogsInv, [Next]_vars
  PROVE  (LogMove \/ UNCHANGED logVars) /\ (AlertMove \/ UNCHANGED alertVars)
<1>1. Callers = Procs /\ AppErrors \subseteq Msgs /\ DumpError \in Msgs /\ \A p \in Procs : lid[p] \in Nat
  BY ErrorsAssumption, LogsAssumption DEF LogsInv, LogTypeOK
<1>2. CASE UNCHANGED vars
  BY <1>2 DEF vars
<1>3. CASE Client
  BY <1>3 DEF Client, LogMove
<1>4. ASSUME NEW p \in Procs, NEW m \in AppErrors, Raise(p, m)
      PROVE  UNCHANGED logVars /\ AlertMove
  BY <1>1, <1>4 DEF Raise, AlertMove
<1>5. ASSUME NEW p \in Procs, Log(p) PROVE LogMove /\ UNCHANGED alertVars
  BY <1>5 DEF Log, LogMove
<1>6. ASSUME NEW p \in Procs, Handle(p) PROVE UNCHANGED logVars /\ AlertMove
  BY <1>1, <1>6 DEF Handle, AlertMove
<1>7. ASSUME NEW p \in Procs, Exit(p) PROVE LogMove /\ UNCHANGED alertVars
  BY <1>7 DEF Exit, LogMove
<1>8. ASSUME NEW p \in Procs, Alert(p) PROVE UNCHANGED logVars /\ AlertMove
  BY <1>1, <1>8 DEF Alert, AlertMove
<1>9. ASSUME NEW p \in Procs, Operate(p) PROVE UNCHANGED logVars /\ AlertMove
  BY <1>1, <1>9 DEF Operate, AlertMove
<1>10. ASSUME NEW p \in Procs, Crash(p) PROVE LogMove /\ AlertMove
  BY <1>1, <1>10 DEF Crash, LogMove, AlertMove
<1> QED BY <1>2, <1>3, <1>4, <1>5, <1>6, <1>7, <1>8, <1>9, <1>10 DEF Next

(* The state of the alerts that no step of theirs changes stays right.     *)
LEMMA AlertsKept ==
  ASSUME AlertInv, CleanInv, ExactInv, AlertMove \/ UNCHANGED alertVars
  PROVE  AlertInv' /\ CleanInv' /\ ExactInv'
<1>1. CASE AlertMove
  BY <1>1, AlertTypeStep, CallStep, RacedGrows, CleanStep, ExactStep DEF AlertInv
<1>2. CASE UNCHANGED alertVars
  <2> USE <1>2 DEF alertVars
  <2>1. AlertInv'
    BY DEF AlertInv, AlertTypeOK, CallInv
  <2>2. CleanInv'
    BY DEF CleanInv, ResetInv, OwnInv, Holds
  <2>3. ExactInv'
    BY DEF ExactInv, Exact, CallsOn
  <2> QED BY <2>1, <2>2, <2>3
<1> QED BY <1>1, <1>2

(* The bounds and the history keep their types.                            *)
LEMMA OwnTypeStep == OwnType /\ [Next]_vars => OwnType'
<1> SUFFICES ASSUME OwnType, [Next]_vars PROVE OwnType'
  OBVIOUS
<1>1. MaxRaise \in Nat /\ MaxDelete \in Nat
  BY ErrorsAssumption
<1>2. CASE UNCHANGED vars
  BY <1>2 DEF vars, own, OwnType
<1>3. CASE Client
  BY <1>3 DEF Client, own, OwnType
<1>4. ASSUME NEW p \in Procs, Log(p) \/ Alert(p) PROVE OwnType'
  BY <1>4 DEF Log, Alert, own, OwnType
<1>5. ASSUME NEW p \in Procs, Handle(p) \/ Exit(p) \/ Crash(p) PROVE OwnType'
  BY <1>5 DEF Handle, Exit, Crash, OwnType
<1>6. ASSUME NEW p \in Procs, Operate(p) PROVE OwnType'
  BY <1>1, <1>6 DEF Operate, OwnType
<1>7. ASSUME NEW p \in Procs, NEW m \in AppErrors, Raise(p, m) PROVE OwnType'
  BY <1>1, <1>7 DEF Raise, OwnType
<1> QED BY <1>2, <1>3, <1>4, <1>5, <1>6, <1>7 DEF Next

(* The alert of a process that exits for a failed dump stays.              *)
LEMMA DyingStep == AlertInv /\ OwnType /\ DyingInv /\ [Next]_vars => DyingInv'
<1> SUFFICES ASSUME AlertInv, OwnType, DyingInv, [Next]_vars, deleteLeft' = MaxDelete PROVE DyingInv'
  BY DEF DyingInv
<1>0. Callers = Procs /\ AppErrors \subseteq Msgs /\ DumpError \in Msgs /\ MaxDelete \in Nat
      /\ deleteLeft \in 0..MaxDelete
  BY ErrorsAssumption DEF OwnType
<1>t. AlertTypeOK
  BY DEF AlertInv
<1>1. CASE UNCHANGED vars
  BY <1>1 DEF vars, alertVars, own, DyingInv
<1>2. CASE Client \/ \E p \in Procs : Log(p)
  BY <1>2 DEF Log, Client, alertVars, own, DyingInv
<1>3. ASSUME NEW p \in Procs, NEW m \in AppErrors, Raise(p, m) PROVE DyingInv'
  <2>1. AlertGet(p, m, lid[p]) /\ alerts' = alerts /\ dying' = dying /\ exited' = exited /\ deleteLeft' = deleteLeft /\ p \notin dying
    BY <1>3 DEF Raise, AlertGet
  <2>2. apc'[p] \in {"incr", "set"} /\ \A r \in Callers \ {p} : apc'[r] = apc[r] /\ amsg'[r] = amsg[r]
    BY <1>0, <1>3, <1>t DEF Raise, AlertGet, AGoto, AlertTypeOK
  <2> QED BY <1>0, <2>1, <2>2 DEF DyingInv, Resetting, OwnType
<1>4. ASSUME NEW p \in Procs, Handle(p) PROVE DyingInv'
  <2>1. alerts' = alerts /\ dying' = dying \union {p} /\ exited' = exited /\ deleteLeft' = deleteLeft
    BY <1>4 DEF Handle, AlertGet
  <2>2. apc'[p] \in {"incr", "set"} /\ amsg'[p] = DumpError /\ \A r \in Callers \ {p} : apc'[r] = apc[r] /\ amsg'[r] = amsg[r]
    BY <1>0, <1>4, <1>t DEF Handle, AlertGet, AGoto, AlertTypeOK
  <2> QED BY <1>0, <2>1, <2>2 DEF DyingInv, Resetting, OwnType
<1>5. ASSUME NEW p \in Procs, Exit(p) PROVE DyingInv'
  <2>1. p \in dying /\ apc[p] = "idle" /\ dying' = dying \ {p} /\ UNCHANGED alertVars /\ deleteLeft' = deleteLeft
    BY <1>5 DEF Exit
  <2>2. alerts[DumpError] # None
    BY <2>1 DEF DyingInv
  <2> QED BY <2>1, <2>2 DEF DyingInv, alertVars
<1>6. ASSUME NEW p \in Procs, Alert(p) PROVE DyingInv'
  <2>1. dying' = dying /\ exited' = exited /\ deleteLeft' = deleteLeft /\ AlertStep(p)
    BY <1>6 DEF Alert, own
  <2>2. \A r \in Callers : apc[r] \notin {"delid", "del"} \union Resetting
    BY <2>1 DEF DyingInv
  <2>3. AlertIncr(p) \/ AlertHSetId(p) \/ AlertSet(p)
    BY <1>0, <2>1, <2>2 DEF AlertStep, AlertDelId, AlertDel, DeleteAllIds, DeleteAllCounter, Resetting
  <2>4. CASE AlertIncr(p) \/ AlertHSetId(p)
    <3>1. alerts' = alerts /\ amsg' = amsg /\ apc'[p] \in {"hsetid", "set"} /\ apc[p] # "idle" /\ \A r \in Callers \ {p} : apc'[r] = apc[r]
      BY <1>0, <1>t, <2>4 DEF AlertIncr, AlertHSetId, AGoto, AlertTypeOK
    <3> QED BY <1>0, <2>1, <3>1 DEF DyingInv, Resetting, OwnType
  <2>5. CASE AlertSet(p)
    <3>1. Return(p) /\ alerts' = [alerts EXCEPT ![amsg[p]] = copy[p]]
      BY <2>5 DEF AlertSet
    <3>2. copy[p] # None
      BY <1>0, <1>t, AlertNotNone DEF AlertTypeOK
    <3>3. alerts[DumpError] # None \/ amsg[p] = DumpError => alerts'[DumpError] # None
      BY <1>0, <1>t, <3>1, <3>2 DEF AlertTypeOK
    <3>4. apc'[p] = "idle" /\ \A r \in Callers \ {p} : apc'[r] = apc[r] /\ amsg'[r] = amsg[r]
      BY <1>0, <3>1, Returned
    <3> QED BY <1>0, <2>1, <3>3, <3>4 DEF DyingInv, Resetting, OwnType
  <2> QED BY <2>3, <2>4, <2>5
<1>7. ASSUME NEW p \in Procs, Operate(p) PROVE FALSE
  BY <1>0, <1>7 DEF Operate
<1>8. ASSUME NEW p \in Procs, Crash(p) PROVE DyingInv'
  <2>1. dying' = dying \ {p} /\ exited' = exited /\ deleteLeft' = deleteLeft /\ alerts' = alerts /\ Return(p)
    BY <1>8 DEF Crash, AlertCrash
  <2>2. apc'[p] = "idle" /\ \A r \in Callers \ {p} : apc'[r] = apc[r] /\ amsg'[r] = amsg[r]
    BY <1>0, <2>1, Returned
  <2> QED BY <1>0, <2>1, <2>2 DEF DyingInv, Resetting, OwnType
<1> QED BY <1>1, <1>2, <1>3, <1>4, <1>5, <1>6, <1>7, <1>8 DEF Next

(* All of it holds of the application as a whole.                          *)
LEMMA ErrorsInductive == Spec => []ErrorsInv
<1>1. Init => ErrorsInv
  <2> SUFFICES ASSUME Init PROVE ErrorsInv
    OBVIOUS
  <2>1. LogsInv /\ AlertInv /\ CleanInv /\ ExactInv
    BY LogsInit, AlertsInit DEF Init
  <2>2. OwnType
    BY ErrorsAssumption DEF Init, OwnType
  <2>3. DyingInv
    BY DEF Init, AlertInit, DyingInv, Resetting
  <2> QED BY <2>1, <2>2, <2>3 DEF ErrorsInv
<1>2. ErrorsInv /\ [Next]_vars => ErrorsInv'
  <2> SUFFICES ASSUME ErrorsInv, [Next]_vars PROVE ErrorsInv'
    OBVIOUS
  <2> USE DEF ErrorsInv
  <2>1. (LogMove \/ UNCHANGED logVars) /\ (AlertMove \/ UNCHANGED alertVars)
    BY Parts
  <2>2. LogsInv'
    BY <2>1, LogsStep
  <2>3. AlertInv' /\ CleanInv' /\ ExactInv'
    BY <2>1, AlertsKept
  <2> QED BY <2>2, <2>3, OwnTypeStep, DyingStep
<1> QED BY <1>1, <1>2, PTL DEF Spec

(* Type correctness of the log handlers and the alert handlers together.   *)
THEOREM ErrorTypes == Spec => []TypeOK
<1>1. ErrorsInv => TypeOK
  BY DEF ErrorsInv, LogsInv, AlertInv, OwnType, TypeOK
<1> QED BY <1>1, ErrorsInductive, PTL

(* An alert that no overlapping or crashed call was about has counted all  *)
(* errors and is found by its number (RedisAlertHandler._handle_error).    *)
THEOREM AlertsCountExactly == Spec => []AlertsExact
<1>1. ErrorsInv => AlertsExact
  BY ExactAtRest DEF ErrorsInv
<1> QED BY <1>1, ErrorsInductive, PTL

(* A process exits for a failed dump only after its alert is stored        *)
(* (exception_handle with die=True), whatever overlaps or crashes.         *)
THEOREM ExitOnRecord == Spec => []ExitLeavesAlert
<1>1. ErrorsInv => ExitLeavesAlert
  BY DEF ErrorsInv, DyingInv, ExitLeavesAlert
<1> QED BY <1>1, ErrorsInductive, PTL

(* What holds of the log handlers on their own holds with errors, exits    *)
(* and crashes in the middle of alerts around them.                        *)
THEOREM LogsFoundWithErrors == Spec => [](NewestInRedis /\ LostOnlyIfHurt)
<1>1. ErrorsInv => NewestInRedis /\ LostOnlyIfHurt
  BY NothingLost DEF ErrorsInv, LogsInv
<1> QED BY <1>1, ErrorsInductive, PTL
=============================================================================
