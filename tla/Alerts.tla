------------------------------- MODULE Alerts -------------------------------
(***************************************************************************)
(* The alert handler (RedisAlertHandler): alerts of all processes are kept *)
(* in one redis hash under an identifier made of their text, and in a     *)
(* second hash a number leads to the identifier.  Every command to redis  *)
(* is a step of its own.                                                   *)
(***************************************************************************)
EXTENDS Integers, FiniteSets

CONSTANTS Callers,    \* processes that raise, delete and reset alerts
          Msgs,       \* texts of errors, that is, identifiers
          MaxAlerts,  \* bound on the counter of alert numbers
          None

\* Nothing that redis can hold is None.
ASSUME AlertsAssumption ==
  /\ MaxAlerts \in Nat
  /\ None \notin Msgs /\ None \notin [id : Nat, count : Nat, link : Nat]

VARIABLES alerts,   \* hash "alerts": identifier -> alert
          ids,      \* hash "alertsids": number -> identifier
          counter,  \* "alertsid"
          apc,      \* where each process is
          amsg,     \* the identifier it works on
          copy,     \* the alert in its memory
          raises,   \* history: errors raised since the alert was deleted
          raced     \* history: identifiers with overlapping or crashed calls

alertVars == <<alerts, ids, counter, apc, amsg, copy, raises, raced>>

AlertIds == 1..MaxAlerts
NoAlert  == [id |-> 0, count |-> 0, link |-> 0]

AlertInit ==
  /\ alerts = [m \in Msgs |-> None]
  /\ ids = [n \in AlertIds |-> None]
  /\ counter = 0
  /\ apc = [p \in Callers |-> "idle"]
  /\ amsg = [p \in Callers |-> None]
  /\ copy = [p \in Callers |-> NoAlert]
  /\ raises = [m \in Msgs |-> 0]
  /\ raced = {}

AGoto(p, l) == apc' = [apc EXCEPT ![p] = l]

\* The call returns.
Return(p) ==
  /\ AGoto(p, "idle")
  /\ amsg' = [amsg EXCEPT ![p] = None]
  /\ copy' = [copy EXCEPT ![p] = NoAlert]

\* Processes that are in the middle of a call about m; a call of delete_all
\* or reset is about every m.
InCall(m) == {p \in Callers : apc[p] # "idle" /\ amsg[p] \in {m, None}}

\* What a call about m that begins now overlaps with: a call about m, or a
\* delete_all, which resets the numbers of all alerts.
Clash(m) ==
  IF \E p \in Callers : apc[p] \in {"delids", "delcounter"} THEN Msgs
  ELSE IF InCall(m) = {} THEN {} ELSE {m}

\* _handle_error: load the alert, or a new one, count the event, link the log.
AlertGet(p, m, logid) ==
  /\ apc[p] = "idle"
  /\ LET a == IF alerts[m] = None THEN NoAlert ELSE alerts[m] IN
     /\ copy' = [copy EXCEPT ![p] = [id |-> a.id, count |-> a.count + 1, link |-> logid]]
     /\ AGoto(p, IF a.id = 0 THEN "incr" ELSE "set")
  /\ amsg' = [amsg EXCEPT ![p] = m]
  /\ raises' = [raises EXCEPT ![m] = @ + 1]
  /\ raced' = raced \union Clash(m)
  /\ UNCHANGED <<alerts, ids, counter>>

\* set(): an alert without a number gets one ...
AlertIncr(p) ==
  /\ apc[p] = "incr" /\ counter < MaxAlerts
  /\ counter' = counter + 1
  /\ copy' = [copy EXCEPT ![p].id = counter + 1]
  /\ AGoto(p, "hsetid")
  /\ UNCHANGED <<alerts, ids, amsg, raises, raced>>

AlertHSetId(p) ==
  /\ apc[p] = "hsetid"
  /\ ids' = [ids EXCEPT ![copy[p].id] = amsg[p]]
  /\ AGoto(p, "set")
  /\ UNCHANGED <<alerts, counter, amsg, copy, raises, raced>>

\* Mutant of AlertSet: the number stays in the copy of the process.
AlertSetNoId(p) ==
  /\ apc[p] = "set"
  /\ alerts' = [alerts EXCEPT ![amsg[p]] = [copy[p] EXCEPT !.id = 0]]
  /\ Return(p)
  /\ UNCHANGED <<ids, counter, raises, raced>>

\* ... and then the whole record is written.
AlertSet(p) ==
  /\ apc[p] = "set"
  /\ alerts' = [alerts EXCEPT ![amsg[p]] = copy[p]]
  /\ Return(p)
  /\ UNCHANGED <<ids, counter, raises, raced>>

\* Mutant of AlertDelete: get() found nothing and the caller goes on.
AlertDeleteAny(p, m) ==
  /\ apc[p] = "idle"
  /\ copy' = [copy EXCEPT ![p] = alerts[m]]
  /\ amsg' = [amsg EXCEPT ![p] = m]
  /\ raced' = raced \union Clash(m)
  /\ AGoto(p, "delid")
  /\ UNCHANGED <<alerts, ids, counter, raises>>

\* delete(alert) of an alert that was loaded ...
AlertDelete(p, m) ==
  /\ apc[p] = "idle" /\ alerts[m] # None
  /\ copy' = [copy EXCEPT ![p] = alerts[m]]
  /\ amsg' = [amsg EXCEPT ![p] = m]
  /\ raced' = raced \union Clash(m)
  /\ AGoto(p, "delid")
  /\ UNCHANGED <<alerts, ids, counter, raises>>

\* ... removes its number ...
AlertDelId(p) ==
  /\ apc[p] = "delid"
  /\ ids' = [ids EXCEPT ![copy[p].id] = None]
  /\ AGoto(p, "del")
  /\ UNCHANGED <<alerts, counter, amsg, copy, raises, raced>>

\* ... and the alert.
AlertDel(p) ==
  /\ apc[p] = "del"
  /\ alerts' = [alerts EXCEPT ![amsg[p]] = None]
  /\ raises' = [raises EXCEPT ![amsg[p]] = 0]
  /\ Return(p)
  /\ UNCHANGED <<ids, counter, raced>>

\* delete_all() removes the alerts, the numbers and the counter, in this order;
\* reset() is its first step only.
DeleteAll(p) ==
  /\ apc[p] = "idle" /\ counter > 0
  /\ alerts' = [m \in Msgs |-> None]
  /\ raises' = [m \in Msgs |-> 0]
  /\ raced' = IF \E q \in Callers : apc[q] # "idle" THEN Msgs ELSE raced
  /\ amsg' = [amsg EXCEPT ![p] = None]
  /\ \/ AGoto(p, "delids")
     \/ AGoto(p, "idle")
  /\ UNCHANGED <<ids, counter, copy>>

DeleteAllIds(p) ==
  /\ apc[p] = "delids"
  /\ ids' = [n \in AlertIds |-> None]
  /\ AGoto(p, "delcounter")
  /\ UNCHANGED <<alerts, counter, amsg, copy, raises, raced>>

DeleteAllCounter(p) ==
  /\ apc[p] = "delcounter"
  /\ counter' = 0
  /\ Return(p)
  /\ UNCHANGED <<alerts, ids, raises, raced>>

\* The process ends in the middle of a call, or between calls.
AlertCrash(p) ==
  /\ Return(p)
  /\ raced' = IF apc[p] = "idle" THEN raced
              ELSE raced \union (IF amsg[p] = None THEN Msgs ELSE {amsg[p]})
  /\ UNCHANGED <<alerts, ids, counter, raises>>

AlertStep(p) ==
  \/ AlertIncr(p) \/ AlertHSetId(p) \/ AlertSet(p) \/ AlertDelId(p) \/ AlertDel(p)
  \/ DeleteAllIds(p) \/ DeleteAllCounter(p)

-----------------------------------------------------------------------------
AlertType == [id : 0..MaxAlerts, count : Nat, link : Nat]

AlertTypeOK ==
  /\ alerts \in [Msgs -> AlertType \union {None}]
  /\ ids \in [AlertIds -> Msgs \union {None}]
  /\ counter \in 0..MaxAlerts
  /\ apc \in [Callers -> {"idle", "incr", "hsetid", "set", "delid", "del", "delids", "delcounter"}]
  /\ amsg \in [Callers -> Msgs \union {None}]
  /\ copy \in [Callers -> AlertType]
  /\ raises \in [Msgs -> Nat]

\* As long as calls about an alert do not overlap and none is cut short, the
\* alert is found by its number and has counted every event.
AlertsExact ==
  \A m \in Msgs \ raced : (alerts[m] # None /\ InCall(m) = {}) =>
    /\ alerts[m].id \in AlertIds
    /\ ids[alerts[m].id] = m
    /\ alerts[m].count = raises[m]
=============================================================================
