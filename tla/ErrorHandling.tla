--------------------------- MODULE ErrorHandling ---------------------------
(***************************************************************************)
(* What Tools.log does with a message or an exception, and what becomes of *)
(* it in the log and alert handlers of all processes: a message goes to   *)
(* the log handler, an exception to the alert handler, and an exception   *)
(* of the log handler itself is an alert too, after which the process     *)
(* exits (exception_handle with die=True).                                *)
(* Of the greenlets of a process one may be logging while another one      *)
(* handles an alert; they share the log handler's last_logid.              *)
(***************************************************************************)
EXTENDS Logs, Alerts

CONSTANTS AppErrors,  \* texts of the exceptions of the application
          DumpError,  \* "could not find log with identifier"
          MaxRaise,   \* bound on exceptions of the application
          MaxDelete   \* bound on requests to delete alerts

ASSUME ErrorsAssumption ==
  /\ Callers = Procs
  /\ Msgs = AppErrors \union {DumpError} /\ DumpError \notin AppErrors
  /\ MaxRaise \in Nat /\ MaxDelete \in Nat

VARIABLES dying,      \* processes that handle an exception of the log handler
          exited,     \* history: logs whose processes exited for a failed dump
          raiseLeft, deleteLeft  \* the bounds

own  == <<dying, exited, raiseLeft, deleteLeft>>
vars == <<logVars, alertVars, own>>

Init ==
  /\ LogInit /\ AlertInit
  /\ dying = {} /\ exited = 0
  /\ raiseLeft = MaxRaise /\ deleteLeft = MaxDelete

\* log() of a message: the log handlers, whatever alert another greenlet of the
\* process is raising.
Log(p) ==
  /\ p \notin dying
  /\ LogStep(p)
  /\ UNCHANGED <<alertVars, own>>

\* log() of an exception: the error handlers, with a link to last_logid, which
\* a log call of another greenlet may have set without having stored its log.
Raise(p, m) ==
  /\ p \notin dying /\ raiseLeft > 0
  /\ raiseLeft' = raiseLeft - 1
  /\ AlertGet(p, m, lid[p])
  /\ UNCHANGED <<logVars, dying, exited, deleteLeft>>

\* The log handler raised: exception_handle.
Handle(p) ==
  /\ lpc[p] = "raise" /\ p \notin dying /\ apc[p] = "idle"
  /\ AlertGet(p, DumpError, lid[p])
  /\ dying' = dying \union {p}
  /\ UNCHANGED <<logVars, exited, raiseLeft, deleteLeft>>

\* Mutant of Exit: sys.exit before the handlers are through.
ExitEarly(p) ==
  /\ p \in dying
  /\ dying' = dying \ {p}
  /\ exited' = exited + 1
  /\ LogEnd(p) /\ Return(p)
  /\ UNCHANGED <<faultsLeft, alerts, ids, counter, raises, raced, raiseLeft, deleteLeft>>

\* sys.exit(1) after the alert is stored; a new process takes its place.
Exit(p) ==
  /\ p \in dying /\ apc[p] = "idle"
  /\ dying' = dying \ {p}
  /\ exited' = exited + 1
  /\ LogEnd(p)
  /\ UNCHANGED <<faultsLeft, alertVars, raiseLeft, deleteLeft>>

Alert(p) ==
  /\ AlertStep(p)
  /\ UNCHANGED <<logVars, own>>

\* An operator deletes alerts, through any process.
Operate(p) ==
  /\ p \notin dying /\ deleteLeft > 0
  /\ deleteLeft' = deleteLeft - 1
  /\ DeleteAll(p) \/ \E m \in Msgs : AlertDelete(p, m)
  /\ UNCHANGED <<logVars, dying, exited, raiseLeft>>

\* An operator deletes logs.
Client ==
  /\ \E i \in Ids : DeleteById(i)
  /\ UNCHANGED <<alertVars, own>>

\* A process ends in the middle of something, with all its greenlets, and a new
\* one takes its place.
Crash(p) ==
  /\ lpc[p] # "idle" \/ apc[p] # "idle" \/ p \in dying
  /\ Fault
  /\ LogEnd(p) /\ AlertCrash(p)
  /\ dying' = dying \ {p}
  /\ UNCHANGED <<exited, raiseLeft, deleteLeft>>

Next ==
  \/ \E p \in Procs :
       \/ Log(p) \/ Handle(p) \/ Exit(p) \/ Alert(p) \/ Operate(p) \/ Crash(p)
       \/ \E m \in AppErrors : Raise(p, m)
  \/ Client

Spec == Init /\ [][Next]_vars

-----------------------------------------------------------------------------
TypeOK ==
  /\ LogTypeOK /\ AlertTypeOK
  /\ dying \subseteq Procs /\ exited \in Nat
  /\ raiseLeft \in 0..MaxRaise /\ deleteLeft \in 0..MaxDelete

\* A process exits for a failed dump only when the failure is on record as an
\* alert, which only an operator can have removed: overlapping calls of other
\* processes and crashes in the middle of them do not lose it.
ExitLeavesAlert ==
  (exited > 0 /\ deleteLeft = MaxDelete) => alerts[DumpError] # None

\* The link of an alert "allows to retrieve info later" (_handle_error): the log
\* it names was stored, or its process is still going to store it.
LinkResolves ==
  \A m \in Msgs : (alerts[m] # None /\ alerts[m].link > 0) =>
    alerts[m].link \in written \union {lid[p] : p \in {r \in Procs : lpc[r] = "hset"}}
=============================================================================
