------------------------------ MODULE ChatBot ------------------------------
(***************************************************************************)
(* Chat sessions of the gedis server (GedisChatBot).  The chat flow of a  *)
(* session runs in a greenlet that posts questions on one queue and takes *)
(* answers from another; the browser polls for questions, sends answers   *)
(* and may go a step back or forward.  Greenlets switch only where they   *)
(* block, so an action is what one of them does between two such points.  *)
(* All polls of all sessions share one variable of the factory.           *)
(***************************************************************************)
EXTENDS Integers, Sequences, SequencesExt, FiniteSets

CONSTANTS Users,     \* each has a session of its own
          Steps,     \* the chat flow: steps, each a sequence of "ask" and "load"
          MaxMoves,  \* bound on moves of the users: back, next, reload, a repeated answer
          MaxFaults, \* bound on exceptions in chat flows
          None

ASSUME ChatAssumption ==
  /\ Steps \in Seq(Seq({"ask", "load"})) /\ Steps # <<>>
  /\ \A k \in DOMAIN Steps : Steps[k] # <<>>
  /\ MaxMoves \in Nat /\ MaxFaults \in Nat
  /\ None \notin Users

N     == Len(Steps)
Conns == Users \X {1, 2}      \* requests of the page, and of the page before a reload

VARIABLES live,     \* sessions of the factory; none is ever removed (see FetchRun)
          step,     \* _current_step
          slides,   \* _steps_info[step]["slide"]
          run,      \* greenlets that are alive, those that wait in the order they will be served
          qout, qin, last,  \* _queue_out, _queue_in, _last_output
          backs,    \* calls of go_back that are killing the greenlet
          poll,     \* requests for work: "idle", "kill" or "wait"
          victim,   \* the poll whose greenlet a request is killing
          fetch,    \* _fetch_greenlet of the factory
          page,     \* the connection of each user's page
          restore,  \* the page was reloaded
          shown,    \* what the page shows
          sent,     \* the question that was answered last
          movesLeft, faultsLeft,
          finished, \* history: users who were told that the chat ended
          forked,   \* history: sessions with next steps or overlapping steps back
          dirty,    \* history: sessions in which a question or an answer is out of date
          misfit,   \* history: sessions in which a question got another one's answer
          lost,     \* history: users with a message that went to a page they have left
          hurt      \* history: sessions whose greenlet was lost to an exception

session == <<live, step, slides, run, qout, qin, last, backs>>
polling == <<poll, victim, fetch>>
browser == <<page, restore, shown, sent>>
bounds  == <<movesLeft, faultsLeft>>
history == <<finished, forked, dirty, misfit, lost, hurt>>
vars    == <<session, polling, browser, bounds, history>>

Init ==
  /\ live = {}
  /\ step = [s \in Users |-> 0]
  /\ slides = [s \in Users |-> [k \in 0..N |-> 0]]
  /\ run = [s \in Users |-> <<>>]
  /\ qout = [s \in Users |-> <<>>] /\ qin = [s \in Users |-> <<>>]
  /\ last = [s \in Users |-> None]
  /\ backs = [s \in Users |-> 0]
  /\ poll = [c \in Conns |-> "idle"] /\ victim = [c \in Conns |-> None] /\ fetch = None
  /\ page = [u \in Users |-> 1]
  /\ restore = [c \in Conns |-> FALSE]
  /\ shown = [u \in Users |-> None] /\ sent = [u \in Users |-> None]
  /\ movesLeft = MaxMoves /\ faultsLeft = MaxFaults
  /\ finished = {} /\ forked = {} /\ dirty = {} /\ misfit = {} /\ lost = {} /\ hurt = {}

-----------------------------------------------------------------------------
(* The session.  A question is identified by its place in the chat flow; an *)
(* error message has place 0 of its step.                                    *)

IsLastStep(s)   == step[s] >= N - 1
IsFirstSlide(s) == slides[s][step[s]] = 1

\* Greenlets that block in _queue_in.get, with the question they have asked.
Waiting(s) == {i \in DOMAIN run[s] : run[s][i].mode # "ready"}
Asked(g)   == <<g.st, IF g.mode = "wait" THEN g.k ELSE 0>>

\* The new greenlet, the last one that was started, is self._greenlet.
Greenlet(st) == [st |-> st, k |-> 1, mode |-> "ready", latest |-> TRUE, doomed |-> FALSE]
Older(gs)    == [i \in DOMAIN gs |-> [gs[i] EXCEPT !.latest = FALSE]]

\* _execute_current_step(): the step does not exist, or a greenlet is started.
Execute(s, st, gs) ==
  IF st < N
  THEN /\ slides' = [slides EXCEPT ![s][st] = 0]
       /\ run' = [run EXCEPT ![s] = Append(Older(gs), Greenlet(st))]
       /\ UNCHANGED hurt
  ELSE /\ run' = [run EXCEPT ![s] = gs]
       /\ hurt' = hurt \union {s}
       /\ UNCHANGED slides

\* send_data: info["previous"] is what the page goes by.
Post(s, cat, q, st, slide) ==
  LET m == [s |-> s, cat |-> cat, of |-> q, back |-> ~(slide = 1 /\ st = 0)] IN
  /\ last' = [last EXCEPT ![s] = m]
  /\ qout' = [qout EXCEPT ![s] = Append(@, m)]

SessionNew(u) ==
  /\ u \notin live
  /\ live' = live \union {u}
  /\ Execute(u, 0, <<>>)
  /\ UNCHANGED <<step, qout, qin, last, backs, polling, browser, bounds, finished, forked, dirty, misfit, lost>>

\* The chat flow comes to item n of the step at; st is _current_step by then.
Item(s, g, gs, at, n, st, slide) ==
  LET ask == Steps[at + 1][n] = "ask"
      now == IF ask THEN slide + 1 ELSE slide
  IN /\ step' = [step EXCEPT ![s] = st]
     /\ slides' = [slides EXCEPT ![s][st] = now]
     /\ Post(s, Steps[at + 1][n], <<at, n>>, st, now)
     /\ run' = [run EXCEPT ![s] = Append(gs, [g EXCEPT !.st = at, !.k = IF ask THEN n ELSE n + 1,
                                                       !.mode = IF ask THEN "wait" ELSE "ready"])]

\* The method of a step is through: the end of the chat, or the next step in
\* the same greenlet.
StepDone(s, g, gs) ==
  IF IsLastStep(s)
  THEN /\ Post(s, "end", <<>>, step[s], slides[s][step[s]])
       /\ run' = [run EXCEPT ![s] = gs]
       /\ UNCHANGED <<step, slides>>
  ELSE Item(s, g, gs, step[s] + 1, 1, step[s] + 1, 0)

\* The greenlet i runs on from item k of its method.
Proceed(s, i, k) ==
  LET g == run[s][i] IN
  /\ IF k > Len(Steps[g.st + 1])
     THEN StepDone(s, g, RemoveAt(run[s], i))
     ELSE Item(s, g, RemoveAt(run[s], i), g.st, k, step[s], slides[s][step[s]])
  /\ UNCHANGED <<faultsLeft, hurt>>

\* A StopChatFlow without a message: the rest of the step is left out.
Quit(s, i) ==
  /\ faultsLeft > 0
  /\ faultsLeft' = faultsLeft - 1
  /\ StepDone(s, run[s][i], RemoveAt(run[s], i))
  /\ UNCHANGED hurt

\* Any other exception in the step: an error is shown first; after a
\* StopChatFlow the chat flow then goes on with the next step.
Fail(s, i, mode) ==
  LET g == run[s][i] IN
  /\ faultsLeft > 0
  /\ faultsLeft' = faultsLeft - 1
  /\ Post(s, "error", <<g.st, 0>>, step[s], slides[s][step[s]])
  /\ run' = [run EXCEPT ![s] = Append(RemoveAt(@, i), [g EXCEPT !.mode = mode])]
  /\ hurt' = IF mode = "err" THEN hurt \union {s} ELSE hurt
  /\ UNCHANGED <<step, slides>>

Resume(s, i, k) == Proceed(s, i, k) \/ Quit(s, i) \/ Fail(s, i, "stop") \/ Fail(s, i, "err")

\* A greenlet that does not wait for an answer gets its turn.
Turn(s) ==
  /\ \E i \in DOMAIN run[s] : run[s][i].mode = "ready" /\ Resume(s, i, run[s][i].k)
  /\ UNCHANGED <<live, qin, backs, polling, browser, movesLeft, finished, forked, dirty, misfit, lost>>

\* Mutant of Answered: the reply to an error is left in the queue.
AnsweredNot(s, i) ==
  LET g == run[s][i] IN
  CASE g.mode = "wait" -> Resume(s, i, g.k + 1) /\ qin' = [qin EXCEPT ![s] = Tail(@)]
    [] g.mode = "stop" -> StepDone(s, g, RemoveAt(run[s], i)) /\ UNCHANGED <<faultsLeft, hurt, qin>>
    [] OTHER -> /\ run' = [run EXCEPT ![s] = RemoveAt(@, i)]
                /\ UNCHANGED <<step, slides, qout, last, faultsLeft, hurt, qin>>

\* What the answer is for: an item, or an error after which the greenlet goes
\* on with the next step or ends.
Answered(s, i) ==
  LET g == run[s][i] IN
  /\ qin' = [qin EXCEPT ![s] = Tail(@)]
  /\ CASE g.mode = "wait" -> Resume(s, i, g.k + 1)
       [] g.mode = "stop" -> StepDone(s, g, RemoveAt(run[s], i)) /\ UNCHANGED <<faultsLeft, hurt>>
       [] OTHER -> /\ run' = [run EXCEPT ![s] = RemoveAt(@, i)]
                   /\ UNCHANGED <<step, slides, qout, last, faultsLeft, hurt>>

\* _queue_in hands the first answer to the greenlet that waits longest.
TakeAnswer(s) ==
  /\ qin[s] # <<>> /\ Waiting(s) # {}
  /\ LET i == CHOOSE j \in Waiting(s) : \A k \in Waiting(s) : j <= k IN
     /\ misfit' = IF Head(qin[s]) = Asked(run[s][i]) THEN misfit ELSE misfit \union {s}
     /\ Answered(s, i)
  /\ UNCHANGED <<live, backs, polling, browser, movesLeft, finished, forked, dirty, lost>>

-----------------------------------------------------------------------------
(* Requests of the browser.                                                  *)

Conn(u)      == <<u, page[u]>>
Move         == movesLeft > 0 /\ movesLeft' = movesLeft - 1
Unsettled(s) == qout[s] # <<>> \/ qin[s] # <<>>

\* session_work_set with the answer to the question on the page.
Answer(u) ==
  /\ shown[u] # None /\ shown[u].cat \in {"ask", "error"}
  /\ qin' = [qin EXCEPT ![u] = Append(@, shown[u].of)]
  /\ sent' = [sent EXCEPT ![u] = shown[u].of]
  /\ shown' = [shown EXCEPT ![u] = None]
  /\ UNCHANGED <<live, step, slides, run, qout, last, backs, polling, page, restore, bounds, history>>

\* The same request once more: a second click, or a retry.
AnswerAgain(u) ==
  /\ sent[u] # None
  /\ Move
  /\ qin' = [qin EXCEPT ![u] = Append(@, sent[u])]
  /\ sent' = [sent EXCEPT ![u] = None]
  /\ dirty' = dirty \union {u}
  /\ UNCHANGED <<live, step, slides, run, qout, last, backs, polling, page, restore, shown,
                 faultsLeft, finished, forked, misfit, lost, hurt>>

\* go_next starts the next step beside the greenlet of the current one.  (The
\* bound: not more than one step past the last.)
GoNext(u) ==
  /\ shown[u] # None /\ shown[u].cat # "end" /\ step[u] < N
  /\ Move
  /\ step' = [step EXCEPT ![u] = @ + 1]
  /\ Execute(u, step[u] + 1, run[u])
  /\ shown' = [shown EXCEPT ![u] = None]
  /\ forked' = forked \union {u} /\ dirty' = dirty \union {u}
  /\ UNCHANGED <<live, qout, qin, last, backs, polling, page, restore, sent, faultsLeft, finished, misfit, lost>>

\* Mutant of StepBack: at the first slide of any step.
StepBackAny(u) == IF IsFirstSlide(u) THEN step[u] - 1 ELSE step[u]

\* go_back: to the first slide of this step, or from there to the step before.
StepBack(u) == IF IsFirstSlide(u) /\ step[u] > 0 THEN step[u] - 1 ELSE step[u]

\* self._greenlet is told to end.
Doom(g) == [g EXCEPT !.doomed = @ \/ g.latest]

\* It starts to kill the greenlet, and blocks until that is done ...
GoBack(u) ==
  /\ shown[u] # None /\ shown[u].back /\ shown[u].cat # "end"
  /\ Move
  /\ step' = [step EXCEPT ![u] = StepBack(u)]
  /\ run' = [run EXCEPT ![u] = [i \in DOMAIN run[u] |-> Doom(run[u][i])]]
  /\ backs' = [backs EXCEPT ![u] = @ + 1]
  /\ shown' = [shown EXCEPT ![u] = None]
  /\ forked' = IF backs[u] > 0 THEN forked \union {u} ELSE forked
  /\ dirty' = IF backs[u] > 0 \/ Unsettled(u) THEN dirty \union {u} ELSE dirty
  /\ UNCHANGED <<live, slides, qout, qin, last, polling, page, restore, sent, faultsLeft,
                 finished, misfit, lost, hurt>>

\* The greenlets that are not killed, in their order.
Survivors(gs) ==
  LET first[n \in 0..Len(gs)] ==
        IF n = 0 THEN <<>> ELSE IF gs[n].doomed THEN first[n - 1] ELSE Append(first[n - 1], gs[n])
  IN first[Len(gs)]

\* Mutant of BackRun: the greenlet that asked goes on.
BackRunBoth(s) ==
  /\ backs[s] > 0
  /\ backs' = [backs EXCEPT ![s] = @ - 1]
  /\ Execute(s, step[s], run[s])
  /\ UNCHANGED <<live, step, qout, qin, last, polling, browser, bounds, finished, forked, dirty, misfit, lost>>

\* Mutant of BackRun: the step is not run again.
BackRunNot(s) ==
  /\ backs[s] > 0
  /\ backs' = [backs EXCEPT ![s] = @ - 1]
  /\ run' = [run EXCEPT ![s] = Survivors(@)]
  /\ UNCHANGED <<live, step, slides, qout, qin, last, polling, browser, bounds, history>>

\* ... and then runs the step from its beginning.
BackRun(s) ==
  /\ backs[s] > 0
  /\ backs' = [backs EXCEPT ![s] = @ - 1]
  /\ Execute(s, step[s], Survivors(run[s]))
  /\ dirty' = IF Unsettled(s) \/ shown[s] # None THEN dirty \union {s} ELSE dirty
  /\ UNCHANGED <<live, step, qout, qin, last, polling, browser, bounds, finished, forked, misfit, lost>>

-----------------------------------------------------------------------------
(* session_work_get.                                                         *)

\* The request kills the greenlet of the request before it, of whatever
\* session, if that still waits; killing blocks.
PollBegin(u) ==
  LET c == Conn(u) IN
  /\ u \in live \ finished /\ poll[c] = "idle"
  /\ shown[u] # None => shown[u].cat = "load"
  /\ IF fetch # None /\ poll[fetch] = "wait"
     THEN poll' = [poll EXCEPT ![c] = "kill"] /\ victim' = [victim EXCEPT ![c] = fetch] /\ UNCHANGED fetch
     ELSE poll' = [poll EXCEPT ![c] = "wait"] /\ fetch' = c /\ UNCHANGED victim
  /\ shown' = [shown EXCEPT ![u] = None]
  /\ UNCHANGED <<session, page, restore, sent, bounds, history>>

\* The request of the victim returns None.
PollKill(c) ==
  /\ poll[c] = "kill"
  /\ poll' = [d \in Conns |-> IF d = c THEN "wait" ELSE IF d = victim[c] THEN "idle" ELSE poll[d]]
  /\ victim' = [d \in Conns |-> IF victim[d] = victim[c] THEN None ELSE victim[d]]
  /\ fetch' = c
  /\ UNCHANGED <<session, browser, bounds, history>>

\* get_work: the last message again, or the next one of the queue.
Restores(c) == restore[c] /\ last[c[1]] # None
Work(c)     == IF Restores(c) THEN last[c[1]] ELSE Head(qout[c[1]])

\* Mutant of Own: the shared variable is read after the switch.
OwnShared(c) == fetch

\* The greenlet that a request waits for: the one it has started.
Own(c) == c

\* What is shown again is not, or not only, the question that is waited for.
RestoresOld(c) ==
  LET s == c[1] IN
  /\ Restores(c)
  /\ Unsettled(s) \/ ~\E i \in Waiting(s) : last[s].of = Asked(run[s][i])

\* The result goes to the page, if that still waits for it.  The session is
\* not removed at its end: "category" is looked up next to "payload", not in it.
FetchRun(c) ==
  LET g == Own(c)
      u == c[1]
  IN
  /\ poll[c] = "wait"
  /\ Restores(g) \/ qout[g[1]] # <<>>
  /\ qout' = IF Restores(g) THEN qout ELSE [qout EXCEPT ![g[1]] = Tail(@)]
  /\ poll' = [poll EXCEPT ![c] = "idle"]
  /\ victim' = [d \in Conns |-> IF victim[d] = c THEN None ELSE victim[d]]
  /\ restore' = [restore EXCEPT ![c] = FALSE]
  /\ IF c = Conn(u)
     THEN /\ shown' = [shown EXCEPT ![u] = Work(g)]
          /\ finished' = IF Work(g).cat = "end" THEN finished \union {u} ELSE finished
     ELSE UNCHANGED <<shown, finished>>
  /\ lost' = IF c # Conn(u) /\ ~restore[Conn(u)] THEN lost \union {u} ELSE lost
  /\ dirty' = IF RestoresOld(g) THEN dirty \union {u} ELSE dirty
  /\ UNCHANGED <<live, step, slides, run, qin, last, backs, fetch, page, sent, bounds, forked, misfit, hurt>>

\* The page is loaded again and asks for the last message.
Reload(u) ==
  LET c == <<u, 3 - page[u]>> IN
  /\ u \in live \ finished /\ poll[c] = "idle"
  /\ Move
  /\ page' = [page EXCEPT ![u] = 3 - @]
  /\ restore' = [restore EXCEPT ![c] = TRUE]
  /\ shown' = [shown EXCEPT ![u] = None]
  /\ sent' = [sent EXCEPT ![u] = None]
  /\ UNCHANGED <<session, polling, faultsLeft, history>>

Server(s) == Turn(s) \/ TakeAnswer(s) \/ BackRun(s)
Browser(u) == SessionNew(u) \/ Answer(u) \/ PollBegin(u)
Moves(u)  == AnswerAgain(u) \/ GoNext(u) \/ GoBack(u) \/ Reload(u)

Next ==
  \/ \E u \in Users : Server(u) \/ Browser(u) \/ Moves(u)
  \/ \E c \in Conns : PollKill(c) \/ FetchRun(c)

Spec == Init /\ [][Next]_vars

(***************************************************************************)
(* Fairness.  gevent runs every greenlet that can run, in the order they  *)
(* became ready.  A poll that finds a message ends in its first turn: it  *)
(* can be killed before, but not each time, because the other page polls  *)
(* again only after its own poll has returned (strong fairness).  The     *)
(* page keeps polling and the user answers what is asked; moves are never *)
(* required.                                                               *)
(***************************************************************************)
Fairness ==
  /\ \A u \in Users : /\ WF_vars(Turn(u)) /\ WF_vars(TakeAnswer(u)) /\ WF_vars(BackRun(u))
                      /\ WF_vars(SessionNew(u)) /\ WF_vars(Answer(u)) /\ WF_vars(PollBegin(u))
  /\ \A c \in Conns : WF_vars(PollKill(c)) /\ SF_vars(FetchRun(c))

FairSpec == Spec /\ Fairness

-----------------------------------------------------------------------------
Messages == [s : Users, cat : {"ask", "load", "error", "end"}, of : Seq(Nat), back : BOOLEAN]

TypeOK ==
  /\ live \subseteq Users
  /\ step \in [Users -> 0..N]
  /\ slides \in [Users -> [0..N -> Nat]]
  /\ \A s \in Users :
       /\ \A i \in DOMAIN run[s] : run[s][i] \in
            [st : 0..N - 1, k : Nat, mode : {"ready", "wait", "stop", "err"}, latest : BOOLEAN, doomed : BOOLEAN]
       /\ qout[s] \in Seq(Messages)
       /\ \A i \in DOMAIN qin[s] : qin[s][i] \in (0..N - 1) \X Nat
       /\ last[s] \in Messages \union {None} /\ shown[s] \in Messages \union {None}
  /\ backs \in [Users -> 0..MaxMoves]
  /\ poll \in [Conns -> {"idle", "kill", "wait"}]
  /\ victim \in [Conns -> Conns \union {None}] /\ fetch \in Conns \union {None}
  /\ page \in [Users -> {1, 2}] /\ restore \in [Conns -> BOOLEAN]
  /\ movesLeft \in 0..MaxMoves /\ faultsLeft \in 0..MaxFaults

\* Although all polls share one variable of the factory, which is replaced
\* while they wait, a page shows only what its own session has sent.
OwnMessages ==
  \A u \in Users : shown[u] # None => shown[u].s = u

\* A session is run by one greenlet, whatever moves, errors and kills there
\* were, except when a step was skipped with go_next, which leaves the
\* greenlet of the step before alive, or when two calls of go_back overlapped.
OneGreenlet ==
  \A s \in Users \ forked : Len(run[s]) <= 1

\* Every answer is taken by the question it was given to.  The exceptions are
\* those in which the queues are not empty when a step is run again or a page
\* is restored, a step that is skipped, and an answer that is sent twice.
AnswersFit == misfit \subseteq dirty

\* A user who keeps answering is told the end of the chat, although every poll
\* of one user ends the poll of the other, unless the session has lost its
\* greenlet to an exception or to a step past the last, or a question went to
\* the poll of a page that was reloaded.
Completes == \A u \in Users : <>(u \in finished \union hurt \union lost)
=============================================================================
