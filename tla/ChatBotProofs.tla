--------------------------- MODULE ChatBotProofs ---------------------------
(* Chat sessions for any number of users, any chat flow, and any number of *)
(* moves and exceptions: what a page is shown, how many greenlets run a    *)
(* session, and which question an answer reaches.                          *)
EXTENDS ChatBot, TLAPS, SequenceTheorems, NaturalsInduction, WellFoundedInduction

(* A question is its place in the chat flow; a message that wants an       *)
(* answer names one.                                                       *)
Questions  == (0..N - 1) \X Nat
Posted     == {m \in Messages : m.cat \in {"ask", "error"} => m.of \in Questions}
Greenlets  == [st : 0..N - 1, k : Nat \ {0}, mode : {"ready", "wait", "stop", "err"},
               latest : BOOLEAN, doomed : BOOLEAN]
IsQuestion(m) == m # None /\ m.cat \in {"ask", "error"}

(* The types, those of what a page sends and of the calls in progress too. *)
TypeInv ==
    /\ live \subseteq Users
    /\ step \in [Users -> 0..N] /\ slides \in [Users -> [0..N -> Nat]]
    /\ run \in [Users -> Seq(Greenlets)]
    /\ qout \in [Users -> Seq(Posted)] /\ qin \in [Users -> Seq(Questions)]
    /\ last \in [Users -> Posted \union {None}] /\ shown \in [Users -> Posted \union {None}]
    /\ sent \in [Users -> Questions \union {None}]
    /\ backs \in [Users -> Nat] /\ \A u \in Users : backs[u] + movesLeft <= MaxMoves
    /\ poll \in [Conns -> {"idle", "kill", "wait"}]
    /\ victim \in [Conns -> Conns \union {None}] /\ fetch \in Conns \union {None}
    /\ page \in [Users -> {1, 2}] /\ restore \in [Conns -> BOOLEAN]
    /\ movesLeft \in 0..MaxMoves /\ faultsLeft \in 0..MaxFaults

(* Every message of a session carries its name, wherever it is.            *)
OwnInv ==
    \A u \in Users :
        /\ \A i \in DOMAIN qout[u] : qout[u][i].s = u
        /\ last[u] # None => last[u].s = u
        /\ shown[u] # None => shown[u].s = u

(* A session that was not started is untouched; a page that polls shows    *)
(* nothing.                                                                *)
IdleInv ==
    \A u \in Users :
        /\ u \notin live => /\ run[u] = <<>> /\ backs[u] = 0 /\ shown[u] = None
                            /\ \A c \in Conns : c[1] = u => poll[c] = "idle"
        /\ poll[Conn(u)] # "idle" => shown[u] = None

(* The one greenlet is self._greenlet, so the one call of go_back that is  *)
(* in progress kills it.                                                   *)
OneInv ==
    \A u \in Users \ forked :
        /\ Len(run[u]) <= 1 /\ backs[u] <= 1
        /\ \A i \in DOMAIN run[u] : run[u][i].latest /\ (backs[u] > 0 => run[u][i].doomed)

(* The greenlet of u waits for the answer to q.                            *)
Current(u, q) == run[u] # <<>> /\ run[u][1].mode # "ready" /\ q = Asked(run[u][1])

(* Of the question that is waited for there is at most one copy on its way *)
(* to the page and back, and of no other question is there any.            *)
Fits(u) ==
    /\ Len(qin[u]) <= 1
    /\ \A i \in DOMAIN qin[u] : Current(u, qin[u][i])
    /\ IsQuestion(shown[u]) => Current(u, shown[u].of) /\ qin[u] = <<>>
    /\ \A i \in DOMAIN qout[u] : IsQuestion(qout[u][i]) =>
          /\ Current(u, qout[u][i].of) /\ qin[u] = <<>> /\ ~IsQuestion(shown[u])
          /\ \A j \in DOMAIN qout[u] : IsQuestion(qout[u][j]) => j = i

FitInv == forked \subseteq dirty /\ misfit \subseteq dirty /\ \A u \in Users \ dirty : Fits(u)

ChatInv == TypeInv /\ OwnInv /\ IdleInv /\ OneInv /\ FitInv

(* The steps of a session's greenlet i, by what they leave.                *)
Sends(s, m) ==
    /\ m.s = s
    /\ last' = [last EXCEPT ![s] = m]
    /\ qout' = [qout EXCEPT ![s] = Append(@, m)]

(* It ends, after the message that the chat ended or an error.             *)
Ends(s, i) ==
    /\ run' = [run EXCEPT ![s] = RemoveAt(run[s], i)]
    /\ (UNCHANGED <<qout, last>>) \/ (\E m \in Posted : m.cat = "end" /\ Sends(s, m))
    /\ UNCHANGED <<step, slides>>

(* It goes on and sends a message; if that is a question, it waits for it. *)
GoesOn(s, i) ==
    /\ step' \in [Users -> 0..N] /\ slides' \in [Users -> [0..N -> Nat]]
    /\ \E m \in Posted, h \in Greenlets :
          /\ Sends(s, m)
          /\ m.cat \in {"ask", "error"} => h.mode # "ready" /\ m.of = Asked(h)
          /\ h.latest = run[s][i].latest /\ h.doomed = run[s][i].doomed
          /\ run' = [run EXCEPT ![s] = Append(RemoveAt(run[s], i), h)]

Advances(s, i) ==
    /\ i \in DOMAIN run[s]
    /\ faultsLeft' \in 0..MaxFaults
    /\ Ends(s, i) \/ GoesOn(s, i)

-----------------------------------------------------------------------------
(* Sequences.                                                              *)

(* A nonempty set of natural numbers has a least element.                  *)
LEMMA NatMin ==
    ASSUME NEW S, S \subseteq Nat, S # {}
    PROVE  \E x \in S : \A y \in S : x <= y
<1>1. \E x \in S : \A y \in S : ~(<<y, x>> \in OpToRel(<, Nat))
  BY NatLessThanWellFounded, WFMin, Zenon
<1>2. PICK x \in S : \A y \in S : ~(y < x)
  BY <1>1, Zenon DEF OpToRel
<1>. QED
  BY <1>2

(* What is left of a sequence when a place is removed from it.             *)
LEMMA Removed ==
    ASSUME NEW S, NEW q \in Seq(S), NEW i \in DOMAIN q
    PROVE  RemoveAt(q, i) \in Seq(S) /\ Len(RemoveAt(q, i)) = Len(q) - 1
<1>1. Len(q) \in Nat /\ i \in 1..Len(q)
  OBVIOUS
<1>2. SubSeq(q, 1, i - 1) \in Seq(S) /\ Len(SubSeq(q, 1, i - 1)) = i - 1
  BY <1>1
<1>3. SubSeq(q, i + 1, Len(q)) \in Seq(S) /\ Len(SubSeq(q, i + 1, Len(q))) = Len(q) - i
  BY <1>1
<1>4. SubSeq(q, 1, i - 1) \o SubSeq(q, i + 1, Len(q)) \in Seq(S)
  BY <1>2, <1>3, ConcatProperties, Zenon
<1>5. Len(SubSeq(q, 1, i - 1) \o SubSeq(q, i + 1, Len(q))) = (i - 1) + (Len(q) - i)
  BY <1>2, <1>3, ConcatProperties
<1>6. RemoveAt(q, i) = SubSeq(q, 1, i - 1) \o SubSeq(q, i + 1, Len(q))
  BY Zenon DEF RemoveAt
<1>7. (i - 1) + (Len(q) - i) = Len(q) - 1
  BY <1>1
<1>. QED
  BY <1>4, <1>5, <1>6, <1>7, Zenon

(* A longer sequence.                                                      *)
LEMMA Appended ==
    ASSUME NEW S, NEW q \in Seq(S), NEW e \in S
    PROVE  /\ Append(q, e) \in Seq(S) /\ Len(Append(q, e)) = Len(q) + 1
           /\ \A j \in DOMAIN Append(q, e) :
                 (j = Len(q) + 1 /\ Append(q, e)[j] = e) \/ (j \in DOMAIN q /\ Append(q, e)[j] = q[j])
<1>1. Append(q, e) \in Seq(S) /\ Len(Append(q, e)) = Len(q) + 1
  OBVIOUS
<1>2. ASSUME NEW j \in DOMAIN Append(q, e)
      PROVE  (j = Len(q) + 1 /\ Append(q, e)[j] = e) \/ (j \in DOMAIN q /\ Append(q, e)[j] = q[j])
  OBVIOUS
<1>. QED
  BY <1>1, <1>2

(* The rest of a sequence.                                                 *)
LEMMA Rest ==
    ASSUME NEW S, NEW q \in Seq(S), q # <<>>
    PROVE  /\ Head(q) \in S /\ Head(q) = q[1] /\ 1 \in DOMAIN q
           /\ Tail(q) \in Seq(S) /\ Len(Tail(q)) = Len(q) - 1
           /\ \A j \in DOMAIN Tail(q) : j + 1 \in DOMAIN q /\ Tail(q)[j] = q[j + 1]
  OBVIOUS

(* The values that define the survivors, place by place.                   *)
Kept(gs, f, n) ==
    IF n = 0 THEN <<>> ELSE IF gs[n].doomed THEN f[n - 1] ELSE Append(f[n - 1], gs[n])

(* There is a function of these values: otherwise there is a least place   *)
(* up to which there is none, and the function up to the place before it   *)
(* can be continued.                                                       *)
LEMMA SurvivorsExist ==
    ASSUME NEW gs \in Seq(Greenlets)
    PROVE  \E f \in [0..Len(gs) -> Seq(Greenlets)] : \A n \in 0..Len(gs) : f[n] = Kept(gs, f, n)
<1>. DEFINE Upto(m) == \E f \in [0..m -> Seq(Greenlets)] : \A n \in 0..m : f[n] = Kept(gs, f, n)
            Bad == {m \in 0..Len(gs) : ~Upto(m)}
<1>1. Len(gs) \in Nat
  OBVIOUS
<1>2. SUFFICES ASSUME Bad # {} PROVE FALSE
  <2>1. Bad = {} => Upto(Len(gs))
    <3>. HIDE DEF Upto
    <3>. QED
      BY <1>1
  <2>. QED
    BY <2>1
<1>3. PICK m \in Bad : \A x \in Bad : m <= x
  <2>1. Bad \subseteq Nat
    BY <1>1
  <2>. QED
    BY <1>2, <2>1, NatMin
<1>4. m \in 0..Len(gs) /\ ~Upto(m)
  BY <1>3
<1>. HIDE DEF Bad
<1>5. Upto(0)
  <2>. DEFINE f == [n \in 0..0 |-> <<>>]
  <2>1. f \in [0..0 -> Seq(Greenlets)] /\ \A n \in 0..0 : f[n] = Kept(gs, f, n)
    BY DEF Kept
  <2>. QED
    BY <2>1
<1>6. m # 0
  BY <1>4, <1>5
<1>7. m - 1 \in 0..Len(gs) /\ m - 1 \notin Bad
  BY <1>1, <1>3, <1>4, <1>6
<1>8. PICK f \in [0..(m - 1) -> Seq(Greenlets)] : \A n \in 0..(m - 1) : f[n] = Kept(gs, f, n)
  BY <1>7 DEF Bad
<1>. DEFINE e == IF gs[m].doomed THEN f[m - 1] ELSE Append(f[m - 1], gs[m])
            h == [n \in 0..m |-> IF n = m THEN e ELSE f[n]]
<1>9. e \in Seq(Greenlets)
  <2>1. f[m - 1] \in Seq(Greenlets) /\ gs[m] \in Greenlets
    BY <1>1, <1>4, <1>6, <1>8
  <2>. QED
    BY <2>1
<1>10. h \in [0..m -> Seq(Greenlets)]
  <2>. HIDE DEF e
  <2>1. \A n \in 0..m : n # m => n \in 0..(m - 1)
    BY <1>4
  <2>. QED
    BY <1>8, <1>9, <2>1
<1>11. ASSUME NEW n \in 0..m PROVE h[n] = Kept(gs, h, n)
  <2>1. CASE n = m
    <3>1. h[n] = e /\ h[m - 1] = f[m - 1]
      BY <1>4, <1>6, <2>1
    <3>. QED
      BY <1>6, <2>1, <3>1 DEF Kept
  <2>2. CASE n # m
    <3>1. n \in 0..(m - 1) /\ h[n] = f[n]
      BY <1>4, <2>2
    <3>2. n # 0 => h[n - 1] = f[n - 1]
      BY <1>4, <3>1
    <3>3. f[n] = Kept(gs, f, n)
      BY <1>8, <3>1
    <3>. QED
      BY <3>1, <3>2, <3>3 DEF Kept
  <2>. QED
    BY <2>1, <2>2
<1>12. Upto(m)
  <2>. HIDE DEF h
  <2>. QED
    BY <1>10, <1>11
<1>. QED
  BY <1>4, <1>12

(* Survivors are greenlets, and of greenlets that are all killed there is  *)
(* none.                                                                   *)
LEMMA SurvivorsAre ==
    ASSUME NEW gs \in Seq(Greenlets)
    PROVE  /\ Survivors(gs) \in Seq(Greenlets)
           /\ (\A i \in DOMAIN gs : gs[i].doomed) /\ Len(gs) <= 1 => Survivors(gs) = <<>>
<1>. DEFINE F == CHOOSE f : f = [n \in 0..Len(gs) |->
                IF n = 0 THEN <<>> ELSE IF gs[n].doomed THEN f[n - 1] ELSE Append(f[n - 1], gs[n])]
<1>1. PICK f \in [0..Len(gs) -> Seq(Greenlets)] : \A n \in 0..Len(gs) : f[n] = Kept(gs, f, n)
  BY SurvivorsExist
<1>2. f = [n \in 0..Len(gs) |->
                IF n = 0 THEN <<>> ELSE IF gs[n].doomed THEN f[n - 1] ELSE Append(f[n - 1], gs[n])]
  BY <1>1 DEF Kept
<1>3. F = [n \in 0..Len(gs) |->
                IF n = 0 THEN <<>> ELSE IF gs[n].doomed THEN F[n - 1] ELSE Append(F[n - 1], gs[n])]
  BY <1>2
<1>4. Survivors(gs) = F[Len(gs)]
  BY DEF Survivors
<1>. HIDE DEF F
<1>. DEFINE Bad == {m \in 0..Len(gs) : F[m] \notin Seq(Greenlets)}
<1>5. Len(gs) \in Nat /\ \A m \in 1..Len(gs) : gs[m] \in Greenlets
  OBVIOUS
<1>6. Bad = {}
  <2>1. SUFFICES ASSUME Bad # {} PROVE FALSE
    OBVIOUS
  <2>2. Bad \subseteq Nat
    BY <1>5
  <2>3. PICK m \in Bad : \A x \in Bad : m <= x
    BY <2>1, <2>2, NatMin
  <2>4. m \in 0..Len(gs) /\ F[m] \notin Seq(Greenlets)
    BY <2>3
  <2>5. m # 0
    BY <1>3, <2>4
  <2>6. m - 1 \in 0..Len(gs) /\ m \in 1..Len(gs) /\ ~(m <= m - 1)
    BY <1>5, <2>4, <2>5
  <2>7. F[m - 1] \in Seq(Greenlets)
    BY <2>3, <2>6
  <2>8. F[m] = IF gs[m].doomed THEN F[m - 1] ELSE Append(F[m - 1], gs[m])
    BY <1>3, <2>4, <2>5
  <2>9. Append(F[m - 1], gs[m]) \in Seq(Greenlets)
    BY <1>5, <2>6, <2>7
  <2>. QED
    BY <2>4, <2>7, <2>8, <2>9
<1>7. Survivors(gs) \in Seq(Greenlets)
  BY <1>4, <1>5, <1>6
<1>8. ASSUME \A i \in DOMAIN gs : gs[i].doomed, Len(gs) <= 1
      PROVE  F[Len(gs)] = <<>>
  <2>1. CASE Len(gs) = 0
    BY <1>3, <2>1
  <2>2. CASE Len(gs) = 1
    <3>1. gs[1].doomed
      BY <1>8, <2>2
    <3>2. F[0] = <<>> /\ F[1] = F[0]
      BY <1>3, <2>2, <3>1
    <3>. QED
      BY <2>2, <3>2
  <2>3. Len(gs) = 0 \/ Len(gs) = 1
    BY <1>5, <1>8
  <2>. QED
    BY <2>1, <2>2, <2>3
<1>. QED
  BY <1>4, <1>7, <1>8

-----------------------------------------------------------------------------
(* What a greenlet does between two points at which it blocks.             *)

(* The chat flow and the bounds.                                           *)
LEMMA Flow ==
    /\ N \in Nat \ {0} /\ MaxMoves \in Nat /\ MaxFaults \in Nat
    /\ \A st \in 0..N - 1 :
          /\ Steps[st + 1] \in Seq({"ask", "load"}) /\ Len(Steps[st + 1]) \in Nat \ {0}
          /\ \A n \in 1..Len(Steps[st + 1]) : Steps[st + 1][n] \in {"ask", "load"}
<1>1. N \in Nat \ {0} /\ MaxMoves \in Nat /\ MaxFaults \in Nat
  BY ChatAssumption DEF N
<1>2. ASSUME NEW st \in 0..N - 1
      PROVE  Steps[st + 1] \in Seq({"ask", "load"}) /\ Steps[st + 1] # <<>>
  BY <1>1, ChatAssumption DEF N
<1>3. ASSUME NEW q \in Seq({"ask", "load"}), q # <<>>
      PROVE  Len(q) \in Nat \ {0} /\ \A n \in 1..Len(q) : q[n] \in {"ask", "load"}
  BY <1>3
<1>. QED
  BY <1>1, <1>2, <1>3

(* A message that is posted is a message, and the last one.                *)
LEMMA PostSends ==
    ASSUME TypeInv, NEW s \in Users, NEW cat \in {"ask", "load", "error", "end"}, NEW q, NEW st, NEW slide,
           q \in Seq(Nat), cat \in {"ask", "error"} => q \in Questions, Post(s, cat, q, st, slide)
    PROVE  \E m \in Posted : m.cat = cat /\ m.of = q /\ Sends(s, m)
<1>. DEFINE m == [s |-> s, cat |-> cat, of |-> q, back |-> ~(slide = 1 /\ st = 0)]
<1>1. m \in Posted
  BY DEF Posted, Messages
<1>2. m.cat = cat /\ m.of = q /\ m.s = s
  OBVIOUS
<1>3. last' = [last EXCEPT ![s] = m] /\ qout' = [qout EXCEPT ![s] = Append(@, m)]
  BY DEF Post
<1>. QED
  BY <1>1, <1>2, <1>3 DEF Sends

(* Places of the chat flow are questions, and lists of numbers.            *)
LEMMA Places ==
    ASSUME NEW at \in 0..N - 1, NEW n \in Nat
    PROVE  <<at, n>> \in Questions /\ <<at, n>> \in Seq(Nat)
  BY Flow DEF Questions

(* A greenlet of a session, by its fields.                                 *)
LEMMA GreenletOf ==
    ASSUME TypeInv, NEW s \in Users, NEW i \in DOMAIN run[s]
    PROVE  run[s] \in Seq(Greenlets) /\ run[s][i] \in Greenlets
  BY DEF TypeInv

(* The values of a session that a step starts from.                        *)
LEMMA Where ==
    ASSUME TypeInv, NEW s \in Users
    PROVE  step[s] \in 0..N /\ slides[s] \in [0..N -> Nat] /\ slides[s][step[s]] \in Nat
  BY DEF TypeInv

(* An item of the chat flow: the greenlet asks or shows it, and goes on.   *)
LEMMA ItemGoesOn ==
    ASSUME TypeInv, NEW s \in Users, NEW i \in DOMAIN run[s], NEW at \in 0..N - 1,
           NEW n \in 1..Len(Steps[at + 1]), NEW st \in 0..N, NEW slide \in Nat,
           Item(s, run[s][i], RemoveAt(run[s], i), at, n, st, slide)
    PROVE  GoesOn(s, i)
<1>. DEFINE g == run[s][i]
            kind == Steps[at + 1][n]
            now == IF kind = "ask" THEN slide + 1 ELSE slide
            h == [g EXCEPT !.st = at, !.k = IF kind = "ask" THEN n ELSE n + 1,
                           !.mode = IF kind = "ask" THEN "wait" ELSE "ready"]
<1>1. kind \in {"ask", "load"} /\ n \in Nat \ {0} /\ now \in Nat
  BY Flow
<1>2. /\ step' = [step EXCEPT ![s] = st] /\ slides' = [slides EXCEPT ![s][st] = now]
      /\ Post(s, kind, <<at, n>>, st, now)
      /\ run' = [run EXCEPT ![s] = Append(RemoveAt(run[s], i), h)]
  BY DEF Item
<1>3. h \in Greenlets /\ h.latest = g.latest /\ h.doomed = g.doomed
  <2>1. g \in Greenlets
    BY GreenletOf
  <2>. DEFINE k == IF kind = "ask" THEN n ELSE n + 1
              mode == IF kind = "ask" THEN "wait" ELSE "ready"
  <2>2. k \in Nat \ {0} /\ mode \in {"ready", "wait", "stop", "err"}
    BY <1>1
  <2>3. h = [g EXCEPT !.st = at, !.k = k, !.mode = mode]
    OBVIOUS
  <2>. HIDE DEF g, kind, k, mode, h
  <2>. QED
    BY <2>1, <2>2, <2>3 DEF Greenlets
<1>4. kind = "ask" => h.mode = "wait" /\ Asked(h) = <<at, n>>
  <2>1. g \in Greenlets
    BY GreenletOf
  <2>. HIDE DEF g, kind
  <2>. QED
    BY <2>1 DEF Asked, Greenlets
<1>5. <<at, n>> \in Questions /\ <<at, n>> \in Seq(Nat)
  BY <1>1, Places
<1>. HIDE DEF h, kind, now
<1>6. PICK m \in Posted : m.cat = kind /\ m.of = <<at, n>> /\ Sends(s, m)
  <2>1. PICK q, cat, shows : q = <<at, n>> /\ cat = kind /\ shows = now
    OBVIOUS
  <2>2. q \in Questions /\ q \in Seq(Nat) /\ Post(s, cat, q, st, shows)
    BY <1>2, <1>5, <2>1, Zenon
  <2>3. \E m \in Posted : m.cat = cat /\ m.of = q /\ Sends(s, m)
    <3>1. CASE cat = "ask"
      <4>1. Post(s, "ask", q, st, shows)
        BY <2>2, <3>1
      <4>. QED
        BY <2>2, <3>1, <4>1, PostSends
    <3>2. CASE cat = "load"
      <4>1. Post(s, "load", q, st, shows)
        BY <2>2, <3>2
      <4>. QED
        BY <2>2, <3>2, <4>1, PostSends
    <3>. QED
      BY <1>1, <2>1, <3>1, <3>2
  <2>. QED
    BY <2>1, <2>3
<1>7. step' \in [Users -> 0..N] /\ slides' \in [Users -> [0..N -> Nat]]
  BY <1>1, <1>2 DEF TypeInv
<1>8. m.cat \in {"ask", "error"} => h.mode # "ready" /\ m.of = Asked(h)
  BY <1>1, <1>4, <1>6
<1>. QED
  BY <1>2, <1>3, <1>6, <1>7, <1>8 DEF GoesOn

(* The end of a step: that of the chat, or the first item of the next one. *)
LEMMA StepDoneAdvances ==
    ASSUME TypeInv, NEW s \in Users, NEW i \in DOMAIN run[s],
           StepDone(s, run[s][i], RemoveAt(run[s], i))
    PROVE  Ends(s, i) \/ GoesOn(s, i)
<1>1. CASE IsLastStep(s)
  <2>1. /\ Post(s, "end", <<>>, step[s], slides[s][step[s]])
        /\ run' = [run EXCEPT ![s] = RemoveAt(run[s], i)]
        /\ UNCHANGED <<step, slides>>
    BY <1>1 DEF StepDone
  <2>2. <<>> \in Seq(Nat)
    OBVIOUS
  <2>3. PICK m \in Posted : m.cat = "end" /\ Sends(s, m)
    BY <2>1, <2>2, PostSends
  <2>. QED
    BY <2>1, <2>3 DEF Ends
<1>2. CASE ~IsLastStep(s)
  <2>1. PICK at \in Nat : at = step[s] + 1
    BY Where, Flow
  <2>2. at \in 0..N - 1 /\ at \in 0..N
    BY <1>2, <2>1, Where, Flow DEF IsLastStep
  <2>3. Item(s, run[s][i], RemoveAt(run[s], i), at, 1, at, 0)
    BY <1>2, <2>1 DEF StepDone
  <2>4. 1 \in 1..Len(Steps[at + 1])
    BY <2>2, Flow
  <2>5. GoesOn(s, i)
    BY <2>2, <2>3, <2>4, ItemGoesOn
  <2>. QED
    BY <2>5
<1>. QED
  BY <1>1, <1>2

(* An exception: an error is sent, for which the greenlet waits.           *)
LEMMA FailGoesOn ==
    ASSUME TypeInv, NEW s \in Users, NEW i \in DOMAIN run[s], NEW mode \in {"stop", "err"}, Fail(s, i, mode)
    PROVE  GoesOn(s, i) /\ faultsLeft' \in 0..MaxFaults
<1>. DEFINE g == run[s][i]
            h == [g EXCEPT !.mode = mode]
<1>1. g \in Greenlets /\ g.st \in 0..N - 1
  BY GreenletOf DEF Greenlets
<1>2. /\ Post(s, "error", <<g.st, 0>>, step[s], slides[s][step[s]])
      /\ run' = [run EXCEPT ![s] = Append(RemoveAt(run[s], i), h)]
      /\ UNCHANGED <<step, slides>>
  BY DEF Fail, TypeInv
<1>3. faultsLeft' \in 0..MaxFaults
  BY Flow DEF Fail, TypeInv
<1>4. h \in Greenlets /\ h.latest = g.latest /\ h.doomed = g.doomed /\ h.mode # "ready" /\ Asked(h) = <<g.st, 0>>
  <2>. HIDE DEF g
  <2>. QED
    BY <1>1 DEF Greenlets, Asked
<1>5. PICK q : q = <<g.st, 0>>
  OBVIOUS
<1>6. q \in Questions /\ q \in Seq(Nat) /\ Post(s, "error", q, step[s], slides[s][step[s]])
  <2>1. <<g.st, 0>> \in Questions /\ <<g.st, 0>> \in Seq(Nat)
    <3>. HIDE DEF g
    <3>. QED
      BY <1>1, Places
  <2>. QED
    BY <1>2, <1>5, <2>1, Zenon
<1>7. PICK m \in Posted : m.cat = "error" /\ m.of = q /\ Sends(s, m)
  BY <1>6, PostSends
<1>8. h.mode # "ready" /\ m.of = Asked(h)
  BY <1>4, <1>5, <1>7
<1>9. step' \in [Users -> 0..N] /\ slides' \in [Users -> [0..N -> Nat]]
  BY <1>2 DEF TypeInv
<1>. HIDE DEF h
<1>. QED
  BY <1>2, <1>3, <1>4, <1>7, <1>8, <1>9 DEF GoesOn

(* Whatever it runs into, a greenlet that is resumed advances.             *)
LEMMA ResumeAdvances ==
    ASSUME TypeInv, NEW s \in Users, NEW i \in DOMAIN run[s], NEW k \in Nat \ {0}, Resume(s, i, k)
    PROVE  Advances(s, i)
<1>1. CASE Proceed(s, i, k)
  <2>1. faultsLeft' \in 0..MaxFaults
    BY <1>1 DEF Proceed, TypeInv
  <2>2. CASE k > Len(Steps[run[s][i].st + 1])
    <3>1. StepDone(s, run[s][i], RemoveAt(run[s], i))
      BY <1>1, <2>2 DEF Proceed
    <3>. QED
      BY <2>1, <3>1, StepDoneAdvances DEF Advances
  <2>3. CASE ~(k > Len(Steps[run[s][i].st + 1]))
    <3>1. PICK at : at = run[s][i].st
      OBVIOUS
    <3>2. at \in 0..N - 1
      BY <3>1, GreenletOf DEF Greenlets
    <3>3. k \in 1..Len(Steps[at + 1])
      BY <2>3, <3>1, <3>2, Flow
    <3>4. Item(s, run[s][i], RemoveAt(run[s], i), at, k, step[s], slides[s][step[s]])
      BY <1>1, <2>3, <3>1 DEF Proceed
    <3>5. GoesOn(s, i)
      BY <3>2, <3>3, <3>4, Where, ItemGoesOn
    <3>. QED
      BY <2>1, <3>5 DEF Advances
  <2>. QED
    BY <2>2, <2>3
<1>2. CASE Fail(s, i, "stop") \/ Fail(s, i, "err")
  BY <1>2, FailGoesOn DEF Advances
<1>3. CASE Quit(s, i)
  <2>1. faultsLeft' \in 0..MaxFaults
    BY <1>3, Flow DEF Quit, TypeInv
  <2>2. StepDone(s, run[s][i], RemoveAt(run[s], i))
    BY <1>3 DEF Quit
  <2>. QED
    BY <2>1, <2>2, StepDoneAdvances DEF Advances
<1>. QED
  BY <1>1, <1>2, <1>3 DEF Resume

(* A turn of a greenlet.                                                   *)
LEMMA TurnAdvances ==
    ASSUME TypeInv, NEW s \in Users, Turn(s)
    PROVE  \E i \in DOMAIN run[s] : run[s][i].mode = "ready" /\ Advances(s, i)
<1>1. PICK i \in DOMAIN run[s] : run[s][i].mode = "ready" /\ Resume(s, i, run[s][i].k)
  BY DEF Turn
<1>2. run[s][i].k \in Nat \ {0}
  BY GreenletOf DEF Greenlets
<1>3. Advances(s, i)
  BY <1>1, <1>2, ResumeAdvances
<1>. QED
  BY <1>1, <1>3

(* The greenlet that takes an answer is one that waits, and it advances.   *)
LEMMA TakeAdvances ==
    ASSUME TypeInv, NEW s \in Users, TakeAnswer(s)
    PROVE  /\ qin[s] # <<>> /\ qin' = [qin EXCEPT ![s] = Tail(@)]
           /\ \E i \in Waiting(s) :
                 /\ Advances(s, i)
                 /\ misfit' = IF Head(qin[s]) = Asked(run[s][i]) THEN misfit ELSE misfit \union {s}
<1>. DEFINE i == CHOOSE j \in Waiting(s) : \A k \in Waiting(s) : j <= k
<1>1. i \in Waiting(s)
  <2>1. Waiting(s) # {} /\ Waiting(s) \subseteq Nat
    <3>1. Waiting(s) # {}
      BY DEF TakeAnswer
    <3>2. run[s] \in Seq(Greenlets)
      BY DEF TypeInv
    <3>. QED
      BY <3>1, <3>2 DEF Waiting
  <2>. QED
    BY <2>1, NatMin
<1>2. /\ qin[s] # <<>>
      /\ misfit' = IF Head(qin[s]) = Asked(run[s][i]) THEN misfit ELSE misfit \union {s}
      /\ Answered(s, i)
  BY DEF TakeAnswer
<1>. HIDE DEF i
<1>3. i \in DOMAIN run[s] /\ run[s][i] \in Greenlets /\ run[s][i].mode # "ready"
  BY <1>1, GreenletOf DEF Waiting
<1>4. qin' = [qin EXCEPT ![s] = Tail(@)]
  BY <1>2 DEF Answered
<1>5. CASE run[s][i].mode = "wait"
  <2>1. PICK k \in Nat \ {0} : k = run[s][i].k + 1
    BY <1>3 DEF Greenlets
  <2>2. Resume(s, i, k)
    BY <1>2, <1>5, <2>1 DEF Answered
  <2>. QED
    BY <1>1, <1>2, <1>3, <1>4, <2>2, ResumeAdvances
<1>6. CASE run[s][i].mode = "stop"
  <2>1. StepDone(s, run[s][i], RemoveAt(run[s], i)) /\ UNCHANGED faultsLeft
    BY <1>2, <1>6 DEF Answered
  <2>2. Advances(s, i)
    BY <1>3, <2>1, StepDoneAdvances DEF Advances, TypeInv
  <2>. QED
    BY <1>1, <1>2, <1>4, <2>2
<1>7. CASE run[s][i].mode = "err"
  <2>1. /\ run' = [run EXCEPT ![s] = RemoveAt(run[s], i)]
        /\ UNCHANGED <<step, slides, qout, last, faultsLeft>>
    BY <1>2, <1>7 DEF Answered, TypeInv
  <2>2. Advances(s, i)
    BY <1>3, <2>1 DEF Advances, Ends, TypeInv
  <2>. QED
    BY <1>1, <1>2, <1>4, <2>2
<1>. QED
  BY <1>3, <1>5, <1>6, <1>7 DEF Greenlets

-----------------------------------------------------------------------------
(* Types.                                                                  *)

(* A greenlet that advances keeps them.                                    *)
LEMMA AdvanceTypes ==
    ASSUME TypeInv, NEW s \in Users, NEW i, Advances(s, i)
    PROVE  /\ step' \in [Users -> 0..N] /\ slides' \in [Users -> [0..N -> Nat]]
           /\ run' \in [Users -> Seq(Greenlets)]
           /\ qout' \in [Users -> Seq(Posted)] /\ last' \in [Users -> Posted \union {None}]
           /\ faultsLeft' \in 0..MaxFaults
<1>1. i \in DOMAIN run[s] /\ faultsLeft' \in 0..MaxFaults
  BY DEF Advances
<1>2. run[s] \in Seq(Greenlets) /\ RemoveAt(run[s], i) \in Seq(Greenlets)
  BY <1>1, GreenletOf, Removed
<1>3. ASSUME NEW m \in Posted, Sends(s, m)
      PROVE  qout' \in [Users -> Seq(Posted)] /\ last' \in [Users -> Posted \union {None}]
  <2>1. qout[s] \in Seq(Posted)
    BY DEF TypeInv
  <2>2. Append(qout[s], m) \in Seq(Posted)
    BY <2>1, Appended
  <2>. QED
    BY <1>3, <2>2 DEF Sends, TypeInv
<1>4. CASE Ends(s, i)
  <2>1. run' \in [Users -> Seq(Greenlets)]
    BY <1>2, <1>4 DEF Ends, TypeInv
  <2>2. qout' \in [Users -> Seq(Posted)] /\ last' \in [Users -> Posted \union {None}]
    BY <1>3, <1>4 DEF Ends, TypeInv
  <2>3. step' \in [Users -> 0..N] /\ slides' \in [Users -> [0..N -> Nat]]
    BY <1>4 DEF Ends, TypeInv
  <2>. QED
    BY <1>1, <2>1, <2>2, <2>3
<1>5. CASE GoesOn(s, i)
  <2>1. PICK m \in Posted, h \in Greenlets :
            Sends(s, m) /\ run' = [run EXCEPT ![s] = Append(RemoveAt(run[s], i), h)]
    BY <1>5 DEF GoesOn
  <2>2. Append(RemoveAt(run[s], i), h) \in Seq(Greenlets)
    BY <1>2, Appended
  <2>3. run' \in [Users -> Seq(Greenlets)]
    BY <2>1, <2>2 DEF TypeInv
  <2>4. step' \in [Users -> 0..N] /\ slides' \in [Users -> [0..N -> Nat]]
    BY <1>5 DEF GoesOn
  <2>. QED
    BY <1>1, <1>3, <2>1, <2>3, <2>4
<1>. QED
  BY <1>4, <1>5 DEF Advances

(* A new greenlet, after those that there are, has them.                   *)
LEMMA ExecuteTypes ==
    ASSUME TypeInv, NEW s \in Users, NEW st \in 0..N, NEW gs \in Seq(Greenlets), Execute(s, st, gs)
    PROVE  slides' \in [Users -> [0..N -> Nat]] /\ run' \in [Users -> Seq(Greenlets)]
<1>1. CASE st < N
  <2>1. Greenlet(st) \in Greenlets
    BY <1>1, Flow DEF Greenlet, Greenlets
  <2>2. Older(gs) \in Seq(Greenlets)
    <3>1. ASSUME NEW g \in Greenlets PROVE [g EXCEPT !.latest = FALSE] \in Greenlets
      BY DEF Greenlets
    <3>2. Older(gs) \in [1..Len(gs) -> Greenlets]
      BY <3>1 DEF Older
    <3>. QED
      BY <3>2
  <2>3. Append(Older(gs), Greenlet(st)) \in Seq(Greenlets)
    BY <2>1, <2>2, Appended
  <2>4. run' \in [Users -> Seq(Greenlets)]
    BY <1>1, <2>3 DEF Execute, TypeInv
  <2>5. slides \in [Users -> [0..N -> Nat]] /\ slides' = [slides EXCEPT ![s] = [slides[s] EXCEPT ![st] = 0]]
    BY <1>1 DEF Execute, TypeInv
  <2>6. slides[s] \in [0..N -> Nat] /\ [slides[s] EXCEPT ![st] = 0] \in [0..N -> Nat]
    BY <2>5
  <2>. QED
    BY <2>4, <2>5, <2>6
<1>2. CASE ~(st < N)
  BY <1>2 DEF Execute, TypeInv
<1>. QED
  BY <1>1, <1>2

(* The types of what the server does on its own.                           *)
LEMMA ServerTypes ==
    ASSUME TypeInv, NEW s \in Users, Server(s)
    PROVE  TypeInv'
<1>1. CASE Turn(s)
  <2>1. PICK i \in DOMAIN run[s] : Advances(s, i)
    BY <1>1, TurnAdvances
  <2>. QED
    BY <1>1, <2>1, AdvanceTypes DEF Turn, polling, browser, TypeInv
<1>2. CASE TakeAnswer(s)
  <2>1. qin[s] # <<>> /\ qin' = [qin EXCEPT ![s] = Tail(@)] /\ \E i \in Waiting(s) : Advances(s, i)
    BY <1>2, TakeAdvances
  <2>2. qin[s] \in Seq(Questions) /\ Tail(qin[s]) \in Seq(Questions)
    BY <2>1, Rest DEF TypeInv
  <2>3. qin' \in [Users -> Seq(Questions)]
    BY <2>1, <2>2 DEF TypeInv
  <2>. QED
    BY <1>2, <2>1, <2>3, AdvanceTypes DEF TakeAnswer, polling, browser, TypeInv
<1>3. CASE BackRun(s)
  <2>1. /\ backs[s] > 0 /\ backs' = [backs EXCEPT ![s] = @ - 1]
        /\ Execute(s, step[s], Survivors(run[s]))
    BY <1>3 DEF BackRun
  <2>2. Survivors(run[s]) \in Seq(Greenlets)
    BY SurvivorsAre DEF TypeInv
  <2>3. slides' \in [Users -> [0..N -> Nat]] /\ run' \in [Users -> Seq(Greenlets)]
    BY <2>1, <2>2, Where, ExecuteTypes
  <2>4. /\ backs' \in [Users -> Nat] /\ movesLeft' = movesLeft
        /\ \A u \in Users : backs'[u] + movesLeft <= MaxMoves
    <3>1. backs \in [Users -> Nat] /\ movesLeft \in Nat /\ \A u \in Users : backs[u] + movesLeft <= MaxMoves
      BY Flow DEF TypeInv
    <3>2. movesLeft' = movesLeft
      BY <1>3 DEF BackRun, bounds
    <3>3. backs[s] - 1 \in Nat /\ (backs[s] - 1) + movesLeft <= MaxMoves
      BY <2>1, <3>1, Flow
    <3>. QED
      BY <2>1, <3>1, <3>2, <3>3
  <2>. QED
    BY <1>3, <2>3, <2>4 DEF BackRun, polling, browser, bounds, TypeInv
<1>. QED
  BY <1>1, <1>2, <1>3 DEF Server

(* The types of the requests of a page.                                    *)
LEMMA BrowserTypes ==
    ASSUME TypeInv, NEW u \in Users, Browser(u)
    PROVE  TypeInv'
<1>1. CASE SessionNew(u)
  <2>1. 0 \in 0..N /\ <<>> \in Seq(Greenlets) /\ Execute(u, 0, <<>>)
    BY <1>1, Flow DEF SessionNew
  <2>2. slides' \in [Users -> [0..N -> Nat]] /\ run' \in [Users -> Seq(Greenlets)]
    BY <2>1, ExecuteTypes
  <2>. QED
    BY <1>1, <2>2 DEF SessionNew, polling, browser, bounds, TypeInv
<1>2. CASE Answer(u)
  <2>1. shown[u] \in Posted /\ shown[u].of \in Questions
    BY <1>2 DEF Answer, TypeInv, Posted
  <2>2. qin[u] \in Seq(Questions)
    BY DEF TypeInv
  <2>3. Append(qin[u], shown[u].of) \in Seq(Questions)
    BY <2>1, <2>2, Appended
  <2>4. /\ qin' \in [Users -> Seq(Questions)] /\ sent' \in [Users -> Questions \union {None}]
        /\ shown' \in [Users -> Posted \union {None}]
    BY <1>2, <2>1, <2>3 DEF Answer, TypeInv
  <2>. QED
    BY <1>2, <2>4 DEF Answer, polling, bounds, TypeInv
<1>3. CASE PollBegin(u)
  <2>1. Conn(u) \in Conns
    BY DEF Conn, Conns, TypeInv
  <2>2. shown' \in [Users -> Posted \union {None}]
    BY <1>3 DEF PollBegin, TypeInv
  <2>3. /\ poll' \in [Conns -> {"idle", "kill", "wait"}]
        /\ victim' \in [Conns -> Conns \union {None}] /\ fetch' \in Conns \union {None}
    BY <1>3, <2>1 DEF PollBegin, TypeInv
  <2>. QED
    BY <1>3, <2>2, <2>3 DEF PollBegin, session, bounds, TypeInv
<1>. QED
  BY <1>1, <1>2, <1>3 DEF Browser

(* A move uses up one of the moves that are left.                          *)
LEMMA MoveTypes ==
    ASSUME TypeInv, Move
    PROVE  /\ movesLeft' \in 0..MaxMoves /\ movesLeft' + 1 = movesLeft
           /\ \A u \in Users : backs[u] + movesLeft' + 1 <= MaxMoves /\ backs[u] + movesLeft' <= MaxMoves
  BY Flow DEF TypeInv, Move

(* The types of the moves.                                                 *)
LEMMA MovesTypes ==
    ASSUME TypeInv, NEW u \in Users, Moves(u)
    PROVE  TypeInv'
<1>1. CASE AnswerAgain(u)
  <2>1. sent[u] \in Questions /\ qin[u] \in Seq(Questions)
    BY <1>1 DEF AnswerAgain, TypeInv
  <2>2. Append(qin[u], sent[u]) \in Seq(Questions)
    BY <2>1, Appended
  <2>3. qin' \in [Users -> Seq(Questions)] /\ sent' \in [Users -> Questions \union {None}]
    BY <1>1, <2>2 DEF AnswerAgain, TypeInv
  <2>4. /\ movesLeft' \in 0..MaxMoves /\ backs' = backs
        /\ \A v \in Users : backs[v] + movesLeft' <= MaxMoves
    BY <1>1, MoveTypes DEF AnswerAgain
  <2>. QED
    BY <1>1, <2>3, <2>4 DEF AnswerAgain, polling, TypeInv
<1>2. CASE GoNext(u)
  <2>1. PICK st \in 0..N : st = step[u] + 1
    BY <1>2, Where, Flow DEF GoNext
  <2>2. run[u] \in Seq(Greenlets) /\ Execute(u, st, run[u])
    BY <1>2, <2>1 DEF GoNext, TypeInv
  <2>3. slides' \in [Users -> [0..N -> Nat]] /\ run' \in [Users -> Seq(Greenlets)]
    BY <2>2, ExecuteTypes
  <2>4. step' \in [Users -> 0..N] /\ shown' \in [Users -> Posted \union {None}]
    BY <1>2, <2>1 DEF GoNext, TypeInv
  <2>5. /\ movesLeft' \in 0..MaxMoves /\ backs' = backs
        /\ \A v \in Users : backs[v] + movesLeft' <= MaxMoves
    BY <1>2, MoveTypes DEF GoNext
  <2>. QED
    BY <1>2, <2>3, <2>4, <2>5 DEF GoNext, polling, TypeInv
<1>3. CASE GoBack(u)
  <2>1. StepBack(u) \in 0..N
    BY Where, Flow DEF StepBack
  <2>2. step' \in [Users -> 0..N] /\ shown' \in [Users -> Posted \union {None}]
    BY <1>3, <2>1 DEF GoBack, TypeInv
  <2>3. run[u] \in Seq(Greenlets)
    BY DEF TypeInv
  <2>4. [i \in DOMAIN run[u] |-> Doom(run[u][i])] \in Seq(Greenlets)
    <3>1. ASSUME NEW g \in Greenlets PROVE Doom(g) \in Greenlets
      BY DEF Greenlets, Doom
    <3>2. [i \in DOMAIN run[u] |-> Doom(run[u][i])] \in [1..Len(run[u]) -> Greenlets]
      BY <2>3, <3>1
    <3>. QED
      BY <2>3, <3>2
  <2>5. run' \in [Users -> Seq(Greenlets)]
    BY <1>3, <2>4 DEF GoBack, TypeInv
  <2>6. /\ movesLeft' \in 0..MaxMoves /\ backs' \in [Users -> Nat]
        /\ \A v \in Users : backs'[v] + movesLeft' <= MaxMoves
    <3>1. backs \in [Users -> Nat] /\ backs' = [backs EXCEPT ![u] = @ + 1]
      BY <1>3 DEF GoBack, TypeInv
    <3>2. /\ movesLeft' \in 0..MaxMoves
          /\ \A v \in Users : backs[v] + movesLeft' + 1 <= MaxMoves /\ backs[v] + movesLeft' <= MaxMoves
      BY <1>3, MoveTypes DEF GoBack
    <3>. QED
      BY <3>1, <3>2, Flow
  <2>. QED
    BY <1>3, <2>2, <2>5, <2>6 DEF GoBack, polling, TypeInv
<1>4. CASE Reload(u)
  <2>1. page[u] \in {1, 2} /\ 3 - page[u] \in {1, 2}
    BY DEF TypeInv
  <2>2. page' \in [Users -> {1, 2}] /\ restore' \in [Conns -> BOOLEAN]
    BY <1>4, <2>1 DEF Reload, Conns, TypeInv
  <2>3. shown' \in [Users -> Posted \union {None}] /\ sent' \in [Users -> Questions \union {None}]
    BY <1>4 DEF Reload, TypeInv
  <2>4. /\ movesLeft' \in 0..MaxMoves /\ backs' = backs
        /\ \A v \in Users : backs[v] + movesLeft' <= MaxMoves
    BY <1>4, MoveTypes DEF Reload, session
  <2>. QED
    BY <1>4, <2>2, <2>3, <2>4 DEF Reload, session, polling, TypeInv
<1>. QED
  BY <1>1, <1>2, <1>3, <1>4 DEF Moves

(* The message that a request gets.                                        *)
LEMMA WorkIs ==
    ASSUME TypeInv, NEW c \in Conns, Restores(c) \/ qout[c[1]] # <<>>
    PROVE  /\ c[1] \in Users
           /\ Work(c) = IF Restores(c) THEN last[c[1]] ELSE Head(qout[c[1]])
           /\ Restores(c) => last[c[1]] # None
           /\ Work(c) \in Posted
<1>1. c[1] \in Users
  BY DEF Conns
<1>2. qout[c[1]] # <<>> => Head(qout[c[1]]) \in Posted
  BY <1>1, Rest DEF TypeInv
<1>. QED
  BY <1>1, <1>2 DEF Work, Restores, TypeInv

(* The types of what the polls do.                                         *)
LEMMA PollTypes ==
    ASSUME TypeInv, NEW c \in Conns, PollKill(c) \/ FetchRun(c)
    PROVE  TypeInv'
<1>1. CASE PollKill(c)
  <2>1. /\ poll' \in [Conns -> {"idle", "kill", "wait"}]
        /\ victim' \in [Conns -> Conns \union {None}] /\ fetch' \in Conns \union {None}
    BY <1>1 DEF PollKill, TypeInv
  <2>. QED
    BY <1>1, <2>1 DEF PollKill, session, browser, bounds, TypeInv
<1>2. CASE FetchRun(c)
  <2>1. c[1] \in Users /\ Work(c) \in Posted /\ (Restores(c) \/ qout[c[1]] # <<>>)
    BY <1>2, WorkIs DEF FetchRun, Own
  <2>2. qout' \in [Users -> Seq(Posted)]
    <3>1. qout[c[1]] # <<>> => Tail(qout[c[1]]) \in Seq(Posted)
      BY <2>1, Rest DEF TypeInv
    <3>. QED
      BY <1>2, <2>1, <3>1 DEF FetchRun, Own, TypeInv
  <2>3. poll' \in [Conns -> {"idle", "kill", "wait"}] /\ victim' \in [Conns -> Conns \union {None}]
    BY <1>2 DEF FetchRun, TypeInv
  <2>4. restore' \in [Conns -> BOOLEAN]
    BY <1>2 DEF FetchRun, TypeInv
  <2>5. shown' \in [Users -> Posted \union {None}]
    BY <1>2, <2>1 DEF FetchRun, Own, TypeInv
  <2>. QED
    BY <1>2, <2>2, <2>3, <2>4, <2>5 DEF FetchRun, bounds, TypeInv
<1>. QED
  BY <1>1, <1>2

-----------------------------------------------------------------------------
(* Whose messages a page is shown.                                         *)

(* A greenlet that advances sends for its own session, and nothing else    *)
(* comes to a queue.                                                       *)
LEMMA AdvanceSends ==
    ASSUME TypeInv, NEW s \in Users, NEW i, Advances(s, i)
    PROVE  UNCHANGED <<qout, last>> \/ \E m \in Posted : Sends(s, m)
  BY DEF Advances, Ends, GoesOn

(* Every step keeps the names on the messages.                             *)
LEMMA OwnStep ==
    ASSUME TypeInv, OwnInv, [Next]_vars
    PROVE  OwnInv'
<1>1. ASSUME NEW s \in Users, NEW i, Advances(s, i), shown' = shown
      PROVE  OwnInv'
  <2>1. CASE UNCHANGED <<qout, last>>
    BY <1>1, <2>1 DEF OwnInv
  <2>2. CASE \E m \in Posted : Sends(s, m)
    <3>1. PICK m \in Posted : Sends(s, m)
      BY <2>2
    <3>2. qout[s] \in Seq(Posted) /\ qout' = [qout EXCEPT ![s] = Append(qout[s], m)] /\ m.s = s
      BY <3>1 DEF Sends, TypeInv
    <3>3. ASSUME NEW j \in DOMAIN Append(qout[s], m) PROVE Append(qout[s], m)[j].s = s
      BY <3>2, Appended DEF OwnInv
    <3>4. ASSUME NEW u \in Users PROVE \A j \in DOMAIN qout'[u] : qout'[u][j].s = u
      BY <3>2, <3>3 DEF OwnInv, TypeInv
    <3>5. \A u \in Users : last'[u] # None => last'[u].s = u
      BY <3>1 DEF Sends, OwnInv, TypeInv
    <3>. QED
      BY <1>1, <3>4, <3>5 DEF OwnInv
  <2>. QED
    BY <1>1, <2>1, <2>2, AdvanceSends
<1>2. ASSUME UNCHANGED <<qout, last>>, NEW u \in Users, shown' = [shown EXCEPT ![u] = None] \/ shown' = shown
      PROVE  OwnInv'
  BY <1>2 DEF OwnInv, TypeInv
<1>3. ASSUME NEW s \in Users, Turn(s) PROVE OwnInv'
  BY <1>3, <1>1, TurnAdvances DEF Turn, browser
<1>4. ASSUME NEW s \in Users, TakeAnswer(s) PROVE OwnInv'
  BY <1>4, <1>1, TakeAdvances DEF TakeAnswer, browser
<1>5. ASSUME NEW s \in Users, BackRun(s) PROVE OwnInv'
  BY <1>5, <1>2 DEF BackRun, browser
<1>6. ASSUME NEW u \in Users, SessionNew(u) PROVE OwnInv'
  BY <1>6, <1>2 DEF SessionNew, browser
<1>7. ASSUME NEW u \in Users, Answer(u) PROVE OwnInv'
  BY <1>7, <1>2 DEF Answer
<1>8. ASSUME NEW u \in Users, PollBegin(u) PROVE OwnInv'
  BY <1>8, <1>2 DEF PollBegin, session
<1>9. ASSUME NEW u \in Users, AnswerAgain(u) PROVE OwnInv'
  BY <1>9, <1>2 DEF AnswerAgain
<1>10. ASSUME NEW u \in Users, GoNext(u) PROVE OwnInv'
  BY <1>10, <1>2 DEF GoNext
<1>11. ASSUME NEW u \in Users, GoBack(u) PROVE OwnInv'
  BY <1>11, <1>2 DEF GoBack
<1>12. ASSUME NEW u \in Users, Reload(u) PROVE OwnInv'
  BY <1>12, <1>2 DEF Reload, session
<1>13. ASSUME NEW c \in Conns, PollKill(c) PROVE OwnInv'
  BY <1>13 DEF PollKill, session, browser, OwnInv
<1>14. ASSUME NEW c \in Conns, FetchRun(c) PROVE OwnInv'
  <2>1. c[1] \in Users /\ Work(c) \in Posted /\ (Restores(c) \/ qout[c[1]] # <<>>)
    BY <1>14, WorkIs DEF FetchRun, Own
  <2>2. Work(c).s = c[1]
    <3>1. CASE Restores(c)
      BY <2>1, <3>1, WorkIs DEF OwnInv
    <3>2. CASE ~Restores(c)
      <4>1. Work(c) = qout[c[1]][1] /\ 1 \in DOMAIN qout[c[1]]
        BY <2>1, <3>2, WorkIs, Rest DEF TypeInv
      <4>. QED
        BY <2>1, <4>1 DEF OwnInv
    <3>. QED
      BY <3>1, <3>2
  <2>3. \A u \in Users : shown'[u] # None => shown'[u].s = u
    <3>1. shown' = shown \/ shown' = [shown EXCEPT ![c[1]] = Work(c)]
      BY <1>14 DEF FetchRun, Own
    <3>2. shown \in [Users -> Posted \union {None}]
      BY DEF TypeInv
    <3>. QED
      BY <2>1, <2>2, <3>1, <3>2 DEF OwnInv
  <2>4. \A u \in Users : \A j \in DOMAIN qout'[u] : qout'[u][j].s = u
    <3>1. CASE Restores(c)
      BY <1>14, <3>1 DEF FetchRun, Own, OwnInv
    <3>2. CASE ~Restores(c)
      <4>1. qout' = [qout EXCEPT ![c[1]] = Tail(qout[c[1]])]
        BY <1>14, <3>2 DEF FetchRun, Own
      <4>2. ASSUME NEW j \in DOMAIN Tail(qout[c[1]]) PROVE Tail(qout[c[1]])[j].s = c[1]
        <5>1. qout[c[1]] \in Seq(Posted) /\ qout[c[1]] # <<>>
          BY <2>1, <3>2 DEF TypeInv
        <5>2. j + 1 \in DOMAIN qout[c[1]] /\ Tail(qout[c[1]])[j] = qout[c[1]][j + 1]
          BY <5>1, Rest
        <5>. QED
          BY <2>1, <5>2 DEF OwnInv
      <4>. QED
        BY <2>1, <4>1, <4>2 DEF OwnInv, TypeInv
    <3>. QED
      BY <3>1, <3>2
  <2>5. last' = last
    BY <1>14 DEF FetchRun
  <2>. QED
    BY <2>3, <2>4, <2>5 DEF OwnInv
<1>15. CASE UNCHANGED vars
  BY <1>15 DEF vars, session, browser, OwnInv
<1>. QED
  BY <1>3, <1>4, <1>5, <1>6, <1>7, <1>8, <1>9, <1>10, <1>11, <1>12, <1>13, <1>14, <1>15
  DEF Next, Server, Browser, Moves

-----------------------------------------------------------------------------
(* Sessions that were not started, and pages that poll.                    *)

(* The connection of a page.                                               *)
LEMMA ConnOf ==
    ASSUME TypeInv, NEW u \in Users
    PROVE  Conn(u) \in Conns /\ Conn(u)[1] = u
  BY DEF Conn, Conns, TypeInv

(* What a greenlet, a question or a new greenlet can do is done in a       *)
(* session that was started, and it leaves the polls and the page alone.   *)
LEMMA IdleKept ==
    ASSUME TypeInv, IdleInv, NEW s \in live, UNCHANGED <<poll, page, live>>,
           \A u \in Users : shown'[u] = shown[u] \/ shown'[u] = None,
           \A u \in Users \ {s} : run'[u] = run[u] /\ backs'[u] = backs[u]
    PROVE  IdleInv'
  BY DEF IdleInv, TypeInv, Conn

(* Every step keeps that.                                                  *)
LEMMA IdleStep ==
    ASSUME TypeInv, IdleInv, [Next]_vars
    PROVE  IdleInv'
<1>1. ASSUME NEW s \in Users, NEW i, Advances(s, i), UNCHANGED <<poll, page, live, shown, backs>>
      PROVE  IdleInv'
  <2>1. i \in DOMAIN run[s]
    BY <1>1 DEF Advances
  <2>2. s \in live
    BY <2>1 DEF IdleInv
  <2>3. \A u \in Users \ {s} : run'[u] = run[u]
    BY <1>1 DEF Advances, Ends, GoesOn, TypeInv
  <2>. QED
    BY <1>1, <2>2, <2>3, IdleKept
<1>2. ASSUME NEW u \in Users, NEW st, NEW gs, Execute(u, st, gs) PROVE \A v \in Users \ {u} : run'[v] = run[v]
  BY <1>2 DEF Execute, TypeInv
<1>3. ASSUME NEW s \in Users, Turn(s) PROVE IdleInv'
  BY <1>3, <1>1, TurnAdvances DEF Turn, polling, browser
<1>4. ASSUME NEW s \in Users, TakeAnswer(s) PROVE IdleInv'
  BY <1>4, <1>1, TakeAdvances DEF TakeAnswer, polling, browser
<1>5. ASSUME NEW s \in Users, BackRun(s) PROVE IdleInv'
  <2>1. s \in live
    BY <1>5 DEF BackRun, IdleInv
  <2>2. \A v \in Users \ {s} : run'[v] = run[v] /\ backs'[v] = backs[v]
    BY <1>5, <1>2 DEF BackRun, TypeInv
  <2>. QED
    BY <1>5, <2>1, <2>2, IdleKept DEF BackRun, polling, browser
<1>6. ASSUME NEW u \in Users, SessionNew(u) PROVE IdleInv'
  <2>1. \A v \in Users \ {u} : run'[v] = run[v]
    BY <1>6, <1>2 DEF SessionNew
  <2>2. live' = live \union {u} /\ UNCHANGED <<backs, poll, page, shown>>
    BY <1>6 DEF SessionNew, polling, browser
  <2>. QED
    BY <2>1, <2>2 DEF IdleInv, Conn
<1>7. ASSUME NEW u \in Users, Answer(u) PROVE IdleInv'
  <2>1. u \in live
    BY <1>7 DEF Answer, IdleInv
  <2>. QED
    BY <1>7, <2>1, IdleKept DEF Answer, polling, TypeInv
<1>8. ASSUME NEW u \in Users, PollBegin(u) PROVE IdleInv'
  <2>1. u \in live /\ shown' = [shown EXCEPT ![u] = None] /\ UNCHANGED <<live, run, backs, page>>
    BY <1>8 DEF PollBegin, session
  <2>2. poll' = [poll EXCEPT ![Conn(u)] = "kill"] \/ poll' = [poll EXCEPT ![Conn(u)] = "wait"]
    BY <1>8 DEF PollBegin
  <2>3. Conn(u)[1] = u
    BY ConnOf
  <2>4. ASSUME NEW v \in Users, v \notin live PROVE \A c \in Conns : c[1] = v => poll'[c] = "idle"
    BY <2>1, <2>2, <2>3, <2>4 DEF IdleInv, TypeInv
  <2>5. ASSUME NEW v \in Users, poll'[Conn(v)] # "idle" PROVE shown'[v] = None
    <3>1. CASE v = u
      BY <2>1, <3>1 DEF TypeInv
    <3>2. CASE v # u
      <4>1. Conn(v) # Conn(u) /\ Conn(v) \in Conns
        BY <3>2, ConnOf DEF Conn
      <4>2. poll'[Conn(v)] = poll[Conn(v)] /\ shown'[v] = shown[v]
        BY <2>1, <2>2, <3>2, <4>1 DEF TypeInv
      <4>. QED
        BY <2>5, <4>2 DEF IdleInv
    <3>. QED
      BY <3>1, <3>2
  <2>6. \A v \in Users : Conn(v)' = Conn(v)
    BY <2>1 DEF Conn
  <2>7. \A v \in Users \ live : run[v] = <<>> /\ backs[v] = 0 /\ shown'[v] = None
    BY <2>1 DEF IdleInv, TypeInv
  <2>. QED
    BY <2>1, <2>4, <2>5, <2>6, <2>7 DEF IdleInv
<1>9. ASSUME NEW u \in Users, AnswerAgain(u) PROVE IdleInv'
  BY <1>9 DEF AnswerAgain, polling, IdleInv, Conn
<1>10. ASSUME NEW u \in Users, GoNext(u) PROVE IdleInv'
  <2>1. u \in live
    BY <1>10 DEF GoNext, IdleInv
  <2>2. \A v \in Users \ {u} : run'[v] = run[v]
    BY <1>10, <1>2 DEF GoNext
  <2>. QED
    BY <1>10, <2>1, <2>2, IdleKept DEF GoNext, polling, TypeInv
<1>11. ASSUME NEW u \in Users, GoBack(u) PROVE IdleInv'
  <2>1. u \in live
    BY <1>11 DEF GoBack, IdleInv
  <2>. QED
    BY <1>11, <2>1, IdleKept DEF GoBack, polling, TypeInv
<1>12. ASSUME NEW u \in Users, Reload(u) PROVE IdleInv'
  <2>1. u \in live /\ shown' = [shown EXCEPT ![u] = None] /\ page' = [page EXCEPT ![u] = 3 - page[u]]
    BY <1>12 DEF Reload
  <2>2. UNCHANGED <<live, run, backs, poll>>
    BY <1>12 DEF Reload, session, polling
  <2>3. ASSUME NEW v \in Users, poll[<<v, page'[v]>>] # "idle" PROVE shown'[v] = None
    BY <2>1, <2>3 DEF IdleInv, Conn, TypeInv
  <2>. QED
    BY <2>1, <2>2, <2>3 DEF IdleInv, Conn, TypeInv
<1>13. ASSUME NEW c \in Conns, PollKill(c) PROVE IdleInv'
  <2>1. \A d \in Conns : poll'[d] # "idle" => poll[d] # "idle"
    BY <1>13 DEF PollKill
  <2>2. UNCHANGED <<live, run, backs, page, shown>>
    BY <1>13 DEF PollKill, session, browser
  <2>3. \A u \in Users : Conn(u) \in Conns /\ Conn(u)' = Conn(u)
    BY <2>2, ConnOf DEF Conn
  <2>. QED
    BY <2>1, <2>2, <2>3 DEF IdleInv
<1>14. ASSUME NEW c \in Conns, FetchRun(c) PROVE IdleInv'
  <2>1. /\ poll[c] = "wait" /\ poll' = [poll EXCEPT ![c] = "idle"] /\ UNCHANGED <<live, run, backs, page>>
        /\ IF c = Conn(c[1]) THEN shown' = [shown EXCEPT ![c[1]] = Work(c)] ELSE shown' = shown
    BY <1>14 DEF FetchRun, Own
  <2>2. c[1] \in live
    BY <2>1 DEF IdleInv, Conns
  <2>3. ASSUME NEW v \in Users
        PROVE  /\ Conn(v)' = Conn(v) /\ Conn(v) \in Conns
               /\ v # c[1] => Conn(v) # c /\ shown'[v] = shown[v]
    BY <2>1, ConnOf DEF Conn, TypeInv
  <2>4. ASSUME NEW v \in Users, poll'[Conn(v)] # "idle" PROVE shown'[v] = None
    <3>1. Conn(v) # c /\ poll[Conn(v)] # "idle"
      BY <2>1, <2>3, <2>4 DEF TypeInv
    <3>2. shown'[v] = shown[v]
      <4>1. CASE v = c[1]
        BY <2>1, <3>1, <4>1
      <4>2. CASE v # c[1]
        BY <2>3, <4>2
      <4>. QED
        BY <4>1, <4>2
    <3>. QED
      BY <3>1, <3>2 DEF IdleInv
  <2>5. ASSUME NEW v \in Users, v \notin live
        PROVE  run[v] = <<>> /\ backs[v] = 0 /\ shown'[v] = None /\ \A d \in Conns : d[1] = v => poll'[d] = "idle"
    BY <2>1, <2>2, <2>3, <2>5 DEF IdleInv, TypeInv
  <2>. QED
    BY <2>1, <2>3, <2>4, <2>5 DEF IdleInv
<1>15. CASE UNCHANGED vars
  BY <1>15 DEF vars, session, polling, browser, IdleInv, Conn
<1>. QED
  BY <1>3, <1>4, <1>5, <1>6, <1>7, <1>8, <1>9, <1>10, <1>11, <1>12, <1>13, <1>14, <1>15
  DEF Next, Server, Browser, Moves

-----------------------------------------------------------------------------
(* How many greenlets run a session.                                       *)

(* Sequences of one element at most.                                       *)
LEMMA Short ==
    /\ \A S : \A q \in Seq(S) : Len(q) <= 1 => q = <<>> \/ (Len(q) = 1 /\ DOMAIN q = {1})
    /\ \A e : Len(<<e>>) = 1 /\ DOMAIN <<e>> = {1} /\ <<e>>[1] = e
    /\ Len(<<>>) = 0 /\ DOMAIN <<>> = {}
<1>1. ASSUME NEW S, NEW q \in Seq(S), Len(q) <= 1
      PROVE  q = <<>> \/ (Len(q) = 1 /\ DOMAIN q = {1})
  <2>1. Len(q) = 0 \/ Len(q) = 1
    <3>1. PICK n \in Nat : n = Len(q)
      OBVIOUS
    <3>2. n = 0 \/ n = 1
      BY <1>1, <3>1
    <3>. QED
      BY <3>1, <3>2
  <2>2. CASE Len(q) = 0
    BY <2>2
  <2>3. CASE Len(q) = 1
    BY <2>3
  <2>. QED
    BY <2>1, <2>2, <2>3
<1>2. ASSUME NEW e PROVE Len(<<e>>) = 1 /\ DOMAIN <<e>> = {1} /\ <<e>>[1] = e
  OBVIOUS
<1>3. Len(<<>>) = 0 /\ DOMAIN <<>> = {}
  OBVIOUS
<1>. QED
  BY <1>1, <1>2, <1>3

(* The only greenlet of a session ends or goes on as the only one.         *)
LEMMA AdvanceAlone ==
    ASSUME TypeInv, NEW s \in Users, NEW i, Advances(s, i), Len(run[s]) <= 1
    PROVE  /\ i = 1 /\ Len(run[s]) = 1 /\ \A u \in Users \ {s} : run'[u] = run[u]
           /\ \/ Ends(s, 1) /\ run'[s] = <<>>
              \/ \E m \in Posted, h \in Greenlets :
                    /\ Sends(s, m)
                    /\ m.cat \in {"ask", "error"} => h.mode # "ready" /\ m.of = Asked(h)
                    /\ h.latest = run[s][1].latest /\ h.doomed = run[s][1].doomed
                    /\ run'[s] = <<h>>
<1>1. i \in DOMAIN run[s] /\ (Ends(s, i) \/ GoesOn(s, i))
  BY DEF Advances
<1>2. run[s] \in Seq(Greenlets)
  BY DEF TypeInv
<1>3. Len(run[s]) = 1 /\ i = 1
  BY <1>1, <1>2, Short
<1>4. RemoveAt(run[s], 1) \in Seq(Greenlets) /\ Len(RemoveAt(run[s], 1)) = 0
  BY <1>1, <1>2, <1>3, Removed
<1>5. RemoveAt(run[s], 1) = <<>>
  BY <1>4
<1>6. \A u \in Users \ {s} : run'[u] = run[u]
  BY <1>1 DEF Ends, GoesOn, TypeInv
<1>7. CASE Ends(s, i)
  BY <1>3, <1>5, <1>6, <1>7 DEF Ends, TypeInv
<1>8. CASE GoesOn(s, i)
  <2>1. PICK m \in Posted, h \in Greenlets :
            /\ Sends(s, m)
            /\ m.cat \in {"ask", "error"} => h.mode # "ready" /\ m.of = Asked(h)
            /\ h.latest = run[s][1].latest /\ h.doomed = run[s][1].doomed
            /\ run' = [run EXCEPT ![s] = Append(RemoveAt(run[s], i), h)]
    BY <1>3, <1>8 DEF GoesOn
  <2>2. Append(<<>>, h) = <<h>>
    OBVIOUS
  <2>3. run'[s] = <<h>>
    BY <1>3, <1>5, <2>1, <2>2 DEF TypeInv
  <2>. QED
    BY <1>3, <1>6, <2>1, <2>3
<1>. QED
  BY <1>1, <1>7, <1>8

(* A greenlet that is started where there is none is the only one, and is  *)
(* the session's own.                                                      *)
LEMMA ExecuteAlone ==
    ASSUME TypeInv, NEW s \in Users, NEW st, Execute(s, st, <<>>)
    PROVE  /\ \A u \in Users \ {s} : run'[u] = run[u]
           /\ run'[s] = <<>> \/ run'[s] = <<Greenlet(st)>>
<1>1. Append(Older(<<>>), Greenlet(st)) = <<Greenlet(st)>>
  <2>1. Older(<<>>) \in [1..0 -> Greenlets]
    BY DEF Older
  <2>2. Older(<<>>) \in Seq(Greenlets) /\ Len(Older(<<>>)) = 0
    BY <2>1
  <2>3. Older(<<>>) = <<>>
    BY <2>2
  <2>4. \A e : Append(<<>>, e) = <<e>>
    OBVIOUS
  <2>. QED
    BY <2>3, <2>4, Zenon
<1>. QED
  BY <1>1 DEF Execute, TypeInv

(* No greenlet, or one that was started last.                              *)
LEMMA FewLatest ==
    ASSUME NEW q, NEW st, q = <<>> \/ q = <<Greenlet(st)>>
    PROVE  Len(q) <= 1 /\ \A i \in DOMAIN q : q[i].latest
<1>1. PICK g : g = Greenlet(st) /\ g.latest
  <2>1. Greenlet(st).latest
    BY DEF Greenlet
  <2>. QED
    BY <2>1, Zenon
<1>2. CASE q = <<>>
  BY <1>2
<1>3. CASE q = <<g>>
  BY <1>1, <1>3
<1>. QED
  BY <1>1, <1>2, <1>3

(* Every step keeps a session that was not forked at one greenlet.         *)
LEMMA OneStep ==
    ASSUME TypeInv, IdleInv, OneInv, [Next]_vars
    PROVE  OneInv'
<1>1. ASSUME NEW s \in Users, NEW i, Advances(s, i), UNCHANGED <<backs, forked>>
      PROVE  OneInv'
  <2>1. CASE s \in forked
    <3>1. \A u \in Users \ forked : run'[u] = run[u]
      BY <1>1, <2>1 DEF Advances, Ends, GoesOn, TypeInv
    <3>. QED
      BY <1>1, <3>1 DEF OneInv
  <2>2. CASE s \notin forked
    <3>1. Len(run[s]) <= 1
      BY <2>2 DEF OneInv
    <3>2. /\ Len(run[s]) = 1 /\ \A u \in Users \ {s} : run'[u] = run[u]
          /\ \/ run'[s] = <<>>
             \/ \E h \in Greenlets : /\ h.latest = run[s][1].latest /\ h.doomed = run[s][1].doomed
                                     /\ run'[s] = <<h>>
      BY <1>1, <3>1, AdvanceAlone
    <3>3. run[s] \in Seq(Greenlets) /\ 1 \in DOMAIN run[s]
      BY <3>2 DEF TypeInv
    <3>4. /\ Len(run'[s]) <= 1
          /\ \A j \in DOMAIN run'[s] : run'[s][j].latest /\ (backs[s] > 0 => run'[s][j].doomed)
      BY <2>2, <3>2, <3>3 DEF OneInv
    <3>. QED
      BY <1>1, <3>2, <3>4 DEF OneInv
  <2>. QED
    BY <2>1, <2>2
<1>2. ASSUME UNCHANGED <<run, backs, forked>> PROVE OneInv'
  BY <1>2 DEF OneInv
<1>3. ASSUME NEW s \in Users, Turn(s) PROVE OneInv'
  BY <1>3, <1>1, TurnAdvances DEF Turn
<1>4. ASSUME NEW s \in Users, TakeAnswer(s) PROVE OneInv'
  BY <1>4, <1>1, TakeAdvances DEF TakeAnswer
<1>5. ASSUME NEW s \in Users, BackRun(s) PROVE OneInv'
  <2>1. /\ backs[s] > 0 /\ backs' = [backs EXCEPT ![s] = @ - 1] /\ forked' = forked
        /\ Execute(s, step[s], Survivors(run[s]))
    BY <1>5 DEF BackRun
  <2>2. \A u \in Users \ {s} : run'[u] = run[u] /\ backs'[u] = backs[u]
    BY <2>1 DEF Execute, TypeInv
  <2>3. CASE s \in forked
    BY <2>1, <2>2, <2>3 DEF OneInv
  <2>4. CASE s \notin forked
    <3>1. Len(run[s]) <= 1 /\ backs[s] <= 1 /\ \A i \in DOMAIN run[s] : run[s][i].doomed
      BY <2>1, <2>4 DEF OneInv
    <3>2. backs[s] \in Nat /\ backs[s] = 1 /\ backs'[s] = 0
      BY <2>1, <3>1 DEF TypeInv
    <3>3. Survivors(run[s]) = <<>>
      BY <3>1, SurvivorsAre DEF TypeInv
    <3>4. run'[s] = <<>> \/ run'[s] = <<Greenlet(step[s])>>
      BY <2>1, <3>3, ExecuteAlone
    <3>5. Len(run'[s]) <= 1 /\ \A i \in DOMAIN run'[s] : run'[s][i].latest
      BY <3>4, FewLatest
    <3>. QED
      BY <2>1, <2>2, <3>2, <3>5 DEF OneInv
  <2>. QED
    BY <2>3, <2>4
<1>6. ASSUME NEW u \in Users, SessionNew(u) PROVE OneInv'
  <2>1. Execute(u, 0, <<>>) /\ UNCHANGED <<backs, forked>> /\ backs[u] = 0
    BY <1>6 DEF SessionNew, IdleInv
  <2>2. /\ \A v \in Users \ {u} : run'[v] = run[v]
        /\ run'[u] = <<>> \/ run'[u] = <<Greenlet(0)>>
    BY <2>1, ExecuteAlone
  <2>3. Len(run'[u]) <= 1 /\ \A i \in DOMAIN run'[u] : run'[u][i].latest
    BY <2>2, FewLatest
  <2>. QED
    BY <2>1, <2>2, <2>3 DEF OneInv
<1>7. ASSUME NEW u \in Users, Answer(u) \/ PollBegin(u) \/ AnswerAgain(u) \/ Reload(u) PROVE OneInv'
  BY <1>7, <1>2 DEF Answer, PollBegin, AnswerAgain, Reload, session, history
<1>8. ASSUME NEW u \in Users, GoNext(u) PROVE OneInv'
  <2>1. \A v \in Users \ {u} : run'[v] = run[v]
    BY <1>8 DEF GoNext, Execute, TypeInv
  <2>2. forked' = forked \union {u} /\ backs' = backs
    BY <1>8 DEF GoNext
  <2>. QED
    BY <2>1, <2>2 DEF OneInv
<1>9. ASSUME NEW u \in Users, GoBack(u) PROVE OneInv'
  <2>1. /\ run' = [run EXCEPT ![u] = [i \in DOMAIN run[u] |-> Doom(run[u][i])]]
        /\ backs' = [backs EXCEPT ![u] = @ + 1]
        /\ forked' = IF backs[u] > 0 THEN forked \union {u} ELSE forked
    BY <1>9 DEF GoBack
  <2>2. \A v \in Users \ {u} : run'[v] = run[v] /\ backs'[v] = backs[v]
    BY <2>1 DEF TypeInv
  <2>3. CASE u \in forked'
    BY <2>1, <2>2, <2>3 DEF OneInv
  <2>4. CASE u \notin forked'
    <3>1. u \notin forked /\ ~(backs[u] > 0) /\ forked' = forked
      BY <2>1, <2>4
    <3>2. backs'[u] = 1
      BY <2>1, <3>1 DEF TypeInv
    <3>3. run[u] \in Seq(Greenlets) /\ Len(run[u]) <= 1 /\ \A i \in DOMAIN run[u] : run[u][i].latest
      BY <3>1 DEF OneInv, TypeInv
    <3>4. ASSUME NEW i \in DOMAIN run[u] PROVE Doom(run[u][i]).latest /\ Doom(run[u][i]).doomed
      <4>1. PICK g \in Greenlets : g = run[u][i]
        BY <3>3
      <4>2. g.latest
        BY <3>3, <4>1
      <4>3. Doom(g).latest /\ Doom(g).doomed
        BY <4>2 DEF Doom, Greenlets
      <4>. QED
        BY <4>1, <4>3
    <3>5. run'[u] = [i \in DOMAIN run[u] |-> Doom(run[u][i])]
      BY <2>1 DEF TypeInv
    <3>6. Len(run'[u]) = Len(run[u]) /\ DOMAIN run'[u] = DOMAIN run[u]
      BY <3>3, <3>5
    <3>7. \A i \in DOMAIN run'[u] : run'[u][i].latest /\ run'[u][i].doomed
      BY <3>4, <3>5, <3>6
    <3>. QED
      BY <2>2, <3>1, <3>2, <3>3, <3>6, <3>7 DEF OneInv
  <2>. QED
    BY <2>3, <2>4
<1>10. ASSUME NEW c \in Conns, PollKill(c) \/ FetchRun(c) PROVE OneInv'
  BY <1>10, <1>2 DEF PollKill, FetchRun, session, history
<1>11. CASE UNCHANGED vars
  BY <1>11, <1>2 DEF vars, session, history
<1>. QED
  BY <1>3, <1>4, <1>5, <1>6, <1>7, <1>8, <1>9, <1>10, <1>11 DEF Next, Server, Browser, Moves

-----------------------------------------------------------------------------
(* Which question an answer reaches.                                       *)

(* No question and no answer is on its way.                                *)
Quiet(u) ==
    /\ qin[u] = <<>> /\ ~IsQuestion(shown[u])
    /\ \A i \in DOMAIN qout[u] : ~IsQuestion(qout[u][i])

(* Then everything fits.                                                   *)
LEMMA QuietFits == \A u : Quiet(u) => Fits(u)
  BY Short DEF Quiet, Fits

(* A session is quiet while it has no greenlet or one that does not wait,  *)
(* and is quiet but for an answer that has arrived.                        *)
LEMMA FitsQuiet ==
    ASSUME TypeInv, NEW u \in Users, Fits(u)
    PROVE  /\ run[u] = <<>> \/ run[u][1].mode = "ready" => Quiet(u)
           /\ qin[u] # <<>> =>
                 /\ Tail(qin[u]) = <<>> /\ Current(u, Head(qin[u])) /\ ~IsQuestion(shown[u])
                 /\ \A i \in DOMAIN qout[u] : ~IsQuestion(qout[u][i])
<1>1. qin[u] \in Seq(Questions) /\ Len(qin[u]) <= 1
  BY DEF TypeInv, Fits
<1>2. qin[u] = <<>> \/ (Len(qin[u]) = 1 /\ DOMAIN qin[u] = {1})
  BY <1>1, Short
<1>3. ASSUME run[u] = <<>> \/ run[u][1].mode = "ready" PROVE Quiet(u)
  <2>1. \A q : ~Current(u, q)
    BY <1>3 DEF Current
  <2>. QED
    BY <1>2, <2>1 DEF Fits, Quiet
<1>4. ASSUME qin[u] # <<>>
      PROVE  /\ Tail(qin[u]) = <<>> /\ Current(u, Head(qin[u])) /\ ~IsQuestion(shown[u])
             /\ \A i \in DOMAIN qout[u] : ~IsQuestion(qout[u][i])
  <2>1. Head(qin[u]) = qin[u][1] /\ Tail(qin[u]) \in Seq(Questions) /\ Len(Tail(qin[u])) = Len(qin[u]) - 1
    BY <1>1, <1>4, Rest
  <2>2. Len(Tail(qin[u])) = 0
    BY <1>2, <1>4, <2>1
  <2>3. Tail(qin[u]) = <<>>
    <3>1. \A q \in Seq(Questions) : Len(q) = 0 => q = <<>>
      OBVIOUS
    <3>. QED
      BY <2>1, <2>2, <3>1
  <2>4. Current(u, Head(qin[u]))
    BY <1>2, <1>4, <2>1 DEF Fits
  <2>. QED
    BY <1>4, <2>3, <2>4 DEF Fits
<1>. QED
  BY <1>3, <1>4

(* The only greenlet goes on from a point where nothing is on its way: at  *)
(* most one question is after that, and it waits for the answer.           *)
LEMMA AdvanceFits ==
    ASSUME TypeInv, NEW s \in Users, NEW i, Advances(s, i), Len(run[s]) <= 1,
           ~IsQuestion(shown[s]), \A j \in DOMAIN qout[s] : ~IsQuestion(qout[s][j]),
           qin'[s] = <<>>, shown' = shown
    PROVE  Fits(s)'
<1>1. qout \in [Users -> Seq(Posted)] /\ qout[s] \in Seq(Posted)
  BY DEF TypeInv
<1>2. ASSUME NEW m \in Posted, Sends(s, m)
      PROVE  /\ qout'[s] = Append(qout[s], m) /\ Len(qout[s]) \in Nat
             /\ \A j \in DOMAIN qout'[s] :
                   (j = Len(qout[s]) + 1 /\ qout'[s][j] = m) \/ ~IsQuestion(qout'[s][j])
  <2>1. qout'[s] = Append(qout[s], m)
    BY <1>1, <1>2 DEF Sends
  <2>2. \A j \in DOMAIN Append(qout[s], m) :
            (j = Len(qout[s]) + 1 /\ Append(qout[s], m)[j] = m) \/ (j \in DOMAIN qout[s] /\ Append(qout[s], m)[j] = qout[s][j])
    BY <1>1, Appended
  <2>3. Len(qout[s]) \in Nat
    BY <1>1
  <2>. QED
    BY <2>1, <2>2, <2>3
<1>3. ASSUME \A j \in DOMAIN qout'[s] : ~IsQuestion(qout'[s][j])
      PROVE  Fits(s)'
  <2>1. Quiet(s)'
    BY <1>3 DEF Quiet
  <2>2. (\A u : Quiet(u) => Fits(u))'
    BY QuietFits, PTL
  <2>. QED
    BY <2>1, <2>2
<1>4. CASE Ends(s, 1)
  <2>1. CASE UNCHANGED <<qout, last>>
    BY <1>3, <2>1
  <2>2. CASE \E m \in Posted : m.cat = "end" /\ Sends(s, m)
    BY <1>2, <1>3, <2>2 DEF IsQuestion
  <2>. QED
    BY <1>4, <2>1, <2>2 DEF Ends
<1>5. ASSUME NEW m \in Posted, NEW h \in Greenlets, Sends(s, m), run'[s] = <<h>>,
             m.cat \in {"ask", "error"} => h.mode # "ready" /\ m.of = Asked(h)
      PROVE  Fits(s)'
  <2>1. CASE IsQuestion(m)
    <3>1. h.mode # "ready" /\ m.of = Asked(h)
      BY <1>5, <2>1 DEF IsQuestion
    <3>2. run'[s] # <<>> /\ run'[s][1] = h
      BY <1>5
    <3>3. Current(s, m.of)'
      BY <3>1, <3>2 DEF Current, Asked
    <3>4. \A j \in DOMAIN qout'[s] : IsQuestion(qout'[s][j]) =>
              qout'[s][j] = m /\ \A l \in DOMAIN qout'[s] : IsQuestion(qout'[s][l]) => l = j
      BY <1>2, <1>5
    <3>. QED
      BY <3>3, <3>4, Short DEF Fits
  <2>2. CASE ~IsQuestion(m)
    BY <1>2, <1>3, <1>5, <2>2
  <2>. QED
    BY <2>1, <2>2
<1>. QED
  BY <1>4, <1>5, AdvanceAlone

(* A session that a step leaves alone.                                     *)
LEMMA FitsKept ==
    ASSUME NEW u, Fits(u), run'[u] = run[u], qin'[u] = qin[u], qout'[u] = qout[u],
           shown'[u] = shown[u] \/ shown'[u] = None
    PROVE  Fits(u)'
<1>1. \A q : Current(u, q)' <=> Current(u, q)
  BY DEF Current, Asked
<1>2. ~IsQuestion(None)
  BY DEF IsQuestion
<1>. QED
  BY <1>1, <1>2 DEF Fits

(* The answer goes from the page to the queue.                             *)
LEMMA FitsAnswer ==
    ASSUME TypeInv, NEW u \in Users, Answer(u), Fits(u)
    PROVE  Fits(u)'
<1>1. /\ IsQuestion(shown[u]) /\ qin' = [qin EXCEPT ![u] = Append(@, shown[u].of)]
      /\ shown' = [shown EXCEPT ![u] = None] /\ UNCHANGED <<run, qout>>
  BY DEF Answer, IsQuestion
<1>2. Current(u, shown[u].of) /\ qin[u] = <<>>
  BY <1>1 DEF Fits
<1>3. qin'[u] = <<shown[u].of>> /\ shown'[u] = None
  <2>1. \A e : Append(<<>>, e) = <<e>>
    OBVIOUS
  <2>. QED
    BY <1>1, <1>2, <2>1 DEF TypeInv
<1>4. \A q : Current(u, q)' <=> Current(u, q)
  BY <1>1 DEF Current, Asked
<1>5. \A i \in DOMAIN qout[u] : ~IsQuestion(qout[u][i])
  BY <1>1 DEF Fits
<1>6. Len(qin'[u]) = 1 /\ \A i \in DOMAIN qin'[u] : qin'[u][i] = shown[u].of
  BY <1>3
<1>7. ~IsQuestion(shown'[u]) /\ qout'[u] = qout[u]
  BY <1>1, <1>3 DEF IsQuestion
<1>. QED
  BY <1>2, <1>4, <1>5, <1>6, <1>7 DEF Fits

(* A question goes from the queue to the page, or the page that was loaded *)
(* again gets the one that is waited for.                                  *)
LEMMA FitsFetch ==
    ASSUME TypeInv, IdleInv, NEW c \in Conns, FetchRun(c), Fits(c[1]), Len(run[c[1]]) <= 1, ~RestoresOld(c)
    PROVE  Fits(c[1])'
<1>. DEFINE u == c[1]
<1>1. u \in Users /\ (Restores(c) \/ qout[u] # <<>>)
  BY WorkIs DEF FetchRun, Own, Conns
<1>2. /\ UNCHANGED <<run, qin>>
      /\ qout' = IF Restores(c) THEN qout ELSE [qout EXCEPT ![u] = Tail(@)]
      /\ IF c = Conn(u) THEN shown' = [shown EXCEPT ![u] = Work(c)] ELSE shown' = shown
  BY DEF FetchRun, Own
<1>3. \A q : Current(u, q)' <=> Current(u, q)
  BY <1>2 DEF Current, Asked
<1>4. c = Conn(u) => shown[u] = None
  BY <1>1 DEF FetchRun, IdleInv
<1>5. shown'[u] = IF c = Conn(u) THEN Work(c) ELSE shown[u]
  BY <1>1, <1>2 DEF TypeInv
<1>6. qin'[u] = qin[u]
  BY <1>2
<1>7. CASE Restores(c)
  <2>1. qout'[u] = qout[u] /\ Work(c) = last[u]
    BY <1>1, <1>2, <1>7, WorkIs
  <2>2. qout[u] = <<>> /\ qin[u] = <<>> /\ \E i \in Waiting(u) : last[u].of = Asked(run[u][i])
    BY <1>7 DEF RestoresOld, Unsettled
  <2>3. Current(u, last[u].of)
    <3>1. PICK i \in DOMAIN run[u] : run[u][i].mode # "ready" /\ last[u].of = Asked(run[u][i])
      BY <2>2 DEF Waiting
    <3>2. run[u] \in Seq(Greenlets)
      BY <1>1 DEF TypeInv
    <3>3. i = 1 /\ run[u] # <<>>
      BY <3>1, <3>2, Short
    <3>. QED
      BY <3>1, <3>3 DEF Current
  <2>4. CASE c = Conn(u)
    <3>1. shown'[u] = last[u]
      BY <1>5, <2>1, <2>4
    <3>. QED
      BY <1>3, <1>6, <2>1, <2>2, <2>3, <3>1, Short DEF Fits
  <2>5. CASE c # Conn(u)
    BY <1>2, <1>5, <1>6, <2>1, <2>5, FitsKept
  <2>. QED
    BY <2>4, <2>5
<1>8. CASE ~Restores(c)
  <2>. DEFINE q == qout[u]
  <2>1. q \in Seq(Posted) /\ q # <<>>
    BY <1>1, <1>8 DEF TypeInv
  <2>2. qout'[u] = Tail(q) /\ Work(c) = Head(q)
    BY <1>1, <1>2, <1>8, WorkIs DEF TypeInv
  <2>3. /\ Head(q) = q[1] /\ 1 \in DOMAIN q /\ DOMAIN Tail(q) \subseteq Nat \ {0}
        /\ \A j \in DOMAIN Tail(q) : j + 1 \in DOMAIN q /\ Tail(q)[j] = q[j + 1]
    <3>1. Tail(q) \in Seq(Posted)
      BY <2>1, Rest
    <3>2. DOMAIN Tail(q) \subseteq Nat \ {0}
      BY <3>1
    <3>. QED
      BY <2>1, <3>2, Rest
  <2>4. ASSUME NEW j \in DOMAIN qout'[u], IsQuestion(qout'[u][j])
        PROVE  /\ Current(u, qout'[u][j].of) /\ qin[u] = <<>> /\ ~IsQuestion(shown[u]) /\ ~IsQuestion(Head(q))
               /\ \A l \in DOMAIN qout'[u] : IsQuestion(qout'[u][l]) => l = j
    <3>1. PICK k \in DOMAIN q : k = j + 1 /\ qout'[u][j] = q[k] /\ j \in Nat \ {0}
      BY <2>2, <2>3, <2>4
    <3>2. /\ Current(u, q[k].of) /\ qin[u] = <<>> /\ ~IsQuestion(shown[u])
          /\ \A l \in DOMAIN q : IsQuestion(q[l]) => l = k
      BY <2>4, <3>1 DEF Fits
    <3>3. ~IsQuestion(Head(q))
      BY <2>3, <3>1, <3>2
    <3>4. ASSUME NEW l \in DOMAIN qout'[u], IsQuestion(qout'[u][l]) PROVE l = j
      <4>1. PICK n \in DOMAIN q : n = l + 1 /\ qout'[u][l] = q[n] /\ l \in Nat \ {0}
        BY <2>2, <2>3, <3>4
      <4>2. n = k
        BY <3>2, <3>4, <4>1
      <4>. QED
        BY <3>1, <4>1, <4>2
    <3>. QED
      BY <3>1, <3>2, <3>3, <3>4
  <2>5. IsQuestion(Head(q)) => /\ Current(u, Head(q).of) /\ qin[u] = <<>> /\ ~IsQuestion(shown[u])
    BY <2>3 DEF Fits
  <2>6. Len(qin[u]) <= 1 /\ \A i \in DOMAIN qin[u] : Current(u, qin[u][i])
    BY DEF Fits
  <2>7. IsQuestion(shown[u]) => Current(u, shown[u].of) /\ qin[u] = <<>>
    BY DEF Fits
  <2>8. shown'[u] = Head(q) \/ shown'[u] = shown[u]
    BY <1>5, <2>2
  <2>. HIDE DEF q
  <2>9. (Len(qin[u]) <= 1 /\ \A i \in DOMAIN qin[u] : Current(u, qin[u][i]))'
    BY <1>3, <1>6, <2>6
  <2>10. (IsQuestion(shown[u]) => Current(u, shown[u].of) /\ qin[u] = <<>>)'
    BY <1>3, <1>6, <2>5, <2>7, <2>8
  <2>11. (\A i \in DOMAIN qout[u] : IsQuestion(qout[u][i]) =>
            /\ Current(u, qout[u][i].of) /\ qin[u] = <<>> /\ ~IsQuestion(shown[u])
            /\ \A j \in DOMAIN qout[u] : IsQuestion(qout[u][j]) => j = i)'
    BY <1>3, <1>6, <2>4, <2>8
  <2>. QED
    BY <2>9, <2>10, <2>11 DEF Fits
<1>. QED
  BY <1>7, <1>8

(* Every step keeps the answers with their questions.                      *)
LEMMA FitStep ==
    ASSUME TypeInv, IdleInv, OneInv, FitInv, [Next]_vars
    PROVE  FitInv'
<1>1. \A u \in Users \ dirty : Fits(u) /\ Len(run[u]) <= 1
  BY DEF FitInv, OneInv
<1>2. ASSUME NEW s, Quiet(s)' PROVE Fits(s)'
  BY <1>2, Short DEF Quiet, Fits
<1>3. ASSUME UNCHANGED <<forked, misfit, dirty, run, qin, qout>>,
             \A u \in Users : shown'[u] = shown[u] \/ shown'[u] = None
      PROVE  FitInv'
  BY <1>1, <1>3, FitsKept DEF FitInv
<1>4. ASSUME NEW s \in Users, dirty \subseteq dirty', forked' \subseteq dirty', misfit' \subseteq dirty',
             s \notin dirty' => Fits(s)',
             \A u \in Users \ {s} : run'[u] = run[u] /\ qin'[u] = qin[u] /\ qout'[u] = qout[u] /\ shown'[u] = shown[u]
      PROVE  FitInv'
  <2>1. ASSUME NEW u \in Users \ dirty' PROVE Fits(u)'
    BY <1>1, <1>4, <2>1, FitsKept
  <2>. QED
    BY <1>4, <2>1 DEF FitInv
<1>5. ASSUME NEW s \in Users, NEW i, Advances(s, i)
      PROVE  \A u \in Users \ {s} : run'[u] = run[u] /\ qout'[u] = qout[u]
  <2>1. \A u \in Users \ {s} : run'[u] = run[u]
    BY <1>5 DEF Advances, Ends, GoesOn, TypeInv
  <2>2. UNCHANGED <<qout, last>> \/ \E m \in Posted : qout' = [qout EXCEPT ![s] = Append(@, m)]
    BY <1>5, AdvanceSends DEF Sends
  <2>3. \A u \in Users \ {s} : qout'[u] = qout[u]
    BY <2>2 DEF TypeInv
  <2>. QED
    BY <2>1, <2>3
<1>6. ASSUME NEW s \in Users, Turn(s) PROVE FitInv'
  <2>1. PICK i \in DOMAIN run[s] : run[s][i].mode = "ready" /\ Advances(s, i)
    BY <1>6, TurnAdvances
  <2>2. UNCHANGED <<forked, misfit, dirty, qin, shown>>
    BY <1>6 DEF Turn, browser
  <2>3. ASSUME s \notin dirty PROVE Fits(s)'
    <3>1. Len(run[s]) <= 1 /\ Fits(s)
      BY <1>1, <2>3
    <3>2. i = 1
      BY <2>1, <3>1, AdvanceAlone
    <3>3. Quiet(s)
      BY <2>1, <3>1, <3>2, FitsQuiet
    <3>. QED
      BY <2>1, <2>2, <3>1, <3>3, AdvanceFits DEF Quiet
  <2>. QED
    BY <1>4, <1>5, <2>1, <2>2, <2>3 DEF FitInv
<1>7. ASSUME NEW s \in Users, TakeAnswer(s) PROVE FitInv'
  <2>1. qin[s] # <<>> /\ qin' = [qin EXCEPT ![s] = Tail(@)]
    BY <1>7, TakeAdvances
  <2>2. PICK i \in Waiting(s) :
            /\ Advances(s, i)
            /\ misfit' = IF Head(qin[s]) = Asked(run[s][i]) THEN misfit ELSE misfit \union {s}
    BY <1>7, TakeAdvances
  <2>3. UNCHANGED <<forked, dirty, shown>>
    BY <1>7 DEF TakeAnswer, browser
  <2>4. ASSUME s \notin dirty PROVE Fits(s)' /\ misfit' = misfit
    <3>1. Len(run[s]) <= 1 /\ Fits(s)
      BY <1>1, <2>4
    <3>2. i = 1
      BY <2>2, <3>1, AdvanceAlone
    <3>3. /\ Tail(qin[s]) = <<>> /\ Current(s, Head(qin[s])) /\ ~IsQuestion(shown[s])
          /\ \A j \in DOMAIN qout[s] : ~IsQuestion(qout[s][j])
      BY <2>1, <3>1, FitsQuiet
    <3>4. qin'[s] = <<>>
      BY <2>1, <3>3 DEF TypeInv
    <3>5. Fits(s)'
      BY <2>2, <2>3, <3>1, <3>3, <3>4, AdvanceFits
    <3>6. misfit' = misfit
      BY <2>2, <3>2, <3>3 DEF Current
    <3>. QED
      BY <3>5, <3>6
  <2>5. misfit' \subseteq dirty'
    BY <2>2, <2>3, <2>4 DEF FitInv
  <2>6. \A u \in Users \ {s} : run'[u] = run[u] /\ qin'[u] = qin[u] /\ qout'[u] = qout[u] /\ shown'[u] = shown[u]
    BY <1>5, <2>1, <2>2, <2>3 DEF TypeInv
  <2>. QED
    BY <1>4, <2>3, <2>4, <2>5, <2>6 DEF FitInv
<1>8. ASSUME NEW s \in Users, BackRun(s) PROVE FitInv'
  <2>1. /\ dirty' = IF Unsettled(s) \/ shown[s] # None THEN dirty \union {s} ELSE dirty
        /\ UNCHANGED <<forked, misfit, qin, qout, shown>> /\ \A u \in Users \ {s} : run'[u] = run[u]
    BY <1>8 DEF BackRun, browser, Execute, TypeInv
  <2>2. ASSUME s \notin dirty' PROVE Quiet(s)'
    BY <2>1, <2>2, Short DEF Unsettled, Quiet, IsQuestion
  <2>. QED
    BY <1>2, <1>4, <2>1, <2>2 DEF FitInv
<1>9. ASSUME NEW u \in Users, SessionNew(u) PROVE FitInv'
  <2>1. /\ UNCHANGED <<forked, misfit, dirty, qin, qout, shown>> /\ \A v \in Users \ {u} : run'[v] = run[v]
        /\ run[u] = <<>>
    BY <1>9 DEF SessionNew, browser, Execute, TypeInv, IdleInv
  <2>2. ASSUME u \notin dirty PROVE Quiet(u)'
    <3>1. Quiet(u)
      BY <1>1, <2>1, <2>2, FitsQuiet
    <3>. QED
      BY <2>1, <3>1 DEF Quiet
  <2>. QED
    BY <1>2, <1>4, <2>1, <2>2 DEF FitInv
<1>10. ASSUME NEW u \in Users, Answer(u) PROVE FitInv'
  <2>1. UNCHANGED <<forked, misfit, dirty, run, qout>>
    BY <1>10 DEF Answer, history
  <2>2. \A v \in Users \ {u} : qin'[v] = qin[v] /\ shown'[v] = shown[v]
    BY <1>10 DEF Answer, TypeInv
  <2>3. u \notin dirty => Fits(u)'
    BY <1>1, <1>10, FitsAnswer
  <2>. QED
    BY <1>4, <2>1, <2>2, <2>3 DEF FitInv
<1>11. ASSUME NEW u \in Users, PollBegin(u) PROVE FitInv'
  BY <1>3, <1>11 DEF PollBegin, session, history, TypeInv
<1>12. ASSUME NEW u \in Users, AnswerAgain(u) PROVE FitInv'
  <2>1. dirty' = dirty \union {u} /\ UNCHANGED <<forked, misfit, run, qout, shown>>
    BY <1>12 DEF AnswerAgain
  <2>2. \A v \in Users \ {u} : qin'[v] = qin[v]
    BY <1>12 DEF AnswerAgain, TypeInv
  <2>. QED
    BY <1>4, <2>1, <2>2 DEF FitInv
<1>13. ASSUME NEW u \in Users, GoNext(u) PROVE FitInv'
  <2>1. dirty' = dirty \union {u} /\ forked' = forked \union {u} /\ UNCHANGED <<misfit, qin, qout>>
    BY <1>13 DEF GoNext
  <2>2. \A v \in Users \ {u} : shown'[v] = shown[v] /\ run'[v] = run[v]
    BY <1>13 DEF GoNext, Execute, TypeInv
  <2>. QED
    BY <1>4, <2>1, <2>2 DEF FitInv
<1>14. ASSUME NEW u \in Users, GoBack(u) PROVE FitInv'
  <2>1. /\ forked' = IF backs[u] > 0 THEN forked \union {u} ELSE forked
        /\ dirty' = IF backs[u] > 0 \/ Unsettled(u) THEN dirty \union {u} ELSE dirty
        /\ UNCHANGED <<misfit, qin, qout>>
    BY <1>14 DEF GoBack
  <2>2. \A v \in Users \ {u} : shown'[v] = shown[v] /\ run'[v] = run[v]
    BY <1>14 DEF GoBack, TypeInv
  <2>3. ASSUME u \notin dirty' PROVE Quiet(u)'
    <3>1. shown'[u] = None
      BY <1>14 DEF GoBack, TypeInv
    <3>. QED
      BY <2>1, <2>3, <3>1, Short DEF Unsettled, Quiet, IsQuestion
  <2>4. forked' \subseteq dirty' /\ misfit' \subseteq dirty' /\ dirty \subseteq dirty'
    BY <2>1 DEF FitInv
  <2>. QED
    BY <1>2, <1>4, <2>1, <2>2, <2>3, <2>4
<1>15. ASSUME NEW u \in Users, Reload(u) PROVE FitInv'
  BY <1>3, <1>15 DEF Reload, session, history, TypeInv
<1>16. ASSUME NEW c \in Conns, PollKill(c) PROVE FitInv'
  BY <1>3, <1>16 DEF PollKill, session, browser, history
<1>17. ASSUME NEW c \in Conns, FetchRun(c) PROVE FitInv'
  <2>1. c[1] \in Users
    BY DEF Conns
  <2>2. /\ UNCHANGED <<forked, misfit, run, qin>>
        /\ dirty' = IF RestoresOld(c) THEN dirty \union {c[1]} ELSE dirty
    BY <1>17 DEF FetchRun, Own
  <2>3. \A v \in Users \ {c[1]} : qout'[v] = qout[v]
    BY <1>17, <2>1 DEF FetchRun, Own, TypeInv
  <2>4. \A v \in Users \ {c[1]} : shown'[v] = shown[v]
    <3>1. shown' = shown \/ shown' = [shown EXCEPT ![c[1]] = Work(c)]
      BY <1>17 DEF FetchRun, Own
    <3>2. shown \in [Users -> Posted \union {None}]
      BY DEF TypeInv
    <3>. QED
      BY <2>1, <3>1, <3>2
  <2>5. c[1] \notin dirty' => Fits(c[1])'
    BY <1>1, <1>17, <2>1, <2>2, FitsFetch
  <2>6. forked' \subseteq dirty' /\ misfit' \subseteq dirty' /\ dirty \subseteq dirty'
    BY <2>2 DEF FitInv
  <2>. QED
    BY <1>4, <2>1, <2>2, <2>3, <2>4, <2>5, <2>6
<1>18. CASE UNCHANGED vars
  BY <1>3, <1>18 DEF vars, session, browser, history
<1>. QED
  BY <1>6, <1>7, <1>8, <1>9, <1>10, <1>11, <1>12, <1>13, <1>14, <1>15, <1>16, <1>17, <1>18
  DEF Next, Server, Browser, Moves

-----------------------------------------------------------------------------
(* The theorems.                                                           *)

(* Before anything happens everything is in order.                         *)
LEMMA ChatInit == Init => ChatInv
<1>. SUFFICES ASSUME Init PROVE ChatInv
  OBVIOUS
<1>1. \A u \in Users : run[u] = <<>> /\ qout[u] = <<>> /\ qin[u] = <<>> /\ backs[u] = 0
                       /\ shown[u] = None /\ last[u] = None
  BY DEF Init
<1>2. \A c \in Conns : poll[c] = "idle"
  BY DEF Init
<1>3. TypeInv
  BY Flow DEF Init, TypeInv
<1>4. OwnInv
  BY <1>1, Short DEF OwnInv
<1>5. IdleInv
  BY <1>1, <1>2, <1>3, ConnOf DEF IdleInv
<1>6. OneInv
  BY <1>1, Short DEF OneInv
<1>7. FitInv
  <2>1. \A u \in Users : Quiet(u)
    BY <1>1, Short DEF Quiet, IsQuestion
  <2>. QED
    BY <2>1, QuietFits DEF Init, FitInv
<1>. QED
  BY <1>3, <1>4, <1>5, <1>6, <1>7 DEF ChatInv

(* Every step keeps the types.                                             *)
LEMMA TypeStep ==
    ASSUME TypeInv, [Next]_vars
    PROVE  TypeInv'
<1>1. CASE UNCHANGED vars
  BY <1>1 DEF vars, session, polling, browser, bounds, TypeInv
<1>. QED
  BY <1>1, ServerTypes, BrowserTypes, MovesTypes, PollTypes DEF Next

(* The invariant is inductive.                                             *)
LEMMA ChatInductive == Spec => []ChatInv
<1>1. ChatInv /\ [Next]_vars => ChatInv'
  BY TypeStep, OwnStep, IdleStep, OneStep, FitStep DEF ChatInv
<1>. QED
  BY <1>1, ChatInit, PTL DEF Spec

(* The types hold in every state (the queues, the greenlets and the polls  *)
(* of the chat sessions).                                                  *)
THEOREM ChatTypes == Spec => []TypeOK
<1>1. ChatInv => TypeOK
  <2>. SUFFICES ASSUME TypeInv PROVE TypeOK
    BY DEF ChatInv
  <2>1. ASSUME NEW s \in Users
        PROVE  /\ \A i \in DOMAIN run[s] : run[s][i] \in
                     [st : 0..N - 1, k : Nat, mode : {"ready", "wait", "stop", "err"}, latest : BOOLEAN, doomed : BOOLEAN]
               /\ qout[s] \in Seq(Messages)
               /\ \A i \in DOMAIN qin[s] : qin[s][i] \in (0..N - 1) \X Nat
               /\ last[s] \in Messages \union {None} /\ shown[s] \in Messages \union {None}
    <3>1. run[s] \in Seq(Greenlets) /\ qout[s] \in Seq(Posted) /\ qin[s] \in Seq(Questions)
      BY DEF TypeInv
    <3>2. ASSUME NEW i \in DOMAIN run[s]
          PROVE  run[s][i] \in [st : 0..N - 1, k : Nat, mode : {"ready", "wait", "stop", "err"},
                                latest : BOOLEAN, doomed : BOOLEAN]
      BY GreenletOf DEF Greenlets
    <3>3. Posted \subseteq Messages
      BY DEF Posted
    <3>4. qout[s] \in Seq(Messages)
      <4>1. \A S, R : S \subseteq R => \A q \in Seq(S) : q \in Seq(R)
        OBVIOUS
      <4>. QED
        BY <3>1, <3>3, <4>1
    <3>5. \A i \in DOMAIN qin[s] : qin[s][i] \in (0..N - 1) \X Nat
      <4>1. \A q \in Seq(Questions) : \A i \in DOMAIN q : q[i] \in Questions
        OBVIOUS
      <4>. QED
        BY <3>1, <4>1, Zenon DEF Questions
    <3>6. last[s] \in Messages \union {None} /\ shown[s] \in Messages \union {None}
      BY <3>3 DEF TypeInv
    <3>. QED
      BY <3>2, <3>4, <3>5, <3>6
  <2>2. backs \in [Users -> 0..MaxMoves]
    BY Flow DEF TypeInv
  <2>. QED
    BY <2>1, <2>2 DEF TypeInv, TypeOK
<1>. QED
  BY <1>1, ChatInductive, PTL

(* A page is shown only messages of its own session, although all polls    *)
(* share the variable _fetch_greenlet (GedisChatBot.session_work_get).     *)
THEOREM ShowsOwn == Spec => []OwnMessages
<1>1. ChatInv => OwnMessages
  BY DEF ChatInv, OwnInv, OwnMessages
<1>. QED
  BY <1>1, ChatInductive, PTL

(* One greenlet at most runs a session in which no step was skipped and no *)
(* steps back overlapped (go_back kills the one before it starts another). *)
THEOREM OneGreenletOnly == Spec => []OneGreenlet
<1>1. ChatInv => OneGreenlet
  BY DEF ChatInv, OneInv, OneGreenlet
<1>. QED
  BY <1>1, ChatInductive, PTL

(* Every answer reaches the question it was given to, unless a move left a *)
(* question or an answer in the queues of the session.                     *)
THEOREM AnswersReach == Spec => []AnswersFit
<1>1. ChatInv => AnswersFit
  BY DEF ChatInv, FitInv, AnswersFit
<1>. QED
  BY <1>1, ChatInductive, PTL
=============================================================================
