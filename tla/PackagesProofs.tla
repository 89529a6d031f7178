--------------------------- MODULE PackagesProofs ---------------------------
(* What the life cycle of the packages guarantees, for any packages, files *)
(* and clients, and any number of requests, faults, crashes and edits.     *)
EXTENDS Packages, FiniteSetTheorems, TLAPS

-----------------------------------------------------------------------------
(* Requests.  What is left of a request is a sequence of steps in which    *)
(* each name is followed by certain names only: nearly all that the proofs *)
(* need of a request is which steps are left and which one is next.        *)

Setup == {"toinstall", "install", "config", "prepare", "installed", "init"}
Quiet == {"models", "models_add", "actors_get", "actors", "file", "chatflows", "lookup"}
Names == Setup \union Quiet \union
         {"bootstart", "author_start", "running", "saved", "author_stop", "tostart", "actors_remove",
          "setconfig", "author_uninstall", "disabled"}

(* The names that can come anywhere after a step named n.                  *)
After(n) ==
    CASE n \in Setup -> Setup \union {"bootstart", "models", "actors", "author_start", "running", "saved"}
      [] n \in {"models", "models_add"} -> {"models", "actors_get", "actors", "author_start", "running", "saved", "chatflows", "lookup"}
      [] n = "actors_get" -> {"lookup"}
      [] n = "actors" -> {"author_start", "running", "saved", "chatflows", "lookup"}
      [] n = "file" -> {"file", "author_start", "running", "saved", "chatflows", "lookup"}
      [] n = "author_start" -> {"running", "saved"}
      [] n = "running" -> {"saved"}
      [] n = "chatflows" -> {"lookup"}
      [] n = "author_stop" -> {"tostart", "actors_remove", "setconfig", "author_uninstall", "disabled"}
      [] n = "tostart" -> {"actors_remove", "setconfig", "author_uninstall", "disabled"}
      [] n = "actors_remove" -> {"setconfig", "author_uninstall"}
      [] n = "setconfig" -> {"author_uninstall"}
      [] OTHER -> {}

StepRec   == [do : Names, file : Files \union {None}]
Elems(s)  == {s[i] : i \in DOMAIN s}
Sorted(s) == \A i, j \in DOMAIN s : i < j => s[j].do \in After(s[i].do)

Left(g)   == Elems(todo[g])               \* the steps that are left
Rest(g)   == Elems(Tail(todo[g]))         \* the ones after the next one
Has(g, n) == \E e \in Left(g) : e.do = n

(* Actor file f of package p is still to be loaded by some greenlet.       *)
Pending(p, f) == \E g \in Greenlets : pkg[g] = p /\ Load(f) \in Left(g)

-----------------------------------------------------------------------------
(* The invariant.                                                          *)

(* The requests are well-formed.                                           *)
TodoInv ==
    /\ todo \in [Greenlets -> Seq(StepRec)]
    /\ \A g \in Greenlets :
         /\ Sorted(todo[g])
         /\ \A e \in Left(g) : e.do \in {"file", "lookup"} => e.file \in AllFiles(pkg[g])

TypeInv ==
    /\ TypeOK
    /\ actors \in [Pkgs -> {None} \union SUBSET Files]
    /\ off \subseteq Pkgs

(* Who is at work in each phase of the server.                             *)
PhaseInv ==
    /\ phase \in {"down", "dying"} => \A g \in Greenlets : ~Busy(g)
    /\ phase = "booting" => \A c \in Clients : ~Busy(c)
    /\ phase = "up" => ~Busy(Boot)
    /\ phase = "down" => \A p \in Pkgs : ~running[p]

(* The start loop settles every package it comes by.                       *)
Settled(p) == running[p] \/ status[p] \in {"init", "config", "disabled", "error"}
BootInv ==
    phase = "booting" =>
        /\ \A p \in Pkgs \ pending : ~(Busy(Boot) /\ pkg[Boot] = p) => Settled(p)
        /\ Busy(Boot) =>
             \/ /\ Has(Boot, "bootstart") /\ ~Has(Boot, "saved")
                /\ Has(Boot, "installed") \/ status[pkg[Boot]] # "toinstall"
             \/ Has(Boot, "saved") /\ (Has(Boot, "running") \/ running[pkg[Boot]])

(* Nothing that is left of any request changes a package that is off.      *)
OffInv ==
    \A p \in off :
        /\ status[p] = "disabled"
        /\ phase = "booting" => ~running[p]
        /\ \A g \in Greenlets : pkg[g] = p => \A e \in Left(g) : e.do \in Quiet \union {"bootstart"}

(* One request at a time for the packages that are not in overlap.         *)
AloneInv ==
    \A p \in Pkgs \ overlap : \A g, h \in Greenlets :
        Busy(g) /\ Busy(h) /\ pkg[g] = p /\ pkg[h] = p => g = h

(* The request that loads the models is still at it, and sets running only *)
(* when they are loaded.                                                   *)
ModelsInv ==
    \A p \in Pkgs \ overlap :
        /\ running[p] => models[p] = "loaded"
        /\ models[p] = "partial" => \E g \in Greenlets : pkg[g] = p /\ Has(g, "models_add")
        /\ \A g \in Greenlets : pkg[g] = p =>
             /\ Has(g, "models_add") => models[p] = "partial"
             /\ Has(g, "running") => Has(g, "models") \/ Has(g, "models_add") \/ models[p] = "loaded"

(* A package runs only after its actors directory was walked.              *)
WalkedInv ==
    /\ \A p \in Pkgs : running[p] => changes[p] # {}
    /\ \A g \in Greenlets : Has(g, "running") => Has(g, "actors") \/ changes[pkg[g]] # {}

(* A text that is loaded belongs to an actor the server knows, and every   *)
(* file of a directory that was walked is loaded or about to be.           *)
KnownInv ==
    \A p \in Pkgs \ (spoiled \union reverted) : ~Shares(p) =>
        /\ ver[p] = 0 => changes[p] \subseteq {0} /\ \A f \in AllFiles(p) : <<Code[p][f], 1>> \notin loaded
        /\ \A f \in AllFiles(p) : <<Code[p][f], ver[p]>> \in loaded => <<p, f, ver[p]>> \in meta
        /\ ver[p] \in changes[p] => \A f \in AllFiles(p) : <<Code[p][f], ver[p]>> \in loaded \/ Pending(p, f)
        /\ changes[p] # {} => \A f \in AllFiles(p) : (\E v \in {0, 1} : <<p, f, v>> \in meta) \/ Pending(p, f)

PackagesInv ==
    TypeInv /\ TodoInv /\ PhaseInv /\ BootInv /\ OffInv /\ AloneInv /\ ModelsInv /\ WalkedInv /\ KnownInv

-----------------------------------------------------------------------------
(* Sequences of steps.                                                     *)

(* The first step and the others.                                          *)
LEMMA TailElems ==
  ASSUME NEW S, NEW s \in Seq(S), s # <<>>
  PROVE  /\ Tail(s) \in Seq(S) /\ Head(s) \in S /\ Head(s) \in Elems(s)
         /\ Elems(s) = {Head(s)} \union Elems(Tail(s))
<1>1. Len(s) \in Nat /\ Len(s) >= 1 /\ DOMAIN s = 1..Len(s)
  OBVIOUS
<1>2. Len(Tail(s)) = Len(s) - 1 /\ DOMAIN Tail(s) = 1..(Len(s) - 1) /\ \A i \in 1..(Len(s) - 1) : Tail(s)[i] = s[i + 1]
  BY <1>1
<1>3. Head(s) = s[1] /\ 1 \in DOMAIN s
  BY <1>1
<1>4. ASSUME NEW i \in 1..Len(s), i # 1 PROVE s[i] \in Elems(Tail(s))
  <2>1. PICK j \in 1..(Len(s) - 1) : j + 1 = i
    <3>1. i - 1 \in 1..(Len(s) - 1) /\ (i - 1) + 1 = i
      BY <1>1, <1>4
    <3> QED BY <3>1
  <2>2. Tail(s)[j] = s[i]
    BY <1>2, <2>1
  <2> QED BY <1>2, <2>2 DEF Elems
<1>5. ASSUME NEW j \in 1..(Len(s) - 1) PROVE Tail(s)[j] \in Elems(s)
  <2>1. PICK k \in 1..Len(s) : k = j + 1
    BY <1>1
  <2> QED BY <1>1, <1>2, <2>1 DEF Elems
<1>6. Elems(Tail(s)) \subseteq Elems(s)
  BY <1>2, <1>5 DEF Elems
<1>7. Elems(s) \subseteq {Head(s)} \union Elems(Tail(s))
  BY <1>1, <1>3, <1>4 DEF Elems
<1>8. Head(s) \in Elems(s)
  BY <1>3 DEF Elems
<1>9. Tail(s) \in Seq(S) /\ Head(s) \in S
  OBVIOUS
<1> QED BY <1>6, <1>7, <1>8, <1>9

(* Steps that are put in front.                                            *)
LEMMA ConcatElems ==
  ASSUME NEW S, NEW s \in Seq(S), NEW t \in Seq(S)
  PROVE  s \o t \in Seq(S) /\ Elems(s \o t) = Elems(s) \union Elems(t)
<1>1. /\ Len(s) \in Nat /\ Len(t) \in Nat /\ DOMAIN s = 1..Len(s) /\ DOMAIN t = 1..Len(t)
      /\ DOMAIN (s \o t) = 1..(Len(s) + Len(t))
  OBVIOUS
<1>2. ASSUME NEW i \in DOMAIN s PROVE s[i] \in Elems(s \o t)
  <2>1. (s \o t)[i] = s[i] /\ i \in DOMAIN (s \o t)
    BY <1>1
  <2> QED BY <2>1 DEF Elems
<1>3. ASSUME NEW i \in DOMAIN t PROVE t[i] \in Elems(s \o t)
  <2>1. PICK k \in DOMAIN (s \o t) : k = Len(s) + i
    BY <1>1
  <2>2. (s \o t)[k] = t[i]
    BY <1>1, <2>1
  <2> QED BY <2>2 DEF Elems
<1>4. ASSUME NEW k \in DOMAIN (s \o t) PROVE (s \o t)[k] \in Elems(s) \union Elems(t)
  <2>1. CASE k \in 1..Len(s)
    <3>1. (s \o t)[k] = s[k]
      BY <1>1, <2>1
    <3> QED BY <1>1, <2>1, <3>1 DEF Elems
  <2>2. CASE k \notin 1..Len(s)
    <3>1. PICK i \in DOMAIN t : i = k - Len(s)
      BY <1>1, <2>2
    <3>2. (s \o t)[k] = t[i]
      BY <1>1, <2>2, <3>1
    <3> QED BY <3>2 DEF Elems
  <2> QED BY <2>1, <2>2
<1>5. Elems(s) \union Elems(t) \subseteq Elems(s \o t)
  BY <1>2, <1>3 DEF Elems
<1>6. Elems(s \o t) \subseteq Elems(s) \union Elems(t)
  BY <1>4 DEF Elems
<1> QED BY <1>5, <1>6

(* What is left of a sorted sequence is sorted, and may follow its head.   *)
LEMMA SortedTail ==
  ASSUME NEW S, NEW s \in Seq(S), s # <<>>, Sorted(s)
  PROVE  Sorted(Tail(s)) /\ \A e \in Elems(Tail(s)) : e.do \in After(Head(s).do)
<1>1. Len(s) \in Nat /\ Len(s) >= 1 /\ DOMAIN s = 1..Len(s) /\ Head(s) = s[1]
  OBVIOUS
<1>2. DOMAIN Tail(s) = 1..(Len(s) - 1) /\ \A i \in 1..(Len(s) - 1) : Tail(s)[i] = s[i + 1]
  BY <1>1
<1>3. ASSUME NEW i \in DOMAIN Tail(s), NEW j \in DOMAIN Tail(s), i < j
      PROVE  Tail(s)[j].do \in After(Tail(s)[i].do)
  <2>1. PICK k \in DOMAIN s, l \in DOMAIN s : k = i + 1 /\ l = j + 1 /\ k < l
    BY <1>1, <1>2, <1>3
  <2>2. Tail(s)[i] = s[k] /\ Tail(s)[j] = s[l]
    BY <1>2, <2>1
  <2>3. s[l].do \in After(s[k].do)
    BY <2>1 DEF Sorted
  <2> QED BY <2>2, <2>3
<1>4. ASSUME NEW j \in DOMAIN Tail(s) PROVE Tail(s)[j].do \in After(s[1].do)
  <2>1. PICK l \in DOMAIN s : l = j + 1 /\ 1 < l
    BY <1>1, <1>2
  <2>2. s[l].do \in After(s[1].do)
    BY <1>1, <2>1 DEF Sorted
  <2> QED BY <1>2, <2>1, <2>2
<1> QED BY <1>1, <1>3, <1>4 DEF Sorted, Elems

(* Two sorted sequences make one when the second may follow the first.     *)
LEMMA SortedConcat ==
  ASSUME NEW S, NEW s \in Seq(S), NEW t \in Seq(S), Sorted(s), Sorted(t),
         \A d \in Elems(s), e \in Elems(t) : e.do \in After(d.do)
  PROVE  Sorted(s \o t)
<1>1. /\ Len(s) \in Nat /\ Len(t) \in Nat /\ DOMAIN s = 1..Len(s) /\ DOMAIN t = 1..Len(t)
      /\ DOMAIN (s \o t) = 1..(Len(s) + Len(t))
  OBVIOUS
<1>2. SUFFICES ASSUME NEW k \in DOMAIN (s \o t), NEW l \in DOMAIN (s \o t), k < l
               PROVE  (s \o t)[l].do \in After((s \o t)[k].do)
  BY DEF Sorted
<1>3. CASE l \in 1..Len(s)
  <2>1. (s \o t)[k] = s[k] /\ (s \o t)[l] = s[l] /\ k \in DOMAIN s /\ l \in DOMAIN s
    BY <1>1, <1>2, <1>3
  <2> QED BY <1>2, <2>1 DEF Sorted
<1>4. CASE l \notin 1..Len(s)
  <2>1. PICK j \in DOMAIN t : j = l - Len(s)
    BY <1>1, <1>4
  <2>2. (s \o t)[l] = t[j]
    BY <1>1, <1>4, <2>1
  <2>3. CASE k \in 1..Len(s)
    <3>1. (s \o t)[k] = s[k] /\ k \in DOMAIN s
      BY <1>1, <2>3
    <3>2. s[k] \in Elems(s) /\ t[j] \in Elems(t)
      BY <3>1 DEF Elems
    <3> QED BY <2>2, <3>1, <3>2
  <2>4. CASE k \notin 1..Len(s)
    <3>1. PICK i \in DOMAIN t : i = k - Len(s)
      BY <1>1, <2>4
    <3>2. (s \o t)[k] = t[i] /\ i < j
      BY <1>1, <1>2, <2>1, <2>4, <3>1
    <3>3. t[j].do \in After(t[i].do)
      BY <3>2 DEF Sorted
    <3> QED BY <2>2, <3>2, <3>3
  <2> QED BY <2>3, <2>4
<1> QED BY <1>3, <1>4

(* The files of an actors directory are loaded one by one, each of them.   *)
LEMMA StepsFacts ==
  ASSUME NEW p \in Pkgs
  PROVE  Steps(p) \in Seq(AllFiles(p)) /\ \A f \in AllFiles(p) : \E i \in DOMAIN Steps(p) : Steps(p)[i] = f
<1> DEFINE A == AllFiles(p)
           n == Cardinality(A)
<1>1. IsFiniteSet(A)
  <2>1. A \subseteq Files /\ IsFiniteSet(Files)
    BY PackagesAssumption DEF AllFiles
  <2> QED BY <2>1, FS_Subset
<1>2. n \in Nat /\ ExistsBijection(1..n, A)
  BY <1>1, FS_CardinalityType
<1>3. \E f \in [1..n -> A] : IsInjective(f)
  BY <1>2 DEF ExistsBijection, Bijection, Injection, IsInjective
<1>4. Steps(p) \in [1..n -> A] /\ IsInjective(Steps(p))
  BY <1>3 DEF Steps, SetToSeq
<1>5. Steps(p) \in Injection(1..n, A)
  BY <1>4 DEF Injection, IsInjective
<1>6. IsFiniteSet(1..n) /\ Cardinality(1..n) = n
  BY <1>2, FS_Interval
<1>7. Steps(p) \in Surjection(1..n, A)
  BY <1>1, <1>5, <1>6, FS_Injection
<1>8. \A f \in A : \E i \in 1..n : Steps(p)[i] = f
  BY <1>7 DEF Surjection
<1>9. Steps(p) \in Seq(A) /\ DOMAIN Steps(p) = 1..n
  BY <1>2, <1>4
<1> QED BY <1>8, <1>9

-----------------------------------------------------------------------------
(* Operations.                                                             *)

(* A good sequence of steps.                                               *)
Good(s) == s \in Seq(StepRec) /\ Sorted(s)

(* Steps by their names.                                                   *)
Dos(N) == {Do(n) : n \in N}

(* The names of steps that are given by their names.                       *)
LEMMA DosHas ==
  ASSUME NEW N, NEW m
  PROVE  (\E e \in Dos(N) : e.do = m) <=> m \in N
<1>1. ASSUME m \in N PROVE \E e \in Dos(N) : e.do = m
  <2>1. Do(m) \in Dos(N) /\ Do(m).do = m
    BY <1>1 DEF Dos, Do
  <2> QED BY <2>1
<1>2. ASSUME NEW e \in Dos(N), e.do = m PROVE m \in N
  BY <1>2 DEF Dos, Do
<1> QED BY <1>1, <1>2

(* No step.                                                                *)
LEMMA GoodNone == Good(<<>>) /\ Elems(<<>>) = {}
<1>1. <<>> \in Seq(StepRec) /\ DOMAIN <<>> = {}
  OBVIOUS
<1> QED BY <1>1 DEF Good, Sorted, Elems

(* One step.                                                               *)
LEMMA GoodOne ==
  ASSUME NEW e \in StepRec
  PROVE  Good(<<e>>) /\ Elems(<<e>>) = {e}
<1>1. <<e>> \in Seq(StepRec) /\ DOMAIN <<e>> = {1} /\ <<e>>[1] = e
  OBVIOUS
<1> QED BY <1>1 DEF Good, Sorted, Elems

(* Good steps in front of good steps that may follow them.                 *)
LEMMA GoodConcat ==
  ASSUME NEW s, NEW t, Good(s), Good(t), \A d \in Elems(s), e \in Elems(t) : e.do \in After(d.do)
  PROVE  Good(s \o t) /\ Elems(s \o t) = Elems(s) \union Elems(t)
  BY ConcatElems, SortedConcat DEF Good

(* One more step at the end of a program.                                  *)
LEMMA GoodAppend ==
  ASSUME NEW N, NEW s, NEW n \in Names, Good(s), Elems(s) = Dos(N), \A m \in N : n \in After(m)
  PROVE  Good(s \o <<Do(n)>>) /\ Elems(s \o <<Do(n)>>) = Dos(N \union {n})
<1>1. Do(n) \in StepRec /\ Do(n).do = n
  BY DEF Do, StepRec
<1>2. \A d \in Elems(s), e \in Elems(<<Do(n)>>) : e.do \in After(d.do)
  BY <1>1, GoodOne DEF Dos, Do
<1>3. Good(<<Do(n)>>) /\ Elems(<<Do(n)>>) = {Do(n)}
  BY <1>1, GoodOne
<1>4. Good(s \o <<Do(n)>>) /\ Elems(s \o <<Do(n)>>) = Dos(N) \union {Do(n)}
  BY <1>2, <1>3, GoodConcat
<1>5. Dos(N \union {n}) = Dos(N) \union {Do(n)}
  BY DEF Dos
<1> QED BY <1>4, <1>5

(* A program of one, two or three steps.                                   *)
LEMMA GoodThree ==
  ASSUME NEW a \in Names, NEW b \in Names, NEW c \in Names, b \in After(a), c \in After(a), c \in After(b)
  PROVE  /\ Good(<<Do(a)>>) /\ Elems(<<Do(a)>>) = Dos({a})
         /\ Good(<<Do(a), Do(b)>>) /\ Elems(<<Do(a), Do(b)>>) = Dos({a, b})
         /\ Good(<<Do(a), Do(b), Do(c)>>) /\ Elems(<<Do(a), Do(b), Do(c)>>) = Dos({a, b, c})
<1>1. Good(<<Do(a)>>) /\ Elems(<<Do(a)>>) = Dos({a})
  BY GoodOne DEF Do, StepRec, Dos
<1>2. <<Do(a), Do(b)>> = <<Do(a)>> \o <<Do(b)>> /\ <<Do(a), Do(b), Do(c)>> = <<Do(a), Do(b)>> \o <<Do(c)>>
  OBVIOUS
<1>3. Good(<<Do(a), Do(b)>>) /\ Elems(<<Do(a), Do(b)>>) = Dos({a} \union {b})
  <2>1. \A m \in {a} : b \in After(m)
    OBVIOUS
  <2>2. Good(<<Do(a)>> \o <<Do(b)>>) /\ Elems(<<Do(a)>> \o <<Do(b)>>) = Dos({a} \union {b})
    BY <1>1, <2>1, GoodAppend
  <2> QED BY <1>2, <2>2
<1>4. {a} \union {b} = {a, b} /\ {a, b} \union {c} = {a, b, c}
  OBVIOUS
<1>5. Good(<<Do(a), Do(b), Do(c)>>) /\ Elems(<<Do(a), Do(b), Do(c)>>) = Dos({a, b} \union {c})
  <2>1. \A m \in {a, b} : c \in After(m)
    OBVIOUS
  <2>2. Elems(<<Do(a), Do(b)>>) = Dos({a, b})
    BY <1>3, <1>4
  <2>3. Good(<<Do(a), Do(b)>> \o <<Do(c)>>) /\ Elems(<<Do(a), Do(b)>> \o <<Do(c)>>) = Dos({a, b} \union {c})
    BY <1>3, <2>1, <2>2, GoodAppend
  <2> QED BY <1>2, <2>3
<1> QED BY <1>1, <1>3, <1>4, <1>5

(* Two programs one after the other.                                       *)
LEMMA GoodPrograms ==
  ASSUME NEW M, NEW N, NEW s, NEW t, Good(s), Good(t), Elems(s) = Dos(M), Elems(t) = Dos(N),
         \A m \in M, n \in N : n \in After(m)
  PROVE  Good(s \o t) /\ Elems(s \o t) = Dos(M \union N)
<1>1. \A d \in Elems(s), e \in Elems(t) : e.do \in After(d.do)
  BY DEF Dos, Do
<1>2. Dos(M \union N) = Dos(M) \union Dos(N)
  BY DEF Dos
<1> QED BY <1>1, <1>2, GoodConcat

(* The steps of install().                                                 *)
LEMMA InstallFacts == Good(InstallSteps) /\ Elems(InstallSteps) = Dos({"config", "prepare", "installed"})
<1>1. /\ {"config", "prepare", "installed"} \subseteq Names
      /\ "prepare" \in After("config") /\ "installed" \in After("config") /\ "installed" \in After("prepare")
  BY DEF Names, Setup, After
<1> QED BY <1>1, GoodThree DEF InstallSteps

(* The steps of actors_load.                                               *)
LEMMA ActorsLoadFacts == Good(ActorsLoad) /\ Elems(ActorsLoad) = Dos({"models", "actors"})
<1>1. {"models", "actors"} \subseteq Names /\ "actors" \in After("models") /\ "lookup" \in Names \intersect After("models") \intersect After("actors")
  BY DEF Names, Setup, Quiet, After
<1> QED BY <1>1, GoodThree DEF ActorsLoad

StartNames == {"toinstall", "install", "models", "actors", "author_start", "running"}

(* The steps of start().                                                   *)
LEMMA StartFacts == Good(StartSteps) /\ Elems(StartSteps) = Dos(StartNames)
<1> DEFINE s1 == <<Do("toinstall"), Do("install")>>
           s2 == <<Do("author_start"), Do("running")>>
<1>1. Good(s1) /\ Elems(s1) = Dos({"toinstall", "install"})
  <2>1. {"toinstall", "install"} \subseteq Names /\ "install" \in After("toinstall") /\ "install" \in After("install")
    BY DEF Names, Setup, After
  <2> QED BY <2>1, GoodThree
<1>2. Good(s2) /\ Elems(s2) = Dos({"author_start", "running"})
  <2>1. /\ {"author_start", "running", "saved"} \subseteq Names /\ "running" \in After("author_start")
        /\ "saved" \in After("author_start") /\ "saved" \in After("running")
    BY DEF Names, Setup, Quiet, After
  <2> QED BY <2>1, GoodThree
<1> HIDE DEF s1, s2
<1>3. Good(s1 \o ActorsLoad) /\ Elems(s1 \o ActorsLoad) = Dos({"toinstall", "install"} \union {"models", "actors"})
  <2>1. \A m \in {"toinstall", "install"}, n \in {"models", "actors"} : n \in After(m)
    BY DEF After, Setup
  <2> QED BY <1>1, <2>1, ActorsLoadFacts, GoodPrograms
<1>4. Good((s1 \o ActorsLoad) \o s2)
      /\ Elems((s1 \o ActorsLoad) \o s2) = Dos(({"toinstall", "install"} \union {"models", "actors"}) \union {"author_start", "running"})
  <2>1. \A m \in {"toinstall", "install"} \union {"models", "actors"}, n \in {"author_start", "running"} : n \in After(m)
    BY DEF After, Setup
  <2> QED BY <1>2, <1>3, <2>1, GoodPrograms
<1>5. ({"toinstall", "install"} \union {"models", "actors"}) \union {"author_start", "running"} = StartNames
  BY DEF StartNames
<1>6. StartSteps = (s1 \o ActorsLoad) \o s2
  BY DEF StartSteps, s1, s2
<1> QED BY <1>4, <1>5, <1>6

(* The steps of the start loop for one package.                            *)
LEMMA BootFacts ==
  /\ Good(InstallSteps \o <<Do("bootstart")>>)
  /\ Elems(InstallSteps \o <<Do("bootstart")>>) = Dos({"config", "prepare", "installed", "bootstart"})
  /\ Good(<<Do("bootstart")>>) /\ Elems(<<Do("bootstart")>>) = Dos({"bootstart"})
  /\ Good(StartSteps \o <<Do("saved")>>) /\ Elems(StartSteps \o <<Do("saved")>>) = Dos(StartNames \union {"saved"})
<1>1. {"bootstart", "saved"} \subseteq Names /\ \A n \in {"config", "prepare", "installed"} : "bootstart" \in After(n)
  BY DEF Names, After, Setup
<1>2. \A n \in StartNames : "saved" \in After(n)
  BY DEF After, Setup, StartNames
<1>3. {"config", "prepare", "installed"} \union {"bootstart"} = {"config", "prepare", "installed", "bootstart"}
  OBVIOUS
<1>4. Good(<<Do("bootstart")>>) /\ Elems(<<Do("bootstart")>>) = Dos({"bootstart"})
  BY <1>1, GoodOne DEF Do, StepRec, Dos
<1>5. /\ Good(InstallSteps \o <<Do("bootstart")>>)
      /\ Elems(InstallSteps \o <<Do("bootstart")>>) = Dos({"config", "prepare", "installed"} \union {"bootstart"})
  BY <1>1, InstallFacts, GoodAppend
<1>6. Good(StartSteps \o <<Do("saved")>>) /\ Elems(StartSteps \o <<Do("saved")>>) = Dos(StartNames \union {"saved"})
  BY <1>1, <1>2, StartFacts, GoodAppend
<1> QED BY <1>3, <1>4, <1>5, <1>6

(* The requests of the clients set running only after the models and the  *)
(* actors were seen to, and none begins inside a load.                     *)
LEMMA ProgramFacts ==
  ASSUME NEW op \in Ops
  PROVE  /\ Good(Program(op)) /\ Program(op) # <<>>
         /\ \A e \in Elems(Program(op)) : e.do \notin {"models_add", "file", "lookup"}
         /\ (\E e \in Elems(Program(op)) : e.do = "running") =>
               /\ \E e \in Elems(Program(op)) : e.do = "models"
               /\ \E e \in Elems(Program(op)) : e.do = "actors"
<1> DEFINE Fine(s) == \E N : Good(s) /\ Elems(s) = Dos(N) /\ N \intersect {"models_add", "file", "lookup"} = {}
                             /\ N # {} /\ ("running" \in N => {"models", "actors"} \subseteq N)
<1>1. ASSUME NEW s, Fine(s)
      PROVE  /\ Good(s) /\ s # <<>>
             /\ \A e \in Elems(s) : e.do \notin {"models_add", "file", "lookup"}
             /\ (\E e \in Elems(s) : e.do = "running") =>
                   (\E e \in Elems(s) : e.do = "models") /\ (\E e \in Elems(s) : e.do = "actors")
  <2>1. PICK N : /\ Good(s) /\ Elems(s) = Dos(N) /\ N \intersect {"models_add", "file", "lookup"} = {}
                 /\ N # {} /\ ("running" \in N => {"models", "actors"} \subseteq N)
    BY <1>1
  <2>2. \A n \in N : Do(n) \in Elems(s) /\ Do(n).do = n
    BY <2>1 DEF Dos, Do
  <2>3. \A e \in Elems(s) : \E n \in N : e = Do(n) /\ e.do = n
    BY <2>1 DEF Dos, Do
  <2>4. s # <<>>
    BY <2>1, <2>2, GoodNone
  <2>5. ASSUME \E e \in Elems(s) : e.do = "running"
        PROVE  (\E e \in Elems(s) : e.do = "models") /\ (\E e \in Elems(s) : e.do = "actors")
    <3>1. "models" \in N /\ "actors" \in N
      BY <2>1, <2>3, <2>5
    <3> QED BY <2>2, <3>1
  <2> QED BY <2>1, <2>3, <2>4, <2>5
<1>2. Fine(InstallSteps)
  BY InstallFacts
<1>3. Fine(StartSteps)
  BY StartFacts DEF StartNames
<1>4. Good(StopSteps) /\ Elems(StopSteps) = Dos({"author_stop", "tostart"})
  <2>1. /\ {"author_stop", "tostart", "disabled"} \subseteq Names /\ "tostart" \in After("author_stop")
        /\ "disabled" \in After("author_stop") /\ "disabled" \in After("tostart")
    BY DEF Names, After, Setup, Quiet
  <2> QED BY <2>1, GoodThree DEF StopSteps
<1>5. Fine(StopSteps)
  BY <1>4
<1>6. Fine(DisableSteps)
  <2>1. "disabled" \in Names /\ \A m \in {"author_stop", "tostart"} : "disabled" \in After(m)
    BY DEF Names, After, Setup, Quiet
  <2>2. Good(DisableSteps) /\ Elems(DisableSteps) = Dos({"author_stop", "tostart"} \union {"disabled"})
    BY <1>4, <2>1, GoodAppend DEF DisableSteps
  <2> QED BY <2>2
<1>7. Fine(UninstallSteps)
  <2>1. /\ {"actors_remove", "setconfig", "author_uninstall"} \subseteq Names
        /\ "setconfig" \in After("actors_remove") /\ "author_uninstall" \in After("actors_remove") /\ "author_uninstall" \in After("setconfig")
    BY DEF Names, After, Setup, Quiet
  <2> DEFINE t == <<Do("actors_remove"), Do("setconfig"), Do("author_uninstall")>>
  <2>2. Good(t) /\ Elems(t) = Dos({"actors_remove", "setconfig", "author_uninstall"})
    BY <2>1, GoodThree
  <2>3. \A m \in {"author_stop", "tostart"}, n \in {"actors_remove", "setconfig", "author_uninstall"} : n \in After(m)
    BY DEF After, Setup
  <2>4. UninstallSteps = StopSteps \o t
    BY DEF UninstallSteps
  <2> HIDE DEF t
  <2>5. Good(UninstallSteps) /\ Elems(UninstallSteps) = Dos({"author_stop", "tostart"} \union {"actors_remove", "setconfig", "author_uninstall"})
    BY <1>4, <2>2, <2>3, <2>4, GoodPrograms
  <2> QED BY <2>5
<1>8. Fine(EnableSteps)
  <2>1. Good(<<Do("init")>>) /\ Elems(<<Do("init")>>) = Dos({"init"})
    BY GoodOne DEF Do, StepRec, Dos, Names, Setup
  <2>2. \A m \in {"init"}, n \in {"config", "prepare", "installed"} : n \in After(m)
    BY DEF After, Setup
  <2>3. Good(EnableSteps) /\ Elems(EnableSteps) = Dos({"init"} \union {"config", "prepare", "installed"})
    BY <2>1, <2>2, InstallFacts, GoodPrograms DEF EnableSteps
  <2> QED BY <2>3
<1>9. Fine(ReloadSteps)
  <2>1. "chatflows" \in Names /\ \A m \in {"models", "actors"} : "chatflows" \in After(m)
    BY DEF Names, After, Setup, Quiet
  <2>2. Good(ReloadSteps) /\ Elems(ReloadSteps) = Dos({"models", "actors"} \union {"chatflows"})
    BY <2>1, ActorsLoadFacts, GoodAppend DEF ReloadSteps
  <2> QED BY <2>2
<1>10. Fine(Program(op))
  <2>1. op \in {"install", "start", "stop", "uninstall", "disable", "enable", "reload"}
    BY PackagesAssumption
  <2> HIDE DEF Fine
  <2> QED BY <1>2, <1>3, <1>5, <1>6, <1>7, <1>8, <1>9, <2>1 DEF Program
<1> QED BY <1>1, <1>10

(* The steps of reload().                                                  *)
LEMMA ReloadFacts == Good(ReloadSteps) /\ Elems(ReloadSteps) = Dos({"models", "actors", "chatflows"})
<1>1. "chatflows" \in Names /\ \A m \in {"models", "actors"} : "chatflows" \in After(m)
  BY DEF Names, After, Setup, Quiet
<1>2. Good(ReloadSteps) /\ Elems(ReloadSteps) = Dos({"models", "actors"} \union {"chatflows"})
  BY <1>1, ActorsLoadFacts, GoodAppend DEF ReloadSteps
<1>3. {"models", "actors"} \union {"chatflows"} = {"models", "actors", "chatflows"}
  OBVIOUS
<1> QED BY <1>2, <1>3

(* What a command makes the server do.                                     *)
LEMMA CallFacts ==
  ASSUME NEW f \in Files
  PROVE  LET s == <<Do("models"), Do("actors_get"), [do |-> "lookup", file |-> f]>> IN
         /\ Good(s) /\ s # <<>>
         /\ \A e \in Elems(s) : e.do \in {"models", "actors_get"} \/ e = [do |-> "lookup", file |-> f]
<1> DEFINE l == [do |-> "lookup", file |-> f]
           m == <<Do("models"), Do("actors_get")>>
<1>1. Good(m) /\ Elems(m) = Dos({"models", "actors_get"})
  <2>1. {"models", "actors_get", "lookup"} \subseteq Names /\ "actors_get" \in After("models")
        /\ "lookup" \in After("models") /\ "lookup" \in After("actors_get")
    BY DEF Names, Quiet, After, Setup
  <2> QED BY <2>1, GoodThree
<1>2. Good(<<l>>) /\ Elems(<<l>>) = {l}
  BY GoodOne DEF StepRec, Names, Quiet
<1>3. <<Do("models"), Do("actors_get"), l>> = m \o <<l>>
  OBVIOUS
<1> HIDE DEF m
<1>4. \A e \in Dos({"models", "actors_get"}) : e.do \in {"models", "actors_get"}
  BY DEF Dos, Do
<1>5. \A d \in Elems(m), e \in Elems(<<l>>) : e.do \in After(d.do)
  BY <1>1, <1>2, <1>4 DEF After, Setup
<1>6. Good(m \o <<l>>) /\ Elems(m \o <<l>>) = Dos({"models", "actors_get"}) \union {l}
  BY <1>1, <1>2, <1>5, GoodConcat
<1>7. m \o <<l>> # <<>>
  BY <1>6, GoodNone
<1> QED BY <1>3, <1>4, <1>6, <1>7

(* What walking the actors directory makes the server do.                  *)
LEMMA LoadFacts ==
  ASSUME NEW p \in Pkgs
  PROVE  LET s == [i \in DOMAIN Steps(p) |-> Load(Steps(p)[i])] IN
         Good(s) /\ Elems(s) = {Load(f) : f \in AllFiles(p)}
<1> DEFINE s == [i \in DOMAIN Steps(p) |-> Load(Steps(p)[i])]
<1>1. Steps(p) \in Seq(AllFiles(p)) /\ \A f \in AllFiles(p) : \E i \in DOMAIN Steps(p) : Steps(p)[i] = f
  BY StepsFacts
<1>2. DOMAIN Steps(p) = 1..Len(Steps(p)) /\ Len(Steps(p)) \in Nat /\ \A i \in DOMAIN Steps(p) : Steps(p)[i] \in AllFiles(p)
  BY <1>1
<1>3. \A f \in AllFiles(p) : Load(f) \in StepRec /\ Load(f).do = "file"
  BY PackagesAssumption DEF Load, StepRec, Names, Quiet, AllFiles
<1>4. s \in Seq(StepRec)
  BY <1>2, <1>3
<1>5. Sorted(s)
  <2>1. \A i \in DOMAIN s : s[i].do = "file"
    BY <1>2, <1>3
  <2>2. "file" \in After("file")
    BY DEF After, Setup
  <2> QED BY <2>1, <2>2 DEF Sorted
<1>6. Elems(s) = {Load(f) : f \in AllFiles(p)}
  BY <1>1, <1>2 DEF Elems
<1> QED BY <1>4, <1>5, <1>6 DEF Good

-----------------------------------------------------------------------------
(* Steps of requests.                                                      *)

(* A request has steps left exactly while its greenlet is busy.            *)
LEMMA BusyLeft == TodoInv => \A g \in Greenlets : Busy(g) <=> Left(g) # {}
<1> SUFFICES ASSUME TodoInv, NEW g \in Greenlets PROVE Busy(g) <=> Left(g) # {}
  OBVIOUS
<1>1. todo[g] \in Seq(StepRec)
  BY DEF TodoInv
<1>2. todo[g] # <<>> => Left(g) # {}
  BY <1>1, TailElems DEF Left
<1> QED BY <1>2, GoodNone DEF Left, Busy

(* The same after a step.                                                  *)
LEMMA BusyNext == TodoInv' => \A g \in Greenlets : Busy(g)' <=> Left(g)' # {}
<1>1. (TodoInv => \A g \in Greenlets : Busy(g) <=> Left(g) # {})'
  BY BusyLeft, PTL
<1> QED BY <1>1

(* The next step and what can follow it.                                   *)
LEMMA NextStep ==
  ASSUME TodoInv, NEW g \in Greenlets, NEW n, At(g, n)
  PROVE  /\ n \in Names /\ Head(todo[g]).do = n /\ Head(todo[g]) \in StepRec /\ Head(todo[g]) \in Left(g)
         /\ Left(g) = {Head(todo[g])} \union Rest(g) /\ Left(g) # {}
         /\ \A e \in Rest(g) : e.do \in After(n)
         /\ Good(Tail(todo[g])) /\ Has(g, n)
<1>1. todo[g] \in Seq(StepRec) /\ todo[g] # <<>> /\ Sorted(todo[g]) /\ Head(todo[g]).do = n
  BY DEF TodoInv, At, Busy
<1>2. Head(todo[g]) \in StepRec /\ Head(todo[g]) \in Left(g) /\ Left(g) = {Head(todo[g])} \union Rest(g)
  BY <1>1, TailElems DEF Left, Rest
<1>3. Sorted(Tail(todo[g])) /\ (\A e \in Rest(g) : e.do \in After(n)) /\ Tail(todo[g]) \in Seq(StepRec)
  BY <1>1, SortedTail, TailElems DEF Rest
<1> QED BY <1>1, <1>2, <1>3 DEF StepRec, Good, Has

(* A greenlet with nothing left has no step of any name left.              *)
LEMMA HasLeft ==
  ASSUME TodoInv, NEW g \in Greenlets, NEW n, Has(g, n)
  PROVE  Busy(g) /\ Left(g) # {}
  BY BusyLeft DEF Has

(* A greenlet gets another sequence of steps.                              *)
LEMMA NewLeft ==
  ASSUME TodoInv, NEW g \in Greenlets, NEW s, Good(s), todo' = [todo EXCEPT ![g] = s],
         \A h \in Greenlets \ {g} : pkg'[h] = pkg[h],
         \A e \in Elems(s) : e.do \in {"file", "lookup"} => e.file \in AllFiles(pkg'[g])
  PROVE  TodoInv' /\ Left(g)' = Elems(s) /\ \A h \in Greenlets \ {g} : Left(h)' = Left(h)
<1>1. todo \in [Greenlets -> Seq(StepRec)] /\ s \in Seq(StepRec) /\ Sorted(s)
  BY DEF TodoInv, Good
<1>2. todo' \in [Greenlets -> Seq(StepRec)] /\ todo'[g] = s /\ \A h \in Greenlets \ {g} : todo'[h] = todo[h]
  BY <1>1
<1>3. Left(g)' = Elems(s) /\ \A h \in Greenlets \ {g} : Left(h)' = Left(h)
  BY <1>2 DEF Left
<1>4. ASSUME NEW h \in Greenlets
      PROVE  Sorted(todo'[h]) /\ \A e \in Left(h)' : e.do \in {"file", "lookup"} => e.file \in AllFiles(pkg'[h])
  <2>1. CASE h = g
    BY <1>1, <1>2, <1>3, <2>1
  <2>2. CASE h # g
    BY <1>2, <1>3, <2>2 DEF TodoInv
  <2> QED BY <2>1, <2>2
<1>5. TodoInv'
  BY <1>2, <1>4 DEF TodoInv, AllFiles
<1> QED BY <1>3, <1>5

(* A step is replaced by good steps.                                       *)
LEMMA PushLeft ==
  ASSUME TodoInv, NEW g \in Greenlets, NEW n, At(g, n), NEW w, Good(w), Push(g, w), pkg' = pkg,
         \A d \in Elems(w), e \in Rest(g) : e.do \in After(d.do),
         \A e \in Elems(w) : e.do \in {"file", "lookup"} => e.file \in AllFiles(pkg[g])
  PROVE  TodoInv' /\ Left(g)' = Elems(w) \union Rest(g) /\ \A h \in Greenlets \ {g} : Left(h)' = Left(h)
<1> DEFINE s == w \o Tail(todo[g])
<1>1. Good(s) /\ Elems(s) = Elems(w) \union Rest(g)
  BY NextStep, GoodConcat DEF Rest
<1>2. todo' = [todo EXCEPT ![g] = s]
  BY DEF Push
<1>3. \A e \in Rest(g) : e.do \in {"file", "lookup"} => e.file \in AllFiles(pkg[g])
  BY NextStep DEF TodoInv
<1> HIDE DEF s
<1> QED BY <1>1, <1>2, <1>3, NewLeft

(* A step is done.                                                         *)
LEMMA PopLeft ==
  ASSUME TodoInv, NEW g \in Greenlets, NEW n, At(g, n), Next1(g) \/ Push(g, <<>>), pkg' = pkg
  PROVE  TodoInv' /\ Left(g)' = Rest(g) /\ \A h \in Greenlets \ {g} : Left(h)' = Left(h)
<1>1. Good(Tail(todo[g])) /\ Elems(Tail(todo[g])) = Rest(g)
  BY NextStep DEF Rest
<1>2. <<>> \o Tail(todo[g]) = Tail(todo[g])
  BY <1>1 DEF Good
<1>3. todo' = [todo EXCEPT ![g] = Tail(todo[g])]
  BY <1>2 DEF Next1, Push
<1>4. \A e \in Rest(g) : e.do \in {"file", "lookup"} => e.file \in AllFiles(pkg[g])
  BY NextStep DEF TodoInv
<1> QED BY <1>1, <1>3, <1>4, NewLeft

(* An exception ends the request.                                          *)
LEMMA DropLeft ==
  ASSUME TodoInv, NEW g \in Greenlets, Abort(g)
  PROVE  TodoInv' /\ Left(g)' = {} /\ (\A h \in Greenlets \ {g} : Left(h)' = Left(h)) /\ pkg' = pkg
<1>1. todo' = [todo EXCEPT ![g] = <<>>] /\ pkg' = pkg
  BY DEF Abort
<1> QED BY <1>1, GoodNone, NewLeft

(* Steps that can raise, and a step that does.                             *)
Raising == {"prepare", "author_start", "author_stop", "author_uninstall", "models_add", "file", "actors_remove", "chatflows"}
Raises(g, n) == n \in Raising /\ Abort(g)

(* What a step does to what is left of the request, by its name n.         *)
Effect(g, n) ==
    \/ Raises(g, n) /\ Left(g)' = {}
    \/ /\ UNCHANGED <<phase, pending>>
       /\ \/ /\ Left(g)' = Rest(g)
             /\ n = "bootstart" => status[P(g)] \notin {"tostart", "installed", "error"}
             /\ n = "models" => models[P(g)] # "none"
             /\ n = "actors" => ver[P(g)] \in changes[P(g)]
          \/ n \in {"toinstall", "install"} /\ Left(g)' = Dos({"config", "prepare", "installed"}) \union Rest(g)
          \/ /\ n = "bootstart" /\ status[P(g)] \in {"tostart", "installed", "error"}
             /\ Left(g)' = Dos(StartNames \union {"saved"}) \union Rest(g)
          \/ n = "models" /\ models[P(g)] = "none" /\ Left(g)' = {Do("models_add")} \union Rest(g)
          \/ n = "actors_get" /\ Left(g)' = Dos({"models", "actors", "chatflows"}) \union Rest(g)
          \/ n = "actors" /\ Left(g)' = {Load(f) : f \in AllFiles(P(g))} \union Rest(g)

(* Every step has a name and such an effect, on its own greenlet only.     *)
LEMMA StepLeft ==
  ASSUME TodoInv, TypeInv, NEW g \in Greenlets, Step(g)
  PROVE  /\ TodoInv' /\ pkg' = pkg /\ (\A h \in Greenlets \ {g} : Left(h)' = Left(h))
         /\ \E n \in Names : At(g, n) /\ Effect(g, n)
<1>0. ASSUME NEW n, At(g, n) PROVE n \in Names /\ P(g) \in Pkgs
  BY <1>0, NextStep DEF At, TypeInv, TypeOK, P
<1>1. ASSUME NEW n, At(g, n), Next1(g) \/ Push(g, <<>>), pkg' = pkg, UNCHANGED <<phase, pending>>,
             n = "bootstart" => status[P(g)] \notin {"tostart", "installed", "error"},
             n = "models" => models[P(g)] # "none",
             n = "actors" => ver[P(g)] \in changes[P(g)]
      PROVE  /\ TodoInv' /\ pkg' = pkg /\ (\A h \in Greenlets \ {g} : Left(h)' = Left(h))
             /\ \E m \in Names : At(g, m) /\ Effect(g, m)
  BY <1>0, <1>1, PopLeft DEF Effect
<1>2. ASSUME NEW n \in Raising, At(g, n), Abort(g)
      PROVE  /\ TodoInv' /\ pkg' = pkg /\ (\A h \in Greenlets \ {g} : Left(h)' = Left(h))
             /\ \E m \in Names : At(g, m) /\ Effect(g, m)
  BY <1>0, <1>2, DropLeft DEF Effect, Raises
<1>3. CASE BootStart(g)
  <2>1. At(g, "bootstart") /\ pkg' = pkg /\ UNCHANGED <<phase, pending>>
    BY <1>3 DEF BootStart, Plain
  <2>2. CASE status[P(g)] \in {"tostart", "installed", "error"}
    <3>1. Push(g, StartSteps \o <<Do("saved")>>)
      BY <1>3, <2>2 DEF BootStart
    <3>2. Rest(g) = {}
      BY <2>1, NextStep DEF After, Setup
    <3>3. \A e \in Dos(StartNames \union {"saved"}) : e.do \notin {"file", "lookup"}
      BY DEF Dos, Do, StartNames
    <3>4. TodoInv' /\ Left(g)' = Dos(StartNames \union {"saved"}) \union Rest(g) /\ \A h \in Greenlets \ {g} : Left(h)' = Left(h)
      BY <2>1, <3>1, <3>2, <3>3, BootFacts, PushLeft
    <3> QED BY <1>0, <2>1, <2>2, <3>4 DEF Effect
  <2>3. CASE status[P(g)] \notin {"tostart", "installed", "error"}
    BY <1>1, <1>3, <2>1, <2>3 DEF BootStart
  <2> QED BY <2>2, <2>3
<1>4. CASE MayInstall(g)
  <2>1. PICK n \in {"toinstall", "install"} : At(g, n) /\ (Push(g, InstallSteps) \/ Push(g, <<>>))
    BY <1>4 DEF MayInstall
  <2>2. pkg' = pkg /\ UNCHANGED <<phase, pending>>
    BY <1>4 DEF MayInstall, Plain
  <2>3. CASE Push(g, InstallSteps)
    <3>1. \A d \in Dos({"config", "prepare", "installed"}), e \in Rest(g) : e.do \in After(d.do)
      BY <2>1, NextStep DEF After, Setup, Dos, Do
    <3>2. \A e \in Dos({"config", "prepare", "installed"}) : e.do \notin {"file", "lookup"}
      BY DEF Dos, Do
    <3>3. TodoInv' /\ Left(g)' = Dos({"config", "prepare", "installed"}) \union Rest(g) /\ \A h \in Greenlets \ {g} : Left(h)' = Left(h)
      BY <2>1, <2>2, <2>3, <3>1, <3>2, InstallFacts, PushLeft
    <3> QED BY <1>0, <2>1, <2>2, <3>3 DEF Effect
  <2> QED BY <1>1, <2>1, <2>2, <2>3
<1>5. CASE Models(g)
  <2>1. At(g, "models") /\ pkg' = pkg /\ UNCHANGED <<phase, pending>>
    BY <1>5 DEF Models, Plain
  <2>2. CASE models[P(g)] = "none"
    <3>1. Push(g, <<Do("models_add")>>)
      BY <1>5, <2>2 DEF Models
    <3>2. Good(<<Do("models_add")>>) /\ Elems(<<Do("models_add")>>) = {Do("models_add")}
      BY GoodOne DEF Do, StepRec, Names, Quiet
    <3>3. \A d \in {Do("models_add")}, e \in Rest(g) : e.do \in After(d.do)
      BY <2>1, NextStep DEF After, Setup, Do
    <3>4. TodoInv' /\ Left(g)' = {Do("models_add")} \union Rest(g) /\ \A h \in Greenlets \ {g} : Left(h)' = Left(h)
      BY <2>1, <3>1, <3>2, <3>3, PushLeft DEF Do
    <3> QED BY <1>0, <2>1, <2>2, <3>4 DEF Effect
  <2>3. CASE models[P(g)] # "none"
    BY <1>1, <1>5, <2>1, <2>3 DEF Models
  <2> QED BY <2>2, <2>3
<1>6. CASE Actors(g)
  <2>1. At(g, "actors") /\ pkg' = pkg /\ UNCHANGED <<phase, pending>>
    BY <1>6 DEF Actors, Plain
  <2>2. CASE ver[P(g)] \in changes[P(g)]
    BY <1>1, <1>6, <2>1, <2>2 DEF Actors
  <2>3. CASE ver[P(g)] \notin changes[P(g)]
    <3> DEFINE s == [i \in DOMAIN Steps(P(g)) |-> Load(Steps(P(g))[i])]
    <3>1. Push(g, s)
      BY <1>6, <2>3 DEF Actors
    <3>2. Good(s) /\ Elems(s) = {Load(f) : f \in AllFiles(P(g))}
      BY <1>0, <2>1, LoadFacts
    <3> HIDE DEF s
    <3>3. \A d \in {Load(f) : f \in AllFiles(P(g))}, e \in Rest(g) : e.do \in After(d.do)
      BY <2>1, NextStep DEF After, Setup, Load
    <3>4. \A e \in {Load(f) : f \in AllFiles(P(g))} : e.file \in AllFiles(pkg[g])
      BY DEF Load, P
    <3>5. TodoInv' /\ Left(g)' = {Load(f) : f \in AllFiles(P(g))} \union Rest(g) /\ \A h \in Greenlets \ {g} : Left(h)' = Left(h)
      BY <2>1, <3>1, <3>2, <3>3, <3>4, PushLeft
    <3> QED BY <1>0, <2>1, <3>5 DEF Effect
  <2> QED BY <2>2, <2>3
<1>7. CASE Saved(g) \/ Config(g) \/ Running(g) \/ ToStart(g) \/ Disabled(g) \/ Lookup(g)
  BY <1>1, <1>7 DEF Saved, Config, Running, ToStart, Disabled, Lookup, Plain
<1>8. CASE SetStatus(g, "installed", "installed") \/ SetStatus(g, "setconfig", "config") \/ SetStatus(g, "init", "init")
  BY <1>1, <1>8 DEF SetStatus, Plain
<1>14. CASE ActorsGet(g)
  <2>1. At(g, "actors_get") /\ pkg' = pkg /\ UNCHANGED <<phase, pending>> /\ (Push(g, ReloadSteps) \/ Push(g, <<>>))
    BY <1>14 DEF ActorsGet, Plain
  <2>2. CASE Push(g, ReloadSteps)
    <3>1. \A d \in Dos({"models", "actors", "chatflows"}), e \in Rest(g) : e.do \in After(d.do)
      BY <2>1, NextStep DEF After, Setup, Dos, Do
    <3>2. \A e \in Dos({"models", "actors", "chatflows"}) : e.do \notin {"file", "lookup"}
      BY DEF Dos, Do
    <3>3. TodoInv' /\ Left(g)' = Dos({"models", "actors", "chatflows"}) \union Rest(g) /\ \A h \in Greenlets \ {g} : Left(h)' = Left(h)
      BY <2>1, <2>2, <3>1, <3>2, ReloadFacts, PushLeft
    <3> QED BY <1>0, <2>1, <3>3 DEF Effect
  <2> QED BY <1>1, <2>1, <2>2
<1>9. CASE Author(g)
  BY <1>1, <1>2, <1>9 DEF Author, Raise, Raising
<1>10. CASE ModelsAdd(g)
  BY <1>1, <1>2, <1>10 DEF ModelsAdd, Raise, Raising
<1>11. CASE LoadFile(g)
  BY <1>1, <1>2, <1>11 DEF LoadFile, Raise, Raising
<1>12. CASE ActorsRemove(g)
  BY <1>1, <1>2, <1>12 DEF ActorsRemove, Raise, Raising
<1>13. CASE Chatflows(g)
  BY <1>1, <1>2, <1>13 DEF Chatflows, Raise, Raising
<1> QED BY <1>3, <1>4, <1>5, <1>6, <1>7, <1>8, <1>9, <1>10, <1>11, <1>12, <1>13, <1>14 DEF Step

(* The name of the next step says which action it is.                      *)
LEMMA StepIs ==
  ASSUME NEW g \in Greenlets, NEW n, At(g, n), Step(g)
  PROVE  /\ n = "bootstart" => BootStart(g)
         /\ n = "saved" => Saved(g)
         /\ n \in {"toinstall", "install"} => MayInstall(g)
         /\ n = "config" => Config(g)
         /\ n \in {"prepare", "author_start", "author_stop", "author_uninstall"} => Author(g)
         /\ n = "models" => Models(g)
         /\ n = "models_add" => ModelsAdd(g)
         /\ n = "actors" => Actors(g)
         /\ n = "actors_get" => ActorsGet(g)
         /\ n = "file" => LoadFile(g)
         /\ n = "running" => Running(g)
         /\ n = "tostart" => ToStart(g)
         /\ n = "disabled" => Disabled(g)
         /\ n = "actors_remove" => ActorsRemove(g)
         /\ n = "chatflows" => Chatflows(g)
         /\ n = "lookup" => Lookup(g)
         /\ n = "installed" => SetStatus(g, "installed", "installed")
         /\ n = "setconfig" => SetStatus(g, "setconfig", "config")
         /\ n = "init" => SetStatus(g, "init", "init")
<1>1. \A m : At(g, m) => m = n
  BY DEF At
<1>2. CASE BootStart(g) \/ Saved(g) \/ MayInstall(g) \/ Config(g) \/ Author(g) \/ Models(g)
  BY <1>1, <1>2 DEF BootStart, Saved, MayInstall, Config, Author, Models
<1>3. CASE ModelsAdd(g) \/ Actors(g) \/ LoadFile(g) \/ Running(g) \/ ToStart(g) \/ Disabled(g)
  BY <1>1, <1>3 DEF ModelsAdd, Actors, LoadFile, Running, ToStart, Disabled
<1>4. CASE ActorsGet(g) \/ ActorsRemove(g) \/ Chatflows(g) \/ Lookup(g)
  BY <1>1, <1>4 DEF ActorsGet, ActorsRemove, Chatflows, Lookup
<1>5. CASE SetStatus(g, "installed", "installed") \/ SetStatus(g, "setconfig", "config") \/ SetStatus(g, "init", "init")
  BY <1>1, <1>5 DEF SetStatus
<1> QED BY <1>2, <1>3, <1>4, <1>5 DEF Step

(* What the steps leave alone.                                             *)
LEMMA StepKeeps ==
  ASSUME NEW g \in Greenlets, NEW n, At(g, n), Step(g)
  PROVE  /\ UNCHANGED <<ver, reverted, overlap>>
         /\ Raises(g, n) \/ n \in {"installed", "setconfig", "init", "config", "tostart", "disabled"} \/ status' = status
         /\ n \in {"running", "tostart"} \/ running' = running
         /\ n \in {"models", "models_add"} \/ models' = models
         /\ n = "actors" \/ changes' = changes
         /\ n \in {"file", "actors_remove"} \/ UNCHANGED <<loaded, meta, spoiled>>
         /\ n \in {"actors", "file", "actors_remove"} \/ actors' = actors
         /\ n = "lookup" \/ cmds' = cmds
         /\ n = "disabled" \/ off' = off
<1>1. \A m : At(g, m) => m = n
  BY DEF At
<1> USE DEF persistent, registry, history, bounds, Plain, Raise, Raises, Raising
<1>2. CASE BootStart(g) \/ Saved(g) \/ MayInstall(g) \/ Config(g) \/ ActorsGet(g)
  BY <1>1, <1>2 DEF BootStart, Saved, MayInstall, Config, ActorsGet
<1>3. CASE Author(g) \/ Chatflows(g)
  BY <1>1, <1>3 DEF Author, Chatflows
<1>4. CASE Models(g)
  BY <1>1, <1>4 DEF Models
<1>5. CASE ModelsAdd(g)
  BY <1>1, <1>5 DEF ModelsAdd
<1>6. CASE Actors(g)
  BY <1>1, <1>6 DEF Actors
<1>7. CASE LoadFile(g)
  <2>1. At(g, "file") /\ UNCHANGED <<ver, running, models, changes, cmds, off, reverted, overlap>> /\ (status' = status \/ Abort(g))
    BY <1>7 DEF LoadFile
  <2> QED BY <1>1, <2>1
<1>8. CASE Running(g) \/ Lookup(g)
  BY <1>1, <1>8 DEF Running, Lookup
<1>9. CASE ToStart(g) \/ Disabled(g)
  BY <1>1, <1>9 DEF ToStart, Disabled
<1>10. CASE ActorsRemove(g)
  <2>1. At(g, "actors_remove") /\ UNCHANGED <<ver, running, models, changes, cmds, off, reverted, overlap>> /\ (status' = status \/ Abort(g))
    BY <1>10 DEF ActorsRemove
  <2> QED BY <1>1, <2>1
<1>11. CASE SetStatus(g, "installed", "installed") \/ SetStatus(g, "setconfig", "config") \/ SetStatus(g, "init", "init")
  BY <1>1, <1>11 DEF SetStatus
<1> QED BY <1>2, <1>3, <1>4, <1>5, <1>6, <1>7, <1>8, <1>9, <1>10, <1>11 DEF Step

-----------------------------------------------------------------------------
(* The other actions.                                                      *)

(* A process that has just started.                                        *)
LEMMA FreshFacts ==
  ASSUME Fresh
  PROVE  /\ TodoInv' /\ (\A g \in Greenlets : ~Busy(g)' /\ Left(g)' = {})
         /\ \A p \in Pkgs : running'[p] = FALSE /\ models'[p] = "none" /\ changes'[p] = {} /\ actors'[p] = None
         /\ loaded' = {} /\ meta' = {} /\ cmds' = {} /\ pending' = {} /\ spoiled' = {} /\ reverted' = {} /\ overlap' = {}
<1>1. \A g \in Greenlets : todo'[g] = <<>>
  BY DEF Fresh
<1>2. \A g \in Greenlets : ~Busy(g)' /\ Left(g)' = {}
  BY <1>1, GoodNone DEF Busy, Left
<1>3. TodoInv'
  <2>1. todo' \in [Greenlets -> Seq(StepRec)]
    <3>1. <<>> \in Seq(StepRec)
      OBVIOUS
    <3> QED BY <3>1 DEF Fresh
  <2>2. \A g \in Greenlets : Sorted(todo'[g])
    BY <1>1, GoodNone DEF Good
  <2> QED BY <1>2, <2>1, <2>2 DEF TodoInv
<1> QED BY <1>2, <1>3 DEF Fresh

(* The start loop takes a package.                                         *)
LEMMA BootNextLeft ==
  ASSUME TodoInv, TypeInv, NEW p \in Pkgs, BootNext(p)
  PROVE  /\ TodoInv' /\ (\A h \in Greenlets \ {Boot} : Left(h)' = Left(h) /\ pkg'[h] = pkg[h])
         /\ Left(Boot) = {} /\ pkg'[Boot] = p
         /\ status[p] = "toinstall" => Left(Boot)' = Dos({"config", "prepare", "installed", "bootstart"})
         /\ status[p] # "toinstall" => Left(Boot)' = Dos({"bootstart"})
<1> DEFINE s == (IF status[p] = "toinstall" THEN InstallSteps ELSE <<>>) \o <<Do("bootstart")>>
<1>1. todo' = [todo EXCEPT ![Boot] = s] /\ pkg' = [pkg EXCEPT ![Boot] = p] /\ ~Busy(Boot) /\ Boot \in Greenlets
  BY DEF BootNext, Greenlets
<1>2. pkg'[Boot] = p /\ \A h \in Greenlets \ {Boot} : pkg'[h] = pkg[h]
  BY <1>1 DEF TypeInv, TypeOK
<1>3. Good(s) /\ (status[p] = "toinstall" => Elems(s) = Dos({"config", "prepare", "installed", "bootstart"}))
              /\ (status[p] # "toinstall" => Elems(s) = Dos({"bootstart"}))
  <2>1. <<>> \o <<Do("bootstart")>> = <<Do("bootstart")>>
    OBVIOUS
  <2> QED BY <2>1, BootFacts
<1> HIDE DEF s
<1>4. \A e \in Elems(s) : e.do \notin {"file", "lookup"}
  BY <1>3 DEF Dos, Do
<1>5. TodoInv' /\ Left(Boot)' = Elems(s) /\ \A h \in Greenlets \ {Boot} : Left(h)' = Left(h)
  BY <1>1, <1>2, <1>3, <1>4, NewLeft
<1>6. Left(Boot) = {}
  BY <1>1, BusyLeft
<1> QED BY <1>2, <1>3, <1>5, <1>6

(* A client asks for an operation.                                         *)
LEMMA RequestLeft ==
  ASSUME TodoInv, TypeInv, NEW c \in Clients, NEW p \in Pkgs, NEW op \in Ops, Request(c, p, op)
  PROVE  /\ TodoInv' /\ (\A h \in Greenlets \ {c} : Left(h)' = Left(h) /\ pkg'[h] = pkg[h])
         /\ Left(c) = {} /\ pkg'[c] = p /\ c \in Greenlets
         /\ \A e \in Left(c)' : e.do \notin {"models_add", "file", "lookup"}
         /\ Has(c, "running")' => Has(c, "models")' /\ Has(c, "actors")'
<1>1. todo' = [todo EXCEPT ![c] = Program(op)] /\ pkg' = [pkg EXCEPT ![c] = p] /\ ~Busy(c) /\ c \in Greenlets
  BY DEF Request, Greenlets
<1>2. pkg'[c] = p /\ \A h \in Greenlets \ {c} : pkg'[h] = pkg[h]
  BY <1>1 DEF TypeInv, TypeOK
<1>3. Good(Program(op)) /\ \A e \in Elems(Program(op)) : e.do \notin {"models_add", "file", "lookup"}
  BY ProgramFacts
<1>4. TodoInv' /\ Left(c)' = Elems(Program(op)) /\ \A h \in Greenlets \ {c} : Left(h)' = Left(h)
  BY <1>1, <1>2, <1>3, NewLeft
<1>5. Left(c) = {}
  BY <1>1, BusyLeft
<1>6. Has(c, "running")' => Has(c, "models")' /\ Has(c, "actors")'
  BY <1>4, ProgramFacts DEF Has
<1> QED BY <1>1, <1>2, <1>3, <1>4, <1>5, <1>6

(* A client sends a command.                                               *)
LEMMA CallLeft ==
  ASSUME TodoInv, TypeInv, NEW c \in Clients, NEW p \in Pkgs, NEW f \in Files, Call(c, p, f)
  PROVE  /\ TodoInv' /\ (\A h \in Greenlets \ {c} : Left(h)' = Left(h) /\ pkg'[h] = pkg[h])
         /\ Left(c) = {} /\ pkg'[c] = p /\ c \in Greenlets
         /\ \A e \in Left(c)' : e.do \in {"models", "actors_get", "lookup"}
<1> DEFINE s == <<Do("models"), Do("actors_get"), [do |-> "lookup", file |-> f]>>
<1>1. todo' = [todo EXCEPT ![c] = s] /\ pkg' = [pkg EXCEPT ![c] = p] /\ ~Busy(c) /\ c \in Greenlets /\ f \in AllFiles(p)
  BY DEF Call, Greenlets
<1>2. pkg'[c] = p /\ \A h \in Greenlets \ {c} : pkg'[h] = pkg[h]
  BY <1>1 DEF TypeInv, TypeOK
<1>3. Good(s) /\ \A e \in Elems(s) : e.do \in {"models", "actors_get"} \/ e = [do |-> "lookup", file |-> f]
  BY CallFacts
<1> HIDE DEF s
<1>4. \A e \in Elems(s) : e.do \in {"file", "lookup"} => e.file \in AllFiles(pkg'[c])
  BY <1>1, <1>2, <1>3
<1>5. TodoInv' /\ Left(c)' = Elems(s) /\ \A h \in Greenlets \ {c} : Left(h)' = Left(h)
  BY <1>1, <1>2, <1>3, <1>4, NewLeft
<1>6. Left(c) = {}
  BY <1>1, BusyLeft
<1>7. \A e \in Elems(s) : e.do \in {"models", "actors_get", "lookup"}
  BY <1>3
<1> QED BY <1>1, <1>2, <1>5, <1>6, <1>7

-----------------------------------------------------------------------------
(* The requests stay well-formed and the state well-typed.                 *)

(* The edits of a package's files, the end of the boot and its begin leave *)
(* every request as it is.                                                 *)
LEMMA TodoKept ==
  ASSUME TodoInv, UNCHANGED <<todo, pkg>>
  PROVE  TodoInv' /\ \A g \in Greenlets : Left(g)' = Left(g) /\ (Busy(g)' <=> Busy(g))
<1>1. \A g \in Greenlets : Left(g)' = Left(g) /\ (Busy(g)' <=> Busy(g))
  BY DEF Left, Busy
<1>2. TodoInv'
  BY <1>1 DEF TodoInv, AllFiles
<1> QED BY <1>1, <1>2

(* What every action does to the requests.                                 *)
LEMMA TodoStep == TodoInv /\ TypeInv /\ [Next]_vars => TodoInv'
<1> SUFFICES ASSUME TodoInv, TypeInv, [Next]_vars PROVE TodoInv'
  OBVIOUS
<1>1. CASE UNCHANGED vars
  BY <1>1, TodoKept DEF vars
<1>2. CASE Crash \/ Die
  BY <1>2, FreshFacts DEF Crash, Die
<1>3. CASE Start \/ BootDone \/ \E p \in Pkgs : Edit(p)
  BY <1>3, TodoKept DEF Start, BootDone, Edit
<1>4. ASSUME NEW p \in Pkgs, BootNext(p) PROVE TodoInv'
  BY <1>4, BootNextLeft
<1>5. ASSUME NEW c \in Clients, NEW p \in Pkgs, NEW op \in Ops, Request(c, p, op) PROVE TodoInv'
  BY <1>5, RequestLeft
<1>6. ASSUME NEW c \in Clients, NEW p \in Pkgs, NEW f \in Files, Call(c, p, f) PROVE TodoInv'
  BY <1>6, CallLeft
<1>7. ASSUME NEW g \in Greenlets, Step(g) PROVE TodoInv'
  BY <1>7, StepLeft
<1> QED BY <1>1, <1>2, <1>3, <1>4, <1>5, <1>6, <1>7 DEF Next

(* The types of what a step of a request changes.                          *)
LEMMA TypeStepOf ==
  ASSUME TodoInv, TypeInv, NEW g \in Greenlets, Step(g)
  PROVE  TypeInv'
<1>1. PICK n \in Names : At(g, n) /\ Effect(g, n)
  BY StepLeft
<1>2. TodoInv' /\ pkg' = pkg /\ (\A h \in Greenlets \ {g} : Left(h)' = Left(h)) /\ P(g) \in Pkgs
  BY <1>1, StepLeft DEF TypeInv, TypeOK, At, P
<1>3. \A h \in Greenlets : Busy(h)' => pkg'[h] \in Pkgs
  <2>1. \A h \in Greenlets \ {g} : Busy(h)' <=> Busy(h)
    BY <1>2, BusyLeft, BusyNext
  <2> QED BY <1>2, <2>1 DEF TypeInv, TypeOK, P
<1>t. TypeOK /\ actors \in [Pkgs -> {None} \union SUBSET Files] /\ off \subseteq Pkgs
  BY DEF TypeInv
<1>4. status' \in [Pkgs -> Status] /\ phase' \in {"down", "booting", "dying", "up"} /\ pending' \subseteq Pkgs
  <2>1. CASE Raises(g, n)
    <3>1. pending' = pending /\ (status' = status \/ status' = [status EXCEPT ![P(g)] = "error"])
          /\ (phase' = phase \/ phase' = "dying")
      BY <2>1 DEF Abort, Raises
    <3> QED BY <1>t, <3>1 DEF TypeOK, Status
  <2>2. CASE ~Raises(g, n)
    <3>1. phase' = phase /\ pending' = pending
      BY <1>1, <2>2 DEF Effect
    <3>2. status' = status \/ \E s \in Status : status' = [status EXCEPT ![P(g)] = s]
      <4>1. CASE n \in {"installed", "setconfig", "init"}
        BY <1>1, <4>1, StepIs DEF SetStatus, Status
      <4>2. CASE n = "config"
        <5>1. status' = [status EXCEPT ![P(g)] = IF status[P(g)] = "init" THEN "config" ELSE status[P(g)]]
          BY <1>1, <4>2, StepIs DEF Config
        <5>2. (IF status[P(g)] = "init" THEN "config" ELSE status[P(g)]) \in Status
          BY <1>2, <1>t DEF TypeOK, Status
        <5> QED BY <5>1, <5>2
      <4>3. CASE n = "tostart"
        BY <1>1, <4>3, StepIs DEF ToStart, Status
      <4>4. CASE n = "disabled"
        BY <1>1, <4>4, StepIs DEF Disabled, Status
      <4> QED BY <1>1, <2>2, <4>1, <4>2, <4>3, <4>4, StepKeeps
    <3> QED BY <1>t, <3>1, <3>2 DEF TypeOK
  <2> QED BY <2>1, <2>2
<1>5. ver' \in [Pkgs -> {0, 1}] /\ ver[P(g)] \in {0, 1}
  BY <1>1, <1>2, <1>t, StepKeeps DEF TypeOK
<1>6. running' \in [Pkgs -> BOOLEAN]
  <2>1. CASE n = "running"
    <3>1. running' = [running EXCEPT ![P(g)] = TRUE]
      BY <1>1, <2>1, StepIs DEF Running
    <3> QED BY <1>t, <3>1 DEF TypeOK
  <2>2. CASE n = "tostart"
    <3>1. running' = [running EXCEPT ![P(g)] = FALSE]
      BY <1>1, <2>2, StepIs DEF ToStart
    <3> QED BY <1>t, <3>1 DEF TypeOK
  <2> QED BY <1>1, <1>t, <2>1, <2>2, StepKeeps DEF TypeOK
<1>7. models' \in [Pkgs -> {"none", "partial", "loaded"}]
  <2>1. models' = models \/ \E s \in {"none", "partial", "loaded"} : models' = [models EXCEPT ![P(g)] = s]
    <3>1. CASE n = "models"
      BY <1>1, <3>1, StepIs DEF Models
    <3>2. CASE n = "models_add"
      BY <1>1, <3>2, StepIs DEF ModelsAdd
    <3> QED BY <1>1, <3>1, <3>2, StepKeeps
  <2> QED BY <1>t, <2>1 DEF TypeOK
<1>8. changes' \in [Pkgs -> SUBSET {0, 1}]
  <2>1. CASE n = "actors"
    <3>1. changes' = changes \/ changes' = [changes EXCEPT ![P(g)] = @ \union {ver[P(g)]}]
      BY <1>1, <2>1, StepIs DEF Actors
    <3> QED BY <1>5, <1>t, <3>1 DEF TypeOK
  <2> QED BY <1>1, <1>t, <2>1, StepKeeps DEF TypeOK
<1>f. n = "file" => Head(todo[g]).file \in AllFiles(P(g))
  BY <1>1, NextStep DEF TodoInv, P
<1>a. \A p \in Pkgs : AllFiles(p) \subseteq Files
  BY PackagesAssumption DEF AllFiles
<1>9. actors' \in [Pkgs -> {None} \union SUBSET Files] /\ \A p \in Pkgs : actors'[p] = None \/ actors'[p] \subseteq AllFiles(p)
  <2>1. actors' = actors \/ \E A \in {None} \union SUBSET AllFiles(P(g)) : actors' = [actors EXCEPT ![P(g)] = A]
    <3>0. actors[P(g)] = None \/ actors[P(g)] \subseteq AllFiles(P(g))
      BY <1>2, <1>t DEF TypeOK
    <3>1. CASE n = "actors"
      <4>1. actors' = actors \/ actors' = [actors EXCEPT ![P(g)] = IF actors[P(g)] = None THEN {} ELSE actors[P(g)]]
        BY <1>1, <3>1, StepIs DEF Actors
      <4> QED BY <3>0, <4>1
    <3>2. CASE n = "file"
      <4>1. \/ actors' = actors \/ actors' = [actors EXCEPT ![P(g)] = None]
            \/ actors[P(g)] # None /\ actors' = [actors EXCEPT ![P(g)] = actors[P(g)] \union {Head(todo[g]).file}]
        BY <1>1, <3>2, StepIs DEF LoadFile
      <4> QED BY <1>f, <3>0, <3>2, <4>1
    <3>3. CASE n = "actors_remove"
      <4>1. actors' = actors \/ actors' = [actors EXCEPT ![P(g)] = IF actors[P(g)] = None THEN {} ELSE actors[P(g)]]
        BY <1>1, <3>3, StepIs DEF ActorsRemove
      <4> QED BY <3>0, <4>1
    <3> QED BY <1>1, <3>1, <3>2, <3>3, StepKeeps
  <2>2. CASE actors' = actors
    BY <1>t, <2>2 DEF TypeOK
  <2>3. ASSUME NEW A \in {None} \union SUBSET AllFiles(P(g)), actors' = [actors EXCEPT ![P(g)] = A]
        PROVE  actors' \in [Pkgs -> {None} \union SUBSET Files] /\ \A p \in Pkgs : actors'[p] = None \/ actors'[p] \subseteq AllFiles(p)
    <3>1. A \in {None} \union SUBSET Files
      BY <1>2, <1>a
    <3> QED BY <1>2, <1>t, <2>3, <3>1 DEF TypeOK
  <2> QED BY <2>1, <2>2, <2>3
<1>10. meta' \subseteq Pkgs \X Files \X {0, 1}
  <2>1. CASE n = "file"
    <3>1. meta' = meta \/ meta' \subseteq meta \union {<<P(g), Head(todo[g]).file, ver[P(g)]>>}
      BY <1>1, <2>1, StepIs DEF LoadFile
    <3>2. Head(todo[g]).file \in Files
      BY <1>2, <1>a, <1>f, <2>1
    <3> QED BY <1>2, <1>5, <1>t, <3>1, <3>2 DEF TypeOK
  <2>2. CASE n = "actors_remove"
    <3>1. meta' \subseteq meta
      BY <1>1, <2>2, StepIs DEF ActorsRemove
    <3> QED BY <1>t, <3>1 DEF TypeOK
  <2> QED BY <1>1, <1>t, <2>1, <2>2, StepKeeps DEF TypeOK
<1>11. cmds' \subseteq Pkgs \X Files
  <2>1. CASE n = "lookup"
    <3>1. cmds' = cmds \/ cmds' = cmds \union {<<P(g), Head(todo[g]).file>>}
      BY <1>1, <2>1, StepIs DEF Lookup
    <3>2. Head(todo[g]).file \in Files
      <4>1. Head(todo[g]).file \in AllFiles(P(g))
        BY <1>1, <2>1, NextStep DEF TodoInv, P
      <4> QED BY <1>2, <1>a, <4>1
    <3> QED BY <1>2, <1>t, <3>1, <3>2 DEF TypeOK
  <2> QED BY <1>1, <1>t, <2>1, StepKeeps DEF TypeOK
<1>12. off' \subseteq Pkgs
  <2>1. CASE n = "disabled"
    <3>1. off' = off \/ off' = off \union {P(g)}
      BY <1>1, <2>1, StepIs DEF Disabled
    <3> QED BY <1>2, <1>t, <3>1
  <2> QED BY <1>1, <1>t, <2>1, StepKeeps
<1>13. pkg' \in [Greenlets -> Pkgs \union {None}]
  BY <1>2, <1>t DEF TypeOK
<1> QED BY <1>3, <1>4, <1>5, <1>6, <1>7, <1>8, <1>9, <1>10, <1>11, <1>12, <1>13 DEF TypeInv, TypeOK, AllFiles

(* The types stay right.                                                   *)
LEMMA TypeStep == TodoInv /\ TypeInv /\ [Next]_vars => TypeInv'
<1> SUFFICES ASSUME TodoInv, TypeInv, [Next]_vars PROVE TypeInv'
  OBVIOUS
<1>t. TypeOK /\ actors \in [Pkgs -> {None} \union SUBSET Files] /\ off \subseteq Pkgs
  BY DEF TypeInv
<1> USE DEF TypeOK, persistent, registry, bounds, history
<1>1. CASE UNCHANGED vars
  BY <1>1, <1>t, TodoKept DEF vars, TypeInv, AllFiles
<1>2. CASE Crash \/ Die
  <2>1. Fresh /\ phase' = "down" /\ UNCHANGED <<status, ver, off>>
    BY <1>2 DEF Crash, Die
  <2>2. \A g \in Greenlets : ~Busy(g)'
    BY <2>1, FreshFacts
  <2>3. running' \in [Pkgs -> BOOLEAN] /\ models' \in [Pkgs -> {"none", "partial", "loaded"}] /\ changes' \in [Pkgs -> SUBSET {0, 1}]
        /\ actors' \in [Pkgs -> {None} \union SUBSET Files] /\ (\A p \in Pkgs : actors'[p] = None)
        /\ meta' = {} /\ cmds' = {} /\ pending' = {} /\ pkg' \in [Greenlets -> Pkgs \union {None}]
    BY <2>1 DEF Fresh
  <2> QED BY <1>t, <2>1, <2>2, <2>3 DEF TypeInv
<1>3. CASE Start
  <2>1. status' \in [Pkgs -> Status] /\ off' \subseteq Pkgs /\ phase' = "booting" /\ pending' = Pkgs
    BY <1>3, <1>t DEF Start, Status
  <2>2. UNCHANGED <<ver, running, models, changes, loaded, actors, meta, cmds, todo, pkg>>
    BY <1>3 DEF Start
  <2> QED BY <1>t, <2>1, <2>2, TodoKept DEF TypeInv, AllFiles
<1>4. CASE BootDone
  BY <1>4, <1>t, TodoKept DEF BootDone, TypeInv, AllFiles
<1>5. ASSUME NEW p \in Pkgs, Edit(p) PROVE TypeInv'
  <2>1. ver' \in [Pkgs -> {0, 1}]
    BY <1>5, <1>t DEF Edit
  <2>2. UNCHANGED <<status, phase, pending, running, models, changes, loaded, actors, meta, cmds, todo, pkg, off>>
    BY <1>5 DEF Edit
  <2> QED BY <1>t, <2>1, <2>2, TodoKept DEF TypeInv, AllFiles
<1>6. ASSUME NEW g \in Greenlets, NEW p \in Pkgs, pkg' = [pkg EXCEPT ![g] = p], TodoInv',
             \A h \in Greenlets \ {g} : Left(h)' = Left(h)
      PROVE  pkg' \in [Greenlets -> Pkgs \union {None}] /\ \A h \in Greenlets : Busy(h)' => pkg'[h] \in Pkgs
  <2>1. \A h \in Greenlets \ {g} : Busy(h)' <=> Busy(h)
    BY <1>6, BusyLeft, BusyNext
  <2> QED BY <1>6, <1>t, <2>1
<1>7. ASSUME NEW p \in Pkgs, BootNext(p) PROVE TypeInv'
  <2>1. Boot \in Greenlets /\ pkg' = [pkg EXCEPT ![Boot] = p] /\ pending' = pending \ {p}
        /\ UNCHANGED <<status, ver, phase, running, models, changes, loaded, actors, meta, cmds, off>>
    BY <1>7 DEF BootNext, Greenlets
  <2>2. pkg' \in [Greenlets -> Pkgs \union {None}] /\ \A h \in Greenlets : Busy(h)' => pkg'[h] \in Pkgs
    BY <1>6, <1>7, <2>1, BootNextLeft
  <2> QED BY <1>t, <2>1, <2>2 DEF TypeInv, AllFiles
<1>8. ASSUME NEW c \in Clients, NEW p \in Pkgs, NEW op \in Ops, Request(c, p, op) PROVE TypeInv'
  <2>1. c \in Greenlets /\ pkg' = [pkg EXCEPT ![c] = p] /\ off' = off \ {p}
        /\ UNCHANGED <<status, ver, phase, pending, running, models, changes, loaded, actors, meta, cmds>>
    BY <1>8 DEF Request, Greenlets
  <2>2. pkg' \in [Greenlets -> Pkgs \union {None}] /\ \A h \in Greenlets : Busy(h)' => pkg'[h] \in Pkgs
    BY <1>6, <1>8, <2>1, RequestLeft
  <2> QED BY <1>t, <2>1, <2>2 DEF TypeInv, AllFiles
<1>9. ASSUME NEW c \in Clients, NEW p \in Pkgs, NEW f \in Files, Call(c, p, f) PROVE TypeInv'
  <2>1. c \in Greenlets /\ pkg' = [pkg EXCEPT ![c] = p]
        /\ UNCHANGED <<status, ver, phase, pending, running, models, changes, loaded, actors, meta, cmds, off>>
    BY <1>9 DEF Call, Greenlets
  <2>2. pkg' \in [Greenlets -> Pkgs \union {None}] /\ \A h \in Greenlets : Busy(h)' => pkg'[h] \in Pkgs
    BY <1>6, <1>9, <2>1, CallLeft
  <2> QED BY <1>t, <2>1, <2>2 DEF TypeInv, AllFiles
<1>10. ASSUME NEW g \in Greenlets, Step(g) PROVE TypeInv'
  BY <1>10, TypeStepOf
<1> QED BY <1>1, <1>2, <1>3, <1>4, <1>5, <1>7, <1>8, <1>9, <1>10 DEF Next

-----------------------------------------------------------------------------
(* The phases of the server and its start loop.                            *)

(* Steps of requests set the status and running of their own package only, *)
(* and none asks for an installation.                                      *)
LEMMA OwnPackage ==
  ASSUME TypeInv, NEW g \in Greenlets, NEW n, At(g, n), Step(g), ~Raises(g, n), NEW q \in Pkgs
  PROVE  /\ status'[q] = status[q] \/ (q = P(g) /\ status'[q] # "toinstall")
         /\ running'[q] = running[q] \/ (q = P(g) /\ n \in {"running", "tostart"})
         /\ n = "installed" /\ q = P(g) => status'[q] = "installed"
         /\ n = "running" /\ q = P(g) => running'[q] = TRUE
<1>t. status \in [Pkgs -> Status] /\ running \in [Pkgs -> BOOLEAN]
  BY DEF TypeInv, TypeOK
<1>1. CASE n \in {"installed", "setconfig", "init"}
  <2>1. PICK s \in {"installed", "config", "init"} : status' = [status EXCEPT ![P(g)] = s] /\ (n = "installed" => s = "installed")
    BY <1>1, StepIs DEF SetStatus
  <2>2. running' = running
    BY <1>1, StepKeeps
  <2> QED BY <1>1, <1>t, <2>1, <2>2
<1>2. CASE n = "config"
  <2>1. status' = [status EXCEPT ![P(g)] = IF status[P(g)] = "init" THEN "config" ELSE status[P(g)]]
    BY <1>2, StepIs DEF Config
  <2>2. running' = running
    BY <1>2, StepKeeps
  <2> QED BY <1>2, <1>t, <2>1, <2>2
<1>3. CASE n = "tostart"
  BY <1>3, <1>t, StepIs DEF ToStart
<1>4. CASE n = "disabled"
  <2>1. status' = [status EXCEPT ![P(g)] = "disabled"] /\ running' = running
    BY <1>4, StepIs DEF Disabled
  <2> QED BY <1>4, <1>t, <2>1
<1>5. CASE n = "running"
  <2>1. running' = [running EXCEPT ![P(g)] = TRUE] /\ status' = status
    BY <1>5, StepIs DEF Running, persistent
  <2> QED BY <1>5, <1>t, <2>1
<1>6. CASE n \notin {"installed", "setconfig", "init", "config", "tostart", "disabled", "running"}
  BY <1>6, StepKeeps
<1> QED BY <1>1, <1>2, <1>3, <1>4, <1>5, <1>6

(* A step makes no greenlet busy.                                          *)
LEMMA StepBusy ==
  ASSUME TodoInv, TypeInv, NEW g \in Greenlets, Step(g)
  PROVE  Busy(g) /\ (\A h \in Greenlets \ {g} : Busy(h)' <=> Busy(h)) /\ (Busy(g)' <=> Left(g)' # {})
<1>1. Busy(g)
  BY StepLeft DEF At
<1>2. TodoInv' /\ \A h \in Greenlets \ {g} : Left(h)' = Left(h)
  BY StepLeft
<1> QED BY <1>1, <1>2, BusyLeft, BusyNext

(* Only the start loop is at work while the server boots, only the clients *)
(* while it is up.                                                         *)
LEMMA PhaseStep == TodoInv /\ TypeInv /\ PhaseInv /\ [Next]_vars => PhaseInv'
<1> SUFFICES ASSUME TodoInv, TypeInv, PhaseInv, [Next]_vars PROVE PhaseInv'
  OBVIOUS
<1>0. Boot \in Greenlets /\ Clients \subseteq Greenlets /\ Boot \notin Clients /\ Greenlets = Clients \union {Boot}
  BY PackagesAssumption DEF Greenlets
<1>1. CASE UNCHANGED vars
  BY <1>1, TodoKept, <1>0 DEF vars, PhaseInv
<1>2. CASE Crash \/ Die
  <2>1. Fresh /\ phase' = "down"
    BY <1>2 DEF Crash, Die
  <2> QED BY <2>1, FreshFacts DEF PhaseInv
<1>3. CASE Start
  <2>1. phase = "down" /\ phase' = "booting" /\ UNCHANGED <<todo, pkg, running>>
    BY <1>3 DEF Start
  <2> QED BY <1>0, <2>1, TodoKept DEF PhaseInv
<1>4. CASE BootDone
  <2>1. phase = "booting" /\ phase' = "up" /\ ~Busy(Boot) /\ UNCHANGED <<todo, pkg, running>>
    BY <1>4 DEF BootDone
  <2> QED BY <1>0, <2>1, TodoKept DEF PhaseInv
<1>5. CASE \E p \in Pkgs : Edit(p)
  <2>1. phase' = phase /\ UNCHANGED <<todo, pkg, running>>
    BY <1>5 DEF Edit
  <2> QED BY <1>0, <2>1, TodoKept DEF PhaseInv
<1>6. ASSUME NEW p \in Pkgs, BootNext(p) PROVE PhaseInv'
  <2>1. phase = "booting" /\ phase' = "booting"
    BY <1>6 DEF BootNext
  <2>2. \A c \in Clients : Busy(c)' <=> Busy(c)
    BY <1>0, <1>6, BootNextLeft, BusyLeft, BusyNext
  <2> QED BY <2>1, <2>2 DEF PhaseInv
<1>7. ASSUME NEW c \in Clients, NEW p \in Pkgs, (\E op \in Ops : Request(c, p, op)) \/ (\E f \in Files : Call(c, p, f)) PROVE PhaseInv'
  <2>1. phase = "up" /\ phase' = "up"
    BY <1>7 DEF Request, Call
  <2>2. Busy(Boot)' <=> Busy(Boot)
    BY <1>0, <1>7, RequestLeft, CallLeft, BusyLeft, BusyNext
  <2> QED BY <2>1, <2>2 DEF PhaseInv
<1>8. ASSUME NEW g \in Greenlets, Step(g) PROVE PhaseInv'
  <2>1. \A h \in Greenlets : Busy(h)' => Busy(h)
    BY <1>8, StepBusy
  <2>2. PICK n \in Names : At(g, n) /\ Effect(g, n)
    BY <1>8, StepLeft
  <2>3. Busy(g)
    BY <1>8, StepBusy
  <2>4. phase \notin {"down", "dying"} /\ (phase = "booting" => g = Boot) /\ (phase = "up" => g # Boot)
    BY <1>0, <2>3 DEF PhaseInv
  <2>5. CASE phase' = phase
    BY <1>0, <2>1, <2>4, <2>5 DEF PhaseInv
  <2>6. CASE phase' # phase
    <3>1. Abort(g) /\ Left(g)' = {} /\ g = Boot /\ phase' = "dying"
      BY <2>2, <2>6 DEF Effect, Abort, Raises
    <3>2. phase = "booting"
      BY <2>4, <3>1 DEF TypeInv, TypeOK
    <3>3. \A h \in Greenlets : ~Busy(h)'
      BY <1>0, <1>8, <2>1, <3>1, <3>2, StepBusy DEF PhaseInv
    <3> QED BY <3>1, <3>3 DEF PhaseInv
  <2> QED BY <2>5, <2>6
<1> QED BY <1>1, <1>2, <1>3, <1>4, <1>5, <1>6, <1>7, <1>8 DEF Next

(* The start loop settles every package.                                   *)
LEMMA BootStep == TodoInv /\ TypeInv /\ PhaseInv /\ BootInv /\ [Next]_vars => BootInv'
<1> SUFFICES ASSUME TodoInv, TypeInv, PhaseInv, BootInv, [Next]_vars, phase' = "booting" PROVE BootInv'
  BY DEF BootInv
<1>0. Boot \in Greenlets /\ Clients \subseteq Greenlets /\ Boot \notin Clients /\ Greenlets = Clients \union {Boot}
  BY PackagesAssumption DEF Greenlets
<1>1. ASSUME UNCHANGED <<phase, pending, running, status, todo, pkg>> PROVE BootInv'
  BY <1>0, <1>1, TodoKept DEF BootInv, Settled, Has
<1>2. CASE UNCHANGED vars \/ \E p \in Pkgs : Edit(p)
  BY <1>1, <1>2 DEF vars, persistent, Edit
<1>3. CASE Crash \/ Die \/ BootDone
  BY <1>3 DEF Crash, Die, BootDone
<1>4. CASE Start
  <2>1. pending' = Pkgs /\ phase = "down" /\ UNCHANGED <<todo, pkg>>
    BY <1>4 DEF Start
  <2>2. ~Busy(Boot)'
    BY <1>0, <2>1, TodoKept DEF PhaseInv
  <2> QED BY <2>1, <2>2 DEF BootInv
<1>5. ASSUME NEW p \in Pkgs, BootNext(p) PROVE BootInv'
  <2>1. phase = "booting" /\ ~Busy(Boot) /\ pending' = pending \ {p} /\ running' = running /\ status' = status
    BY <1>5 DEF BootNext, persistent
  <2>2. \A q \in Pkgs \ pending' : q # p => Settled(q)'
    BY <2>1 DEF BootInv, Settled
  <2>3. pkg'[Boot] = p /\ TodoInv'
    BY <1>5, BootNextLeft
  <2>4. /\ status[p] = "toinstall" => Left(Boot)' = Dos({"config", "prepare", "installed", "bootstart"})
        /\ status[p] # "toinstall" => Left(Boot)' = Dos({"bootstart"})
    BY <1>5, BootNextLeft
  <2>5. Has(Boot, "bootstart")' /\ ~Has(Boot, "saved")' /\ (Has(Boot, "installed")' \/ status'[p] # "toinstall")
    <3>1. CASE status[p] = "toinstall"
      <4> DEFINE N == {"config", "prepare", "installed", "bootstart"}
      <4>1. (\E e \in Dos(N) : e.do = "bootstart") /\ (\E e \in Dos(N) : e.do = "installed") /\ ~\E e \in Dos(N) : e.do = "saved"
        <5>1. "bootstart" \in N /\ "installed" \in N /\ "saved" \notin N
          OBVIOUS
        <5> HIDE DEF N
        <5> QED BY <5>1, DosHas
      <4> QED BY <2>4, <3>1, <4>1 DEF Has
    <3>2. CASE status[p] # "toinstall"
      <4> DEFINE N == {"bootstart"}
      <4>1. (\E e \in Dos(N) : e.do = "bootstart") /\ ~\E e \in Dos(N) : e.do = "saved"
        <5>1. "bootstart" \in N /\ "saved" \notin N
          OBVIOUS
        <5> HIDE DEF N
        <5> QED BY <5>1, DosHas
      <4> QED BY <2>1, <2>4, <3>2, <4>1 DEF Has
    <3> QED BY <3>1, <3>2
  <2>6. Busy(Boot)'
    BY <1>0, <2>3, <2>5, BusyNext DEF Has
  <2> QED BY <2>2, <2>3, <2>5, <2>6 DEF BootInv
<1>6. CASE \E c \in Clients, p \in Pkgs : (\E op \in Ops : Request(c, p, op)) \/ (\E f \in Files : Call(c, p, f))
  BY <1>6 DEF Request, Call
<1>7. ASSUME NEW g \in Greenlets, Step(g) PROVE BootInv'
  <2>1. PICK n \in Names : At(g, n) /\ Effect(g, n)
    BY <1>7, StepLeft
  <2>2. Busy(g) /\ phase = "booting" /\ pending' = pending /\ pkg' = pkg
    BY <1>7, <2>1, StepBusy, StepLeft DEF Effect, Abort, Raises
  <2>3. g = Boot
    BY <1>0, <2>2 DEF PhaseInv
  <2>4. P(Boot) \in Pkgs /\ P(Boot) = pkg[Boot]
    BY <2>2, <2>3 DEF P, TypeInv, TypeOK
  <2>5. CASE Raises(g, n)
    <3>1. status' = [status EXCEPT ![P(g)] = "error"] /\ Left(g)' = {}
      BY <1>7, <2>2, <2>3, <2>5, DropLeft DEF Abort, Raises
    <3>2. running' = running
      BY <1>7, <2>1, <2>5, StepKeeps DEF Raises, Raising
    <3>3. ~Busy(Boot)'
      BY <1>7, <2>3, <3>1, StepBusy
    <3>4. \A q \in Pkgs \ pending : Settled(q)'
      BY <2>2, <2>3, <2>4, <3>1, <3>2 DEF BootInv, Settled, TypeInv, TypeOK
    <3> QED BY <2>2, <3>3, <3>4 DEF BootInv
  <2>6. CASE ~Raises(g, n)
    <3>1. \A q \in Pkgs \ pending : q # pkg[Boot] => Settled(q)'
      BY <1>7, <2>1, <2>2, <2>3, <2>4, <2>6, OwnPackage DEF BootInv, Settled
    <3>2. /\ Left(g) = {Head(todo[g])} \union Rest(g) /\ Head(todo[g]).do = n
          /\ \A e \in Rest(g) : e.do \in After(n)
      BY <2>1, NextStep
    <3>3. \A m : Has(g, m) <=> (m = n \/ \E e \in Rest(g) : e.do = m)
      BY <3>2 DEF Has
    <3>4. \A m : (\E e \in Rest(g) : e.do = m) => Has(g, m)'
      BY <2>1, <2>6 DEF Effect, Has
    <3>5. ASSUME NEW m, Has(g, m)' PROVE Busy(Boot)'
      BY <1>7, <2>3, <3>5, StepBusy DEF Has
    <3>6. SUFFICES \/ ~Busy(Boot)' /\ Settled(pkg[Boot])'
                   \/ Has(Boot, "bootstart")' /\ ~Has(Boot, "saved")' /\ (Has(Boot, "installed")' \/ status'[pkg[Boot]] # "toinstall")
                   \/ Has(Boot, "saved")' /\ (Has(Boot, "running")' \/ running'[pkg[Boot]])
      BY <2>2, <2>3, <3>1, <3>5 DEF BootInv
    <3>7. CASE Has(Boot, "bootstart") /\ ~Has(Boot, "saved") /\ (Has(Boot, "installed") \/ status[pkg[Boot]] # "toinstall")
      <4>1. CASE n = "bootstart"
        <5>1. Rest(g) = {}
          BY <3>2, <4>1 DEF After, Setup
        <5>2. status' = status /\ status[pkg[Boot]] # "toinstall"
          BY <1>7, <2>1, <2>3, <2>6, <3>3, <3>7, <4>1, <5>1, StepKeeps
        <5>3. CASE Left(g)' = Rest(g) /\ status[P(g)] \notin {"tostart", "installed", "error"}
          <6>1. status[pkg[Boot]] \in {"init", "config", "disabled"}
            BY <2>3, <2>4, <5>2, <5>3 DEF TypeInv, TypeOK, Status
          <6>2. Settled(pkg[Boot])'
            BY <2>2, <5>2, <6>1 DEF Settled
          <6> QED BY <1>7, <2>3, <5>1, <5>3, <6>2, StepBusy
        <5>4. CASE Left(g)' = Dos(StartNames \union {"saved"}) \union Rest(g)
          <6>1. "saved" \in StartNames \union {"saved"} /\ "running" \in StartNames \union {"saved"}
            BY DEF StartNames
          <6>2. (\E e \in Dos(StartNames \union {"saved"}) : e.do = "saved") /\ \E e \in Dos(StartNames \union {"saved"}) : e.do = "running"
            <7> DEFINE N == StartNames \union {"saved"}
            <7>1. "saved" \in N /\ "running" \in N
              BY <6>1
            <7> HIDE DEF N
            <7> QED BY <7>1, DosHas DEF N
          <6> QED BY <2>3, <5>4, <6>2 DEF Has
        <5> QED BY <2>1, <2>6, <4>1, <5>3, <5>4 DEF Effect
      <4>2. CASE n # "bootstart"
        <5>1. Has(Boot, "bootstart")'
          BY <2>3, <3>3, <3>4, <3>7, <4>2
        <5>2. ~Has(Boot, "saved")'
          BY <2>1, <2>3, <2>6, <3>3, <3>7, <4>2 DEF Effect, Has, Dos, Do, Load
        <5>3. Has(Boot, "installed")' \/ status'[pkg[Boot]] # "toinstall"
          <6>1. CASE n = "installed"
            <7>1. \A q \in Pkgs : q = P(g) => status'[q] = "installed"
              BY <1>7, <2>1, <2>6, <6>1, OwnPackage
            <7> QED BY <2>2, <2>3, <2>4, <7>1
          <6>2. CASE n # "installed" /\ Has(Boot, "installed")
            BY <2>3, <3>3, <3>4, <6>2
          <6>3. CASE status[pkg[Boot]] # "toinstall"
            <7>1. \A q \in Pkgs : status'[q] = status[q] \/ status'[q] # "toinstall"
              BY <1>7, <2>1, <2>6, OwnPackage
            <7> QED BY <2>2, <2>4, <6>3, <7>1
          <6> QED BY <3>7, <6>1, <6>2, <6>3
        <5> QED BY <5>1, <5>2, <5>3
      <4> QED BY <4>1, <4>2
    <3>8. CASE Has(Boot, "saved") /\ (Has(Boot, "running") \/ running[pkg[Boot]])
      <4>1. CASE n = "saved"
        <5>1. Rest(g) = {} /\ Left(g)' = Rest(g)
          BY <2>1, <2>6, <3>2, <4>1 DEF After, Setup, Effect
        <5>2. running[pkg[Boot]] /\ running' = running
          BY <1>7, <2>1, <2>3, <3>3, <3>8, <4>1, <5>1, StepKeeps
        <5>3. Settled(pkg[Boot])'
          BY <2>2, <5>2 DEF Settled
        <5> QED BY <1>7, <2>3, <5>1, <5>3, StepBusy
      <4>2. CASE n # "saved"
        <5>1. Has(Boot, "saved")' /\ "saved" \in After(n)
          BY <2>3, <3>2, <3>3, <3>4, <3>8, <4>2
        <5>2. n # "tostart"
          BY <5>1 DEF After, Setup
        <5>3. Has(Boot, "running")' \/ running'[pkg[Boot]]
          <6>1. CASE n = "running"
            <7>1. \A q \in Pkgs : q = P(g) => running'[q] = TRUE
              BY <1>7, <2>1, <2>6, <6>1, OwnPackage
            <7> QED BY <2>2, <2>3, <2>4, <7>1
          <6>2. CASE n # "running" /\ Has(Boot, "running")
            BY <2>3, <3>3, <3>4, <6>2
          <6>3. CASE n # "running" /\ running[pkg[Boot]]
            BY <1>7, <2>1, <2>4, <2>6, <5>2, <6>3, StepKeeps
          <6> QED BY <3>8, <6>1, <6>2, <6>3
        <5> QED BY <5>1, <5>3
      <4> QED BY <4>1, <4>2
    <3> QED BY <2>2, <2>3, <3>7, <3>8 DEF BootInv
  <2> QED BY <2>5, <2>6
<1> QED BY <1>2, <1>3, <1>4, <1>5, <1>6, <1>7 DEF Next

-----------------------------------------------------------------------------
(* Packages that are off.                                                  *)

(* A step of a request on another package leaves a package as it is.       *)
LEMMA OtherPackage ==
  ASSUME TodoInv, TypeInv, NEW g \in Greenlets, Step(g), NEW p \in Pkgs, P(g) # p
  PROVE  status'[p] = status[p] /\ running'[p] = running[p] /\ (phase' = "booting" => phase = "booting")
<1>1. PICK n \in Names : At(g, n) /\ Effect(g, n)
  BY StepLeft
<1>2. CASE Raises(g, n)
  <2>1. running' = running
    BY <1>1, <1>2, StepKeeps DEF Raises, Raising
  <2>2. status' = status \/ status' = [status EXCEPT ![P(g)] = "error"]
    BY <1>2 DEF Raises, Abort
  <2>3. phase' = phase \/ phase' = "dying"
    BY <1>2 DEF Raises, Abort
  <2> QED BY <2>1, <2>2, <2>3 DEF TypeInv, TypeOK
<1>3. CASE ~Raises(g, n)
  BY <1>1, <1>3, OwnPackage DEF Effect
<1> QED BY <1>2, <1>3

(* Nothing brings a package back that is off but a request.                *)
LEMMA OffStep == TodoInv /\ TypeInv /\ PhaseInv /\ BootInv /\ OffInv /\ [Next]_vars => OffInv'
<1> SUFFICES ASSUME TodoInv, TypeInv, PhaseInv, BootInv, OffInv, [Next]_vars, NEW p \in off'
             PROVE  /\ status'[p] = "disabled"
                    /\ phase' = "booting" => ~running'[p]
                    /\ \A g \in Greenlets : pkg'[g] = p => \A e \in Left(g)' : e.do \in Quiet \union {"bootstart"}
  BY DEF OffInv
<1>0. Boot \in Greenlets /\ Clients \subseteq Greenlets /\ Boot \notin Clients /\ Greenlets = Clients \union {Boot}
  BY PackagesAssumption DEF Greenlets
<1> USE DEF persistent, history
<1>1. CASE UNCHANGED vars \/ BootDone \/ \E q \in Pkgs : Edit(q)
  <2>1. UNCHANGED <<status, running, todo, pkg, off>> /\ (phase' = "booting" => phase = "booting")
    BY <1>1 DEF vars, BootDone, Edit
  <2> QED BY <2>1, TodoKept DEF OffInv
<1>2. CASE Crash \/ Die
  <2>1. Fresh /\ phase' = "down" /\ status' = status /\ off' = off
    BY <1>2 DEF Crash, Die
  <2> QED BY <2>1, FreshFacts DEF OffInv
<1>3. CASE Start
  <2>1. phase = "down" /\ UNCHANGED <<running, todo, pkg>> /\ p \in off /\ p \notin Core
    BY <1>3 DEF Start
  <2>2. p \in Pkgs /\ status'[p] = status[p]
    BY <1>3, <2>1 DEF Start, TypeInv
  <2> QED BY <2>1, <2>2, TodoKept DEF OffInv, PhaseInv
<1>4. ASSUME NEW q \in Pkgs, BootNext(q)
      PROVE  /\ status'[p] = "disabled"
             /\ phase' = "booting" => ~running'[p]
             /\ \A g \in Greenlets : pkg'[g] = p => \A e \in Left(g)' : e.do \in Quiet \union {"bootstart"}
  <2>1. p \in off /\ UNCHANGED <<status, running, phase>>
    BY <1>4 DEF BootNext
  <2>2. status[p] = "disabled"
    BY <2>1 DEF OffInv
  <2>3. pkg'[Boot] = p => Left(Boot)' = Dos({"bootstart"})
    BY <1>4, <2>2, BootNextLeft
  <2>4. \A e \in Dos({"bootstart"}) : e.do = "bootstart"
    BY DEF Dos, Do
  <2>5. \A h \in Greenlets \ {Boot} : Left(h)' = Left(h) /\ pkg'[h] = pkg[h]
    BY <1>4, BootNextLeft
  <2> QED BY <2>1, <2>3, <2>4, <2>5 DEF OffInv
<1>5. ASSUME NEW c \in Clients, NEW q \in Pkgs, NEW op \in Ops, Request(c, q, op)
      PROVE  /\ status'[p] = "disabled"
             /\ phase' = "booting" => ~running'[p]
             /\ \A g \in Greenlets : pkg'[g] = p => \A e \in Left(g)' : e.do \in Quiet \union {"bootstart"}
  <2>1. p \in off /\ p # q /\ UNCHANGED <<status, running, phase>>
    BY <1>5 DEF Request
  <2>2. pkg'[c] = q /\ \A h \in Greenlets \ {c} : Left(h)' = Left(h) /\ pkg'[h] = pkg[h]
    BY <1>5, RequestLeft
  <2> QED BY <2>1, <2>2 DEF OffInv
<1>6. ASSUME NEW c \in Clients, NEW q \in Pkgs, NEW f \in Files, Call(c, q, f)
      PROVE  /\ status'[p] = "disabled"
             /\ phase' = "booting" => ~running'[p]
             /\ \A g \in Greenlets : pkg'[g] = p => \A e \in Left(g)' : e.do \in Quiet \union {"bootstart"}
  <2>1. p \in off /\ UNCHANGED <<status, running, phase>>
    BY <1>6 DEF Call
  <2>2. /\ \A h \in Greenlets \ {c} : Left(h)' = Left(h) /\ pkg'[h] = pkg[h]
        /\ \A e \in Left(c)' : e.do \in {"models", "actors_get", "lookup"}
    BY <1>6, CallLeft
  <2> QED BY <2>1, <2>2 DEF OffInv, Quiet
<1>7. ASSUME NEW g \in Greenlets, Step(g)
      PROVE  /\ status'[p] = "disabled"
             /\ phase' = "booting" => ~running'[p]
             /\ \A h \in Greenlets : pkg'[h] = p => \A e \in Left(h)' : e.do \in Quiet \union {"bootstart"}
  <2>1. PICK n \in Names : At(g, n) /\ Effect(g, n)
    BY <1>7, StepLeft
  <2>2. pkg' = pkg /\ \A h \in Greenlets \ {g} : Left(h)' = Left(h)
    BY <1>7, StepLeft
  <2>3. /\ Left(g) = {Head(todo[g])} \union Rest(g) /\ Head(todo[g]).do = n
        /\ \A e \in Rest(g) : e.do \in After(n)
    BY <2>1, NextStep
  <2>4. CASE p \notin off
    <3>1. n = "disabled"
      BY <1>7, <2>1, <2>4, StepKeeps
    <3>2. Disabled(g) /\ ~Raises(g, n)
      BY <1>7, <2>1, <3>1, StepIs DEF Raises, Raising
    <3>3. p = P(g) /\ \A h \in Greenlets \ {g} : ~(Busy(h) /\ P(h) = p)
      BY <2>4, <3>2 DEF Disabled
    <3>4. status'[p] = "disabled"
      <4>1. status' = [status EXCEPT ![P(g)] = "disabled"] /\ P(g) \in Pkgs
        BY <3>2 DEF Disabled, TypeInv, TypeOK, At, P
      <4> QED BY <3>3, <4>1 DEF TypeInv, TypeOK
    <3>5. Rest(g) = {}
      BY <2>3, <3>1 DEF After, Setup
    <3>6. Left(g)' = {}
      BY <2>1, <3>1, <3>2, <3>5 DEF Effect
    <3>7. \A h \in Greenlets \ {g} : pkg[h] = p => Left(h)' = {}
      BY <2>2, <3>3, BusyLeft DEF P
    <3>8. phase' # "booting"
      <4>1. SUFFICES ASSUME phase = "booting" PROVE FALSE
        BY <2>1, <3>2 DEF Effect
      <4>2. g = Boot /\ Busy(Boot)
        BY <1>0, <2>1, <4>1 DEF PhaseInv, At
      <4>3. Has(Boot, "bootstart") \/ Has(Boot, "saved")
        BY <4>1, <4>2 DEF BootInv
      <4> QED BY <2>3, <3>1, <3>5, <4>2, <4>3 DEF Has
    <3> QED BY <2>2, <3>4, <3>6, <3>7, <3>8
  <2>5. CASE p \in off /\ P(g) # p
    <3>1. p \in Pkgs /\ status[p] = "disabled" /\ (phase = "booting" => ~running[p])
      BY <2>5 DEF OffInv, TypeInv
    <3>2. status'[p] = status[p] /\ running'[p] = running[p] /\ (phase' = "booting" => phase = "booting")
      BY <1>7, <2>5, <3>1, OtherPackage
    <3> QED BY <2>2, <2>5, <3>1, <3>2 DEF OffInv, P
  <2>6. CASE p \in off /\ P(g) = p
    <3>1. /\ p \in Pkgs /\ status[p] = "disabled" /\ (phase = "booting" => ~running[p])
          /\ \A h \in Greenlets : pkg[h] = p => \A e \in Left(h) : e.do \in Quiet \union {"bootstart"}
      BY <2>6 DEF OffInv, TypeInv
    <3>2. (\A e \in Left(g) : e.do \in Quiet \union {"bootstart"}) /\ n \in Quiet \union {"bootstart"}
      BY <2>3, <2>6, <3>1 DEF P
    <3>3. running' = running
      BY <1>7, <2>1, <3>2, StepKeeps DEF Quiet
    <3>4. CASE Raises(g, n)
      <4>1. ~Guarded(g)
        <5>1. \A i \in DOMAIN todo[g] : todo[g][i] \in Left(g)
          BY DEF Left, Elems
        <5> QED BY <3>2, <5>1 DEF Guarded, Quiet
      <4>2. status' = status /\ (phase' = phase \/ phase' = "dying")
        BY <3>4, <4>1 DEF Raises, Abort
      <4>3. Left(g)' = {}
        BY <3>4, DropLeft DEF Raises
      <4> QED BY <2>2, <3>1, <3>3, <4>2, <4>3
    <3>5. CASE ~Raises(g, n)
      <4>1. status' = status
        BY <1>7, <2>1, <3>2, <3>5, StepKeeps DEF Quiet
      <4>2. phase' = phase
        BY <2>1, <3>5 DEF Effect
      <4>3. \A e \in Left(g)' : e.do \in Quiet \union {"bootstart"}
        <5>1. \/ Left(g)' = Rest(g) \/ Left(g)' = {Do("models_add")} \union Rest(g)
              \/ Left(g)' = Dos({"models", "actors", "chatflows"}) \union Rest(g)
              \/ Left(g)' = {Load(f) : f \in AllFiles(P(g))} \union Rest(g)
          BY <2>1, <2>6, <3>1, <3>2, <3>5 DEF Effect, Quiet
        <5>2. /\ Do("models_add").do \in Quiet
              /\ \A e \in Dos({"models", "actors", "chatflows"}) : e.do \in Quiet
              /\ \A e \in {Load(f) : f \in AllFiles(P(g))} : e.do \in Quiet
          BY DEF Dos, Do, Load, Quiet
        <5> QED BY <2>3, <3>2, <5>1, <5>2
      <4> QED BY <2>2, <3>1, <3>3, <4>1, <4>2, <4>3
    <3> QED BY <3>4, <3>5
  <2> QED BY <2>4, <2>5, <2>6
<1> QED BY <1>1, <1>2, <1>3, <1>4, <1>5, <1>6, <1>7 DEF Next

-----------------------------------------------------------------------------
(* Requests that are alone with their package, and its models.             *)

(* Overlap grows when another request for the same package is under way.   *)
LEMMA OverlapGrows ==
  ASSUME NEW q, Overlapping(q)
  PROVE  overlap \subseteq overlap' /\ (q \notin overlap' => \A g \in Greenlets : ~(Busy(g) /\ pkg[g] = q))
  BY DEF Overlapping

(* Two requests for one package put it in overlap.                         *)
LEMMA AloneStep == TodoInv /\ TypeInv /\ PhaseInv /\ AloneInv /\ [Next]_vars => AloneInv'
<1> SUFFICES ASSUME TodoInv, TypeInv, PhaseInv, AloneInv, [Next]_vars, NEW p \in Pkgs, p \notin overlap',
                    NEW g \in Greenlets, NEW h \in Greenlets, Busy(g)', Busy(h)', pkg'[g] = p, pkg'[h] = p
             PROVE  g = h
  BY DEF AloneInv
<1>0. Boot \in Greenlets /\ Clients \subseteq Greenlets /\ Boot \notin Clients /\ Greenlets = Clients \union {Boot}
  BY PackagesAssumption DEF Greenlets
<1>1. CASE UNCHANGED vars \/ Start \/ BootDone \/ \E q \in Pkgs : Edit(q)
  <2>1. UNCHANGED <<todo, pkg, overlap>>
    BY <1>1 DEF vars, history, Start, BootDone, Edit
  <2> QED BY <2>1, TodoKept DEF AloneInv
<1>2. CASE Crash \/ Die
  BY <1>2, FreshFacts DEF Crash, Die
<1>3. ASSUME NEW q \in Pkgs, BootNext(q) PROVE g = h
  <2>1. \A c \in Clients : ~Busy(c)
    BY <1>3 DEF BootNext, PhaseInv
  <2>2. TodoInv' /\ \A c \in Clients : Left(c)' = Left(c)
    BY <1>0, <1>3, BootNextLeft
  <2>3. \A c \in Clients : ~Busy(c)'
    BY <1>0, <2>1, <2>2, BusyLeft, BusyNext
  <2> QED BY <1>0, <2>3
<1>4. ASSUME NEW c \in Greenlets, NEW q \in Pkgs, Overlapping(q), TodoInv', pkg'[c] = q,
             \A k \in Greenlets \ {c} : Left(k)' = Left(k) /\ pkg'[k] = pkg[k]
      PROVE  g = h
  <2>1. p \notin overlap /\ (p = q => \A k \in Greenlets : ~(Busy(k) /\ pkg[k] = p))
    BY <1>4, OverlapGrows
  <2>2. \A k \in Greenlets \ {c} : Busy(k)' <=> Busy(k)
    BY <1>4, BusyLeft, BusyNext
  <2>3. CASE p = q
    BY <1>4, <2>1, <2>2, <2>3
  <2>4. CASE p # q
    BY <1>4, <2>1, <2>2, <2>4 DEF AloneInv
  <2> QED BY <2>3, <2>4
<1>5. ASSUME NEW c \in Clients, NEW q \in Pkgs, NEW op \in Ops, Request(c, q, op) PROVE g = h
  <2>1. Overlapping(q)
    BY <1>5 DEF Request
  <2> QED BY <1>4, <1>5, <2>1, RequestLeft
<1>6. ASSUME NEW c \in Clients, NEW q \in Pkgs, NEW f \in Files, Call(c, q, f) PROVE g = h
  <2>1. Overlapping(q)
    BY <1>6 DEF Call
  <2> QED BY <1>4, <1>6, <2>1, CallLeft
<1>7. ASSUME NEW k \in Greenlets, Step(k) PROVE g = h
  <2>1. Busy(g) /\ Busy(h)
    BY <1>7, StepBusy
  <2>2. pkg' = pkg
    BY <1>7, StepLeft
  <2>3. overlap' = overlap
    <3>1. PICK n \in Names : At(k, n)
      BY <1>7, StepLeft
    <3> QED BY <1>7, <3>1, StepKeeps
  <2> QED BY <2>1, <2>2, <2>3 DEF AloneInv
<1> QED BY <1>1, <1>2, <1>3, <1>5, <1>6, <1>7 DEF Next

(* A load of the models, and a load of actor files, is what a request does *)
(* next or not at all.                                                     *)
LEMMA AtOnce ==
  ASSUME TodoInv, NEW g \in Greenlets, NEW n, At(g, n)
  PROVE  /\ \A e \in Rest(g) : e.do # "models_add"
         /\ n # "models_add" => ~Has(g, "models_add")
         /\ n # "file" => \A e \in Left(g) : e.do # "file"
<1>1. Left(g) = {Head(todo[g])} \union Rest(g) /\ Head(todo[g]).do = n /\ \A e \in Rest(g) : e.do \in After(n)
  BY NextStep
<1>2. "models_add" \notin After(n) /\ (n # "file" => "file" \notin After(n))
  BY DEF After, Setup
<1> QED BY <1>1, <1>2 DEF Has

(* A step on another package leaves the models of a package alone.         *)
LEMMA OtherModels ==
  ASSUME TodoInv, TypeInv, NEW g \in Greenlets, Step(g), NEW p \in Pkgs, P(g) # p
  PROVE  models'[p] = models[p]
<1>1. PICK n \in Names : At(g, n)
  BY StepLeft
<1>2. CASE n = "models"
  BY <1>1, <1>2, StepIs DEF Models, TypeInv, TypeOK
<1>3. CASE n = "models_add"
  BY <1>1, <1>3, StepIs DEF ModelsAdd, TypeInv, TypeOK
<1> QED BY <1>1, <1>2, <1>3, StepKeeps

(* What ModelsInv says of one package.                                     *)
ModelsOf(p) ==
    /\ running[p] => models[p] = "loaded"
    /\ models[p] = "partial" => \E g \in Greenlets : pkg[g] = p /\ Has(g, "models_add")
    /\ \A g \in Greenlets : pkg[g] = p =>
         /\ Has(g, "models_add") => models[p] = "partial"
         /\ Has(g, "running") => Has(g, "models") \/ Has(g, "models_add") \/ models[p] = "loaded"

(* The only request of a package does a step.                              *)
LEMMA ModelsOfStep ==
  ASSUME TodoInv, TypeInv, AloneInv, NEW g \in Greenlets, Step(g), NEW p \in Pkgs, p \notin overlap, P(g) = p, ModelsOf(p)
  PROVE  ModelsOf(p)'
<1>1. PICK n \in Names : At(g, n) /\ Effect(g, n)
  BY StepLeft
<1>2. pkg' = pkg /\ (\A h \in Greenlets \ {g} : Left(h)' = Left(h)) /\ Busy(g)
  BY StepLeft, StepBusy
<1>3. \A h \in Greenlets \ {g} : pkg[h] = p => Left(h) = {} /\ Left(h)' = {}
  BY <1>2, BusyLeft DEF AloneInv, P
<1>4. /\ Left(g) = {Head(todo[g])} \union Rest(g) /\ Head(todo[g]).do = n /\ (\A e \in Rest(g) : e.do \in After(n))
      /\ (\A e \in Rest(g) : e.do # "models_add") /\ (n # "models_add" => ~Has(g, "models_add"))
  BY <1>1, NextStep, AtOnce
<1>5. /\ \A h \in Greenlets : pkg[h] = p /\ Has(h, "models_add") => h = g
      /\ Has(g, "models_add") => models[p] = "partial"
      /\ models[p] = "partial" => Has(g, "models_add")
      /\ Has(g, "running") => Has(g, "models") \/ Has(g, "models_add") \/ models[p] = "loaded"
      /\ running[p] => models[p] = "loaded"
  BY <1>3 DEF ModelsOf, Has, P
<1>6. SUFFICES /\ running'[p] => models'[p] = "loaded"
               /\ models'[p] = "partial" => \E e \in Left(g)' : e.do = "models_add"
               /\ (\E e \in Left(g)' : e.do = "models_add") => models'[p] = "partial"
               /\ (\E e \in Left(g)' : e.do = "running") =>
                     (\E e \in Left(g)' : e.do = "models") \/ (\E e \in Left(g)' : e.do = "models_add") \/ models'[p] = "loaded"
  BY <1>2, <1>3 DEF ModelsOf, Has, P
<1>t. models \in [Pkgs -> {"none", "partial", "loaded"}] /\ running \in [Pkgs -> BOOLEAN]
  BY DEF TypeInv, TypeOK
<1>7. CASE n = "models"
  <2>1. Models(g) /\ ~Raises(g, n) /\ running' = running
    BY <1>1, <1>7, StepIs, StepKeeps DEF Raises, Raising
  <2>2. CASE models[p] = "none"
    <3>1. models'[p] = "partial"
      BY <1>t, <2>1, <2>2 DEF Models
    <3>2. Left(g)' = {Do("models_add")} \union Rest(g)
      BY <1>1, <1>7, <2>1, <2>2 DEF Effect
    <3>3. Do("models_add").do = "models_add"
      BY DEF Do
    <3> QED BY <1>5, <2>1, <2>2, <3>1, <3>2, <3>3
  <2>3. CASE models[p] # "none"
    <3>1. models[p] = "loaded" /\ models' = models
      BY <1>4, <1>5, <1>7, <1>t, <2>1, <2>3 DEF Models
    <3>2. Left(g)' = Rest(g)
      BY <1>1, <1>7, <2>1, <2>3 DEF Effect
    <3> QED BY <1>4, <3>1, <3>2
  <2> QED BY <2>2, <2>3
<1>8. CASE n = "models_add"
  <2>1. ModelsAdd(g) /\ running' = running
    BY <1>1, <1>8, StepIs, StepKeeps
  <2>2. ~running[p]
    BY <1>1, <1>5, <1>8, NextStep
  <2>3. CASE Raises(g, n)
    <3>1. Left(g)' = {}
      BY <2>3, DropLeft DEF Raises
    <3>2. models'[p] \in {"none", "loaded"}
      BY <1>t, <2>1 DEF ModelsAdd
    <3> QED BY <2>1, <2>2, <3>1, <3>2
  <2>4. CASE ~Raises(g, n)
    <3>1. models'[p] = "loaded"
      BY <1>8, <1>t, <2>1, <2>4 DEF ModelsAdd, Raise, Raises, Raising
    <3>2. Left(g)' = Rest(g)
      BY <1>1, <1>8, <2>4 DEF Effect
    <3> QED BY <1>4, <3>1, <3>2
  <2> QED BY <2>3, <2>4
<1>9. CASE n \notin {"models", "models_add"}
  <2>1. models' = models /\ models[p] # "partial"
    BY <1>1, <1>4, <1>5, <1>9, StepKeeps
  <2>2. CASE Raises(g, n)
    <3>1. running' = running /\ Left(g)' = {}
      BY <1>1, <2>2, StepKeeps, DropLeft DEF Raises, Raising
    <3> QED BY <1>5, <2>1, <3>1
  <2>3. CASE ~Raises(g, n)
    <3>1. running'[p] => models[p] = "loaded"
      <4>1. CASE n = "running"
        <5>1. Has(g, "running") /\ ~Has(g, "models")
          BY <1>4, <4>1 DEF Has, After, Setup
        <5> QED BY <1>4, <1>5, <1>9, <5>1
      <4>2. CASE n = "tostart"
        BY <1>1, <1>t, <4>2, StepIs DEF ToStart
      <4> QED BY <1>1, <1>5, <4>1, <4>2, StepKeeps
    <3>2. (\E e \in Rest(g) : e.do = "running") => (\E e \in Rest(g) : e.do = "models") \/ models[p] = "loaded"
      BY <1>4, <1>5, <1>9 DEF Has
    <3>3. \/ Left(g)' = Rest(g)
          \/ Left(g)' = Dos({"config", "prepare", "installed"}) \union Rest(g)
          \/ Left(g)' = Dos(StartNames \union {"saved"}) \union Rest(g)
          \/ Left(g)' = Dos({"models", "actors", "chatflows"}) \union Rest(g)
          \/ Left(g)' = {Load(f) : f \in AllFiles(P(g))} \union Rest(g)
      BY <1>1, <1>9, <2>3 DEF Effect
    <3>4. /\ \A e \in Dos({"config", "prepare", "installed"}) : e.do \notin {"models_add", "running"}
          /\ \A e \in Dos({"models", "actors", "chatflows"}) : e.do \notin {"models_add", "running"}
          /\ \A e \in Dos(StartNames \union {"saved"}) : e.do # "models_add"
          /\ \A e \in {Load(f) : f \in AllFiles(P(g))} : e.do \notin {"models_add", "running"}
      BY DEF Dos, Do, Load, StartNames
    <3>5. \E e \in Dos(StartNames \union {"saved"}) : e.do = "models"
      <4>1. "models" \in StartNames \union {"saved"}
        BY DEF StartNames
      <4> HIDE DEF StartNames
      <4> QED BY <4>1, DosHas
    <3>6. \A e \in Left(g)' : e.do # "models_add"
      BY <1>4, <3>3, <3>4
    <3>7. (\E e \in Left(g)' : e.do = "running") => (\E e \in Left(g)' : e.do = "models") \/ models[p] = "loaded"
      BY <3>2, <3>3, <3>4, <3>5
    <3> QED BY <2>1, <3>1, <3>6, <3>7
  <2> QED BY <2>2, <2>3
<1> QED BY <1>7, <1>8, <1>9

(* The models of a package are loaded before it runs.                      *)
LEMMA ModelsStep == TodoInv /\ TypeInv /\ AloneInv /\ ModelsInv /\ [Next]_vars => ModelsInv'
<1> SUFFICES ASSUME TodoInv, TypeInv, AloneInv, ModelsInv, [Next]_vars, NEW p \in Pkgs, p \notin overlap' PROVE ModelsOf(p)'
  BY DEF ModelsInv, ModelsOf
<1>0. Boot \in Greenlets /\ Clients \subseteq Greenlets
  BY DEF Greenlets
<1>1. ASSUME p \notin overlap PROVE ModelsOf(p)
  BY <1>1 DEF ModelsInv, ModelsOf
<1>2. CASE UNCHANGED vars \/ Start \/ BootDone \/ \E q \in Pkgs : Edit(q)
  <2>1. UNCHANGED <<running, models, todo, pkg, overlap>>
    BY <1>2 DEF vars, registry, history, Start, BootDone, Edit
  <2> QED BY <1>1, <2>1, TodoKept DEF ModelsOf, Has
<1>3. CASE Crash \/ Die
  <2>1. running'[p] = FALSE /\ models'[p] = "none" /\ \A g \in Greenlets : Left(g)' = {}
    BY <1>3, FreshFacts DEF Crash, Die
  <2> QED BY <2>1 DEF ModelsOf, Has
<1>4. ASSUME NEW c \in Greenlets, Left(c) = {}, \A h \in Greenlets \ {c} : Left(h)' = Left(h) /\ pkg'[h] = pkg[h],
             UNCHANGED <<running, models>>, overlap \subseteq overlap', \A e \in Left(c)' : e.do # "models_add",
             (\E e \in Left(c)' : e.do = "running") => \E e \in Left(c)' : e.do = "models"
      PROVE  ModelsOf(p)'
  <2>1. ModelsOf(p)
    BY <1>1, <1>4
  <2>2. \A g \in Greenlets : pkg[g] = p /\ Has(g, "models_add") => g # c /\ pkg'[g] = p /\ Has(g, "models_add")'
    BY <1>4 DEF Has
  <2>3. models'[p] = "partial" => \E g \in Greenlets : pkg'[g] = p /\ Has(g, "models_add")'
    BY <1>4, <2>1, <2>2 DEF ModelsOf
  <2>4. ASSUME NEW g \in Greenlets, pkg'[g] = p
        PROVE  /\ Has(g, "models_add")' => models'[p] = "partial"
               /\ Has(g, "running")' => Has(g, "models")' \/ Has(g, "models_add")' \/ models'[p] = "loaded"
    <3>1. CASE g = c
      BY <1>4, <3>1 DEF Has
    <3>2. CASE g # c
      BY <1>4, <2>1, <2>4, <3>2 DEF Has, ModelsOf
    <3> QED BY <3>1, <3>2
  <2>5. running'[p] => models'[p] = "loaded"
    BY <1>4, <2>1 DEF ModelsOf
  <2> QED BY <2>3, <2>4, <2>5 DEF ModelsOf
<1>5. ASSUME NEW q \in Pkgs, BootNext(q) PROVE ModelsOf(p)'
  <2>1. \A e \in Left(Boot)' : e.do \notin {"models_add", "running"}
    BY <1>5, BootNextLeft DEF Dos, Do
  <2>2. UNCHANGED <<running, models, overlap>>
    BY <1>5 DEF BootNext, registry, history
  <2> QED BY <1>0, <1>4, <1>5, <2>1, <2>2, BootNextLeft
<1>6. ASSUME NEW c \in Clients, NEW q \in Pkgs, NEW op \in Ops, Request(c, q, op) PROVE ModelsOf(p)'
  <2>1. UNCHANGED <<running, models>> /\ overlap \subseteq overlap'
    BY <1>6, OverlapGrows DEF Request, registry
  <2>2. /\ \A e \in Left(c)' : e.do # "models_add"
        /\ (\E e \in Left(c)' : e.do = "running") => \E e \in Left(c)' : e.do = "models"
    BY <1>6, RequestLeft DEF Has
  <2> QED BY <1>0, <1>4, <1>6, <2>1, <2>2, RequestLeft
<1>7. ASSUME NEW c \in Clients, NEW q \in Pkgs, NEW f \in Files, Call(c, q, f) PROVE ModelsOf(p)'
  <2>1. UNCHANGED <<running, models>> /\ overlap \subseteq overlap'
    BY <1>7, OverlapGrows DEF Call, registry
  <2>2. \A e \in Left(c)' : e.do \notin {"models_add", "running"}
    BY <1>7, CallLeft
  <2> QED BY <1>0, <1>4, <1>7, <2>1, <2>2, CallLeft
<1>8. ASSUME NEW g \in Greenlets, Step(g) PROVE ModelsOf(p)'
  <2>1. PICK n \in Names : At(g, n)
    BY <1>8, StepLeft
  <2>2. overlap' = overlap
    BY <1>8, <2>1, StepKeeps
  <2>3. CASE P(g) = p
    BY <1>1, <1>8, <2>2, <2>3, ModelsOfStep
  <2>4. CASE P(g) # p
    <3>1. models'[p] = models[p] /\ running'[p] = running[p]
      BY <1>8, <2>4, OtherModels, OtherPackage
    <3>2. pkg' = pkg /\ \A h \in Greenlets : pkg[h] = p => Left(h)' = Left(h)
      BY <1>8, <2>4, StepLeft DEF P
    <3>3. ModelsOf(p)
      BY <1>1, <2>2
    <3> QED BY <3>1, <3>2, <3>3 DEF ModelsOf, Has
  <2> QED BY <2>3, <2>4
<1> QED BY <1>2, <1>3, <1>5, <1>6, <1>7, <1>8 DEF Next

-----------------------------------------------------------------------------
(* The actors directory.                                                   *)

(* A step of a request takes no version out of _changes, and actors puts   *)
(* the one on disk in.                                                     *)
LEMMA ChangesGrow ==
  ASSUME TodoInv, TypeInv, NEW g \in Greenlets, NEW n, At(g, n), Step(g)
  PROVE  /\ \A q \in Pkgs : changes[q] \subseteq changes'[q] /\ (q # P(g) => changes'[q] = changes[q])
         /\ n = "actors" => ver[P(g)] \in changes'[P(g)]
<1>1. P(g) \in Pkgs /\ changes \in [Pkgs -> SUBSET {0, 1}]
  BY DEF TypeInv, TypeOK, At, P
<1>2. CASE n = "actors"
  <2>1. \/ ver[P(g)] \in changes[P(g)] /\ changes' = changes
        \/ changes' = [changes EXCEPT ![P(g)] = @ \union {ver[P(g)]}]
    BY <1>2, StepIs DEF Actors
  <2> QED BY <1>1, <2>1
<1> QED BY <1>2, StepKeeps

(* A package runs only after its directory was walked.                     *)
LEMMA WalkedStep == TodoInv /\ TypeInv /\ WalkedInv /\ [Next]_vars => WalkedInv'
<1> SUFFICES ASSUME TodoInv, TypeInv, WalkedInv, [Next]_vars PROVE WalkedInv'
  OBVIOUS
<1>0. Boot \in Greenlets /\ Clients \subseteq Greenlets
  BY DEF Greenlets
<1>1. CASE UNCHANGED vars \/ Start \/ BootDone \/ \E q \in Pkgs : Edit(q)
  <2>1. UNCHANGED <<running, changes, todo, pkg>>
    BY <1>1 DEF vars, registry, Start, BootDone, Edit
  <2> QED BY <2>1, TodoKept DEF WalkedInv, Has
<1>2. CASE Crash \/ Die
  <2>1. \A p \in Pkgs : running'[p] = FALSE
    BY <1>2, FreshFacts DEF Crash, Die
  <2>2. \A g \in Greenlets : Left(g)' = {}
    BY <1>2, FreshFacts DEF Crash, Die
  <2> QED BY <2>1, <2>2 DEF WalkedInv, Has
<1>3. ASSUME NEW c \in Greenlets, \A h \in Greenlets \ {c} : Left(h)' = Left(h) /\ pkg'[h] = pkg[h],
             UNCHANGED <<running, changes>>,
             (\E e \in Left(c)' : e.do = "running") => \E e \in Left(c)' : e.do = "actors"
      PROVE  WalkedInv'
  BY <1>3 DEF WalkedInv, Has
<1>4. ASSUME NEW q \in Pkgs, BootNext(q) PROVE WalkedInv'
  <2>1. \A e \in Left(Boot)' : e.do # "running"
    BY <1>4, BootNextLeft DEF Dos, Do
  <2>2. UNCHANGED <<running, changes>>
    BY <1>4 DEF BootNext, registry
  <2> QED BY <1>0, <1>3, <1>4, <2>1, <2>2, BootNextLeft
<1>5. ASSUME NEW c \in Clients, NEW q \in Pkgs, NEW op \in Ops, Request(c, q, op) PROVE WalkedInv'
  <2>1. UNCHANGED <<running, changes>>
    BY <1>5 DEF Request, registry
  <2>2. (\E e \in Left(c)' : e.do = "running") => \E e \in Left(c)' : e.do = "actors"
    BY <1>5, RequestLeft DEF Has
  <2> QED BY <1>0, <1>3, <1>5, <2>1, <2>2, RequestLeft
<1>6. ASSUME NEW c \in Clients, NEW q \in Pkgs, NEW f \in Files, Call(c, q, f) PROVE WalkedInv'
  <2>1. UNCHANGED <<running, changes>>
    BY <1>6 DEF Call, registry
  <2>2. \A e \in Left(c)' : e.do # "running"
    BY <1>6, CallLeft
  <2> QED BY <1>0, <1>3, <1>6, <2>1, <2>2, CallLeft
<1>7. ASSUME NEW g \in Greenlets, Step(g) PROVE WalkedInv'
  <2>1. PICK n \in Names : At(g, n) /\ Effect(g, n)
    BY <1>7, StepLeft
  <2>2. pkg' = pkg /\ (\A h \in Greenlets \ {g} : Left(h)' = Left(h)) /\ P(g) \in Pkgs /\ P(g) = pkg[g]
    BY <1>7, <2>1, StepLeft DEF TypeInv, TypeOK, At, P
  <2>3. /\ Left(g) = {Head(todo[g])} \union Rest(g) /\ Head(todo[g]).do = n /\ (\A e \in Rest(g) : e.do \in After(n))
        /\ Has(g, n)
    BY <2>1, NextStep
  <2>4. /\ \A q \in Pkgs : changes[q] \subseteq changes'[q]
        /\ n = "actors" => ver[P(g)] \in changes'[P(g)]
    BY <1>7, <2>1, ChangesGrow
  <2>5. ASSUME NEW h \in Greenlets, Has(h, "running")
        PROVE  pkg[h] \in Pkgs
    BY <2>5, HasLeft DEF TypeInv, TypeOK
  <2>6. ASSUME NEW h \in Greenlets, Has(h, "running"), ~Has(h, "actors")
        PROVE  changes'[pkg[h]] # {}
    BY <2>4, <2>5, <2>6 DEF WalkedInv
  <2>7. ASSUME NEW p \in Pkgs, running'[p] PROVE changes'[p] # {}
    <3>1. CASE running[p]
      BY <2>4, <3>1 DEF WalkedInv
    <3>2. CASE ~running[p]
      <4>1. running'[p] # running[p]
        BY <2>7, <3>2
      <4>2. n \in {"running", "tostart"}
        BY <1>7, <2>1, <4>1, StepKeeps
      <4>3. n # "tostart"
        <5>1. SUFFICES ASSUME n = "tostart" PROVE FALSE
          OBVIOUS
        <5>2. running' = [running EXCEPT ![P(g)] = FALSE]
          BY <1>7, <2>1, <5>1, StepIs DEF ToStart
        <5> QED BY <2>7, <3>2, <5>2 DEF TypeInv, TypeOK
      <4>4. n = "running" /\ p = P(g)
        <5>1. running' = [running EXCEPT ![P(g)] = TRUE]
          BY <1>7, <2>1, <4>2, <4>3, StepIs DEF Running
        <5> QED BY <4>1, <4>2, <4>3, <5>1 DEF TypeInv, TypeOK
      <4>5. ~Has(g, "actors")
        BY <2>3, <4>4 DEF Has, After, Setup
      <4> QED BY <2>2, <2>3, <2>6, <4>4, <4>5
    <3> QED BY <3>1, <3>2
  <2>8. ASSUME NEW h \in Greenlets, Has(h, "running")', ~Has(h, "actors")' PROVE changes'[pkg'[h]] # {}
    <3>1. CASE h # g
      <4>1. Has(h, "running") /\ ~Has(h, "actors")
        BY <2>2, <2>8, <3>1 DEF Has
      <4> QED BY <2>2, <2>6, <4>1
    <3>2. CASE h = g
      <4>1. Left(g)' # {} /\ ~Raises(g, n)
        BY <1>7, <2>8, <3>2, DropLeft DEF Has, Raises
      <4>2. \E e \in Dos(StartNames \union {"saved"}) : e.do = "actors"
        <5>1. "actors" \in StartNames \union {"saved"}
          BY DEF StartNames
        <5> HIDE DEF StartNames
        <5> QED BY <5>1, DosHas
      <4>3. Left(g)' # Dos(StartNames \union {"saved"}) \union Rest(g)
        BY <2>8, <3>2, <4>2 DEF Has
      <4>4. /\ \A e \in Dos({"config", "prepare", "installed"}) : e.do # "running"
            /\ Do("models_add").do # "running"
            /\ \A e \in Dos({"models", "actors", "chatflows"}) : e.do # "running"
            /\ \A e \in {Load(f) : f \in AllFiles(P(g))} : e.do # "running"
        BY DEF Dos, Do, Load
      <4>5. Rest(g) \subseteq Left(g)' /\ \E e \in Rest(g) : e.do = "running"
        BY <2>1, <2>8, <3>2, <4>1, <4>3, <4>4 DEF Effect, Has
      <4>6. Has(g, "running") /\ \A e \in Rest(g) : e.do # "actors"
        BY <2>3, <2>8, <3>2, <4>5 DEF Has
      <4>7. CASE n = "actors"
        BY <2>2, <2>4, <3>2, <4>7
      <4>8. CASE n # "actors"
        <5>1. ~Has(g, "actors")
          BY <2>3, <4>6, <4>8 DEF Has
        <5> QED BY <2>2, <2>6, <3>2, <4>6, <5>1
      <4> QED BY <4>7, <4>8
    <3> QED BY <3>1, <3>2
  <2> QED BY <2>7, <2>8 DEF WalkedInv
<1> QED BY <1>1, <1>2, <1>4, <1>5, <1>6, <1>7 DEF Next

(* What KnownInv says of one package.                                      *)
KnownOf(p) ==
    /\ ver[p] = 0 => changes[p] \subseteq {0} /\ \A f \in AllFiles(p) : <<Code[p][f], 1>> \notin loaded
    /\ \A f \in AllFiles(p) : <<Code[p][f], ver[p]>> \in loaded => <<p, f, ver[p]>> \in meta
    /\ ver[p] \in changes[p] => \A f \in AllFiles(p) : <<Code[p][f], ver[p]>> \in loaded \/ Pending(p, f)
    /\ changes[p] # {} => \A f \in AllFiles(p) : (\E v \in {0, 1} : <<p, f, v>> \in meta) \/ Pending(p, f)

(* The files that are still to be loaded stay so while nothing is loaded.  *)
LEMMA PendingKept ==
  ASSUME TodoInv, NEW g \in Greenlets, (\A e \in Left(g) : e.do # "file"),
         \A h \in Greenlets \ {g} : Left(h)' = Left(h) /\ pkg'[h] = pkg[h], NEW p, NEW f
  PROVE  Pending(p, f) => Pending(p, f)'
<1>1. ASSUME NEW h \in Greenlets, pkg[h] = p, Load(f) \in Left(h) PROVE h # g
  BY <1>1 DEF Load
<1> QED BY <1>1 DEF Pending

(* The state of a package's directory is the same, and so are its texts.   *)
LEMMA KnownKept ==
  ASSUME NEW p \in Pkgs, KnownOf(p), ver'[p] = ver[p], changes'[p] = changes[p],
         \A f \in AllFiles(p), v \in {0, 1} : <<Code[p][f], v>> \in loaded' <=> <<Code[p][f], v>> \in loaded,
         \A f \in AllFiles(p), v \in {0, 1} : <<p, f, v>> \in meta => <<p, f, v>> \in meta',
         \A f \in AllFiles(p) : Pending(p, f) => Pending(p, f)',
         TypeInv
  PROVE  KnownOf(p)'
<1>1. ver[p] \in {0, 1}
  BY DEF TypeInv, TypeOK
<1> QED BY <1>1 DEF KnownOf, AllFiles

(* Two files with one text belong to a package that shares.                *)
LEMMA OwnText ==
  ASSUME NEW p \in Pkgs, ~Shares(p), NEW f \in AllFiles(p), NEW q \in Pkgs, NEW h \in AllFiles(q), NEW v, NEW w,
         <<Code[p][f], v>> = <<Code[q][h], w>>
  PROVE  p = q /\ f = h /\ v = w
<1>1. Code[p][f] = Code[q][h] /\ v = w
  OBVIOUS
<1>2. <<p, f>> = <<q, h>>
  BY <1>1 DEF Shares
<1> QED BY <1>1, <1>2

(* A walk of the directory.                                                *)
LEMMA KnownActors ==
  ASSUME TodoInv, TypeInv, NEW g \in Greenlets, At(g, "actors"), Step(g), NEW p \in Pkgs, KnownOf(p)
  PROVE  KnownOf(p)'
<1>1. pkg' = pkg /\ \A h \in Greenlets \ {g} : Left(h)' = Left(h)
  BY StepLeft
<1>2. UNCHANGED <<ver, loaded, meta>>
  BY StepKeeps
<1>3. \A f \in AllFiles(p) : Pending(p, f) => Pending(p, f)'
  BY <1>1, AtOnce, PendingKept
<1>4. CASE changes'[p] = changes[p]
  BY <1>2, <1>3, <1>4, KnownKept
<1>5. CASE changes'[p] # changes[p]
  <2>1. p = P(g) /\ p = pkg[g]
    BY <1>5, ChangesGrow DEF P
  <2>2. ver[p] \notin changes[p] /\ changes'[p] = changes[p] \union {ver[p]}
    <3>1. Actors(g)
      BY StepIs
    <3> QED BY <1>5, <2>1, <3>1 DEF Actors, TypeInv, TypeOK
  <2>3. Left(g)' = {Load(f) : f \in AllFiles(p)} \union Rest(g)
    <3>1. PICK n \in Names : At(g, n) /\ Effect(g, n)
      BY StepLeft
    <3>2. n = "actors"
      BY <3>1 DEF At
    <3> QED BY <2>1, <2>2, <3>1, <3>2 DEF Effect, Raises, Raising
  <2>4. \A f \in AllFiles(p) : Pending(p, f)'
    BY <1>1, <2>1, <2>3 DEF Pending
  <2>5. ver[p] \in {0, 1}
    BY DEF TypeInv, TypeOK
  <2> QED BY <1>2, <2>2, <2>4, <2>5 DEF KnownOf, AllFiles
<1> QED BY <1>4, <1>5

(* An actor file is loaded, or known already.                              *)
LEMMA KnownFile ==
  ASSUME TodoInv, TypeInv, NEW g \in Greenlets, At(g, "file"), Step(g),
         NEW p \in Pkgs, p \notin spoiled', ~Shares(p), KnownOf(p)
  PROVE  KnownOf(p)'
<1> DEFINE q == P(g)
           k == Head(todo[g]).file
           text == <<Code[q][k], ver[q]>>
<1>1. pkg' = pkg /\ (\A h \in Greenlets \ {g} : Left(h)' = Left(h)) /\ UNCHANGED <<ver, changes>>
  BY StepLeft, StepKeeps
<1>2. q \in Pkgs /\ ver[q] \in {0, 1} /\ ver[p] \in {0, 1}
  BY DEF TypeInv, TypeOK, At, P
<1>3. /\ Left(g) = {Head(todo[g])} \union Rest(g) /\ Head(todo[g]) \in StepRec /\ Head(todo[g]).do = "file"
      /\ Head(todo[g]) \in Left(g)
  BY NextStep
<1>4. k \in AllFiles(q)
  BY <1>3 DEF TodoInv, P
<1>5. \A f : Load(f).file = f /\ Load(f).do = "file"
  BY DEF Load
<1>6. Head(todo[g]) = Load(k)
  BY <1>3 DEF StepRec, Load
<1>7. LoadFile(g)
  BY StepIs
<1>8. ASSUME NEW f \in AllFiles(p), ~(p = q /\ f = k), NEW v \in {0, 1} PROVE <<Code[p][f], v>> # text
  BY <1>2, <1>4, <1>8, OwnText
<1>9. ASSUME NEW f \in AllFiles(p), Pending(p, f), p # q \/ (f # k /\ Left(g)' = Rest(g)) PROVE Pending(p, f)'
  <2>1. PICK h \in Greenlets : pkg[h] = p /\ Load(f) \in Left(h)
    BY <1>9 DEF Pending
  <2>2. CASE h # g
    BY <1>1, <2>1, <2>2 DEF Pending
  <2>3. CASE h = g
    <3>1. f # k /\ Left(g)' = Rest(g)
      BY <1>9, <2>1, <2>3 DEF P
    <3>2. Load(f) # Load(k)
      BY <1>5, <3>1
    <3>3. Load(f) \in Left(g)'
      BY <1>3, <1>6, <2>1, <2>3, <3>1, <3>2
    <3> QED BY <1>1, <2>1, <2>3, <3>3 DEF Pending
  <2> QED BY <2>2, <2>3
<1>10. Next1(g) => Left(g)' = Rest(g)
  BY <1>1, PopLeft
<1> HIDE DEF q, k, text
<1>11. CASE p # q
  <2>1. \A f \in AllFiles(p), v \in {0, 1} : <<Code[p][f], v>> \in loaded' <=> <<Code[p][f], v>> \in loaded
    <3>1. loaded' = loaded \/ loaded' = loaded \union {text}
      BY <1>7 DEF LoadFile, text, q, k
    <3> QED BY <1>8, <1>11, <3>1
  <2>2. \A f \in AllFiles(p), v \in {0, 1} : <<p, f, v>> \in meta => <<p, f, v>> \in meta'
    <3>1. meta' = meta \/ meta' = {m \in meta : m[1] # q \/ m[2] # k} \union {<<q, k, ver[q]>>}
      BY <1>7 DEF LoadFile, q, k
    <3> QED BY <1>11, <3>1
  <2> QED BY <1>1, <1>9, <1>11, <2>1, <2>2, KnownKept
<1>12. CASE p = q /\ text \in loaded /\ UNCHANGED <<loaded, meta>> /\ Next1(g)
  <2>1. \A f \in AllFiles(p) : f # k => (Pending(p, f) => Pending(p, f)')
    BY <1>9, <1>10, <1>12
  <2>2. <<Code[p][k], ver[p]>> \in loaded /\ <<p, k, ver[p]>> \in meta
    BY <1>4, <1>12 DEF text, KnownOf
  <2> QED BY <1>1, <1>2, <1>12, <2>1, <2>2 DEF KnownOf, AllFiles
<1>13. CASE /\ p = q /\ loaded' = loaded \union {text} /\ Next1(g)
            /\ meta' = {m \in meta : m[1] # q \/ m[2] # k} \union {<<q, k, ver[q]>>}
  <2>1. \A f \in AllFiles(p) : f # k => (Pending(p, f) => Pending(p, f)')
    BY <1>9, <1>10, <1>13
  <2>2. <<Code[p][k], ver[p]>> \in loaded' /\ <<p, k, ver[p]>> \in meta'
    BY <1>13 DEF text
  <2>3. ASSUME NEW f \in AllFiles(p), f # k, NEW v \in {0, 1}
        PROVE  /\ <<Code[p][f], v>> \in loaded' <=> <<Code[p][f], v>> \in loaded
               /\ <<p, f, v>> \in meta => <<p, f, v>> \in meta'
    <3>1. <<Code[p][f], v>> # text
      BY <1>8, <2>3
    <3>2. <<p, f, v>>[2] # k
      BY <2>3
    <3> QED BY <1>13, <3>1, <3>2
  <2>4. ASSUME ver[p] = 0, NEW f \in AllFiles(p), <<Code[p][f], 1>> \in loaded' PROVE FALSE
    <3>1. <<Code[p][f], 1>> \notin loaded
      BY <2>4 DEF KnownOf
    <3>2. <<Code[p][f], 1>> = text
      BY <1>13, <2>4, <3>1
    <3> QED BY <1>13, <2>4, <3>2 DEF text
  <2>5. ASSUME NEW f \in AllFiles(p)
        PROVE  /\ <<Code[p][f], ver[p]>> \in loaded' => <<p, f, ver[p]>> \in meta'
               /\ ver[p] \in changes[p] => <<Code[p][f], ver[p]>> \in loaded' \/ Pending(p, f)'
               /\ changes[p] # {} => (\E v \in {0, 1} : <<p, f, v>> \in meta') \/ Pending(p, f)'
    <3>1. CASE f = k
      BY <1>2, <2>2, <3>1
    <3>2. CASE f # k
      <4>1. /\ <<Code[p][f], ver[p]>> \in loaded => <<p, f, ver[p]>> \in meta
            /\ ver[p] \in changes[p] => <<Code[p][f], ver[p]>> \in loaded \/ Pending(p, f)
            /\ changes[p] # {} => (\E v \in {0, 1} : <<p, f, v>> \in meta) \/ Pending(p, f)
        BY DEF KnownOf
      <4>2. <<Code[p][f], ver[p]>> \in loaded' <=> <<Code[p][f], ver[p]>> \in loaded
        BY <1>2, <2>3, <3>2
      <4>3. \A v \in {0, 1} : <<p, f, v>> \in meta => <<p, f, v>> \in meta'
        BY <2>3, <3>2
      <4>4. Pending(p, f) => Pending(p, f)'
        BY <2>1, <3>2
      <4>5. <<p, f, ver[p]>> \in meta => <<p, f, ver[p]>> \in meta'
        BY <1>2, <4>3
      <4>6. (\E v \in {0, 1} : <<p, f, v>> \in meta) => \E v \in {0, 1} : <<p, f, v>> \in meta'
        BY <4>3
      <4> QED BY <4>1, <4>2, <4>4, <4>5, <4>6
    <3> QED BY <3>1, <3>2
  <2> QED BY <1>1, <2>4, <2>5 DEF KnownOf, AllFiles
<1>14. p = q => \/ text \in loaded /\ UNCHANGED <<loaded, meta>> /\ Next1(g)
                \/ /\ loaded' = loaded \union {text} /\ Next1(g)
                   /\ meta' = {m \in meta : m[1] # q \/ m[2] # k} \union {<<q, k, ver[q]>>}
  BY <1>7 DEF LoadFile, text, q, k
<1> QED BY <1>11, <1>12, <1>13, <1>14

(* The actors of a package are removed.                                    *)
LEMMA KnownRemove ==
  ASSUME TodoInv, TypeInv, NEW g \in Greenlets, At(g, "actors_remove"), Step(g),
         NEW p \in Pkgs, p \notin spoiled', ~Shares(p), KnownOf(p)
  PROVE  KnownOf(p)'
<1>1. pkg' = pkg /\ (\A h \in Greenlets \ {g} : Left(h)' = Left(h)) /\ UNCHANGED <<ver, changes>>
  BY StepLeft, StepKeeps
<1>2. \A f \in AllFiles(p) : Pending(p, f) => Pending(p, f)'
  BY <1>1, AtOnce, PendingKept
<1>3. ActorsRemove(g) /\ P(g) \in Pkgs
  BY StepIs DEF TypeInv, TypeOK, At, P
<1>4. CASE UNCHANGED <<loaded, meta>>
  BY <1>1, <1>2, <1>4, KnownKept
<1>5. CASE ~UNCHANGED <<loaded, meta>>
  <2>1. /\ p # P(g) /\ meta' = {m \in meta : m[1] # P(g)}
        /\ loaded' = loaded \ {<<Code[P(g)][f], ver[P(g)]>> : f \in AllFiles(P(g))}
    BY <1>3, <1>5 DEF ActorsRemove
  <2>2. ASSUME NEW f \in AllFiles(p), NEW v \in {0, 1}
        PROVE  <<Code[p][f], v>> \notin {<<Code[P(g)][h], ver[P(g)]>> : h \in AllFiles(P(g))}
    <3>1. ASSUME NEW h \in AllFiles(P(g)), <<Code[p][f], v>> = <<Code[P(g)][h], ver[P(g)]>> PROVE FALSE
      BY <1>3, <2>1, <2>2, <3>1, OwnText
    <3> QED BY <3>1
  <2> QED BY <1>1, <1>2, <2>1, <2>2, KnownKept
<1> QED BY <1>4, <1>5

(* A text that is loaded keeps its actor, and a file that was walked is    *)
(* loaded, or about to be.                                                 *)
LEMMA KnownStep == TodoInv /\ TypeInv /\ KnownInv /\ [Next]_vars => KnownInv'
<1> SUFFICES ASSUME TodoInv, TypeInv, KnownInv, [Next]_vars, NEW p \in Pkgs, p \notin spoiled', p \notin reverted', ~Shares(p)
             PROVE  KnownOf(p)'
  <2>1. KnownInv' <=> \A q \in Pkgs : q \notin spoiled' /\ q \notin reverted' /\ ~Shares(q) => KnownOf(q)'
    BY DEF KnownInv, KnownOf, Shares, AllFiles
  <2> QED BY <2>1
<1>0. Boot \in Greenlets /\ Clients \subseteq Greenlets
  BY DEF Greenlets
<1>a. ASSUME p \notin spoiled, p \notin reverted PROVE KnownOf(p)
  BY <1>a DEF KnownInv, KnownOf
<1>1. CASE UNCHANGED vars \/ Start \/ BootDone
  <2>1. UNCHANGED <<ver, changes, loaded, meta, todo, pkg, spoiled, reverted>>
    BY <1>1 DEF vars, persistent, registry, history, Start, BootDone
  <2>2. \A f \in AllFiles(p) : Pending(p, f) => Pending(p, f)'
    BY <2>1, TodoKept DEF Pending
  <2> QED BY <1>a, <2>1, <2>2, KnownKept
<1>2. ASSUME NEW q \in Pkgs, Edit(q) PROVE KnownOf(p)'
  <2>1. UNCHANGED <<changes, loaded, meta, todo, pkg, spoiled>> /\ reverted \subseteq reverted'
        /\ ver' = [ver EXCEPT ![q] = 1 - @] /\ (ver[q] = 1 => q \in reverted')
    BY <1>2 DEF Edit, registry
  <2>2. KnownOf(p) /\ ver[p] \in {0, 1} /\ ver \in [Pkgs -> {0, 1}]
    BY <1>a, <2>1 DEF TypeInv, TypeOK
  <2>3. \A f \in AllFiles(p) : Pending(p, f) => Pending(p, f)'
    BY <2>1, TodoKept DEF Pending
  <2>4. CASE p # q
    <3>1. ver'[p] = ver[p]
      BY <2>1, <2>2, <2>4
    <3> QED BY <2>1, <2>2, <2>3, <3>1, KnownKept
  <2>5. CASE p = q
    <3>1. ver[p] = 0 /\ ver'[p] = 1
      BY <2>1, <2>2, <2>5
    <3>2. ver'[p] \notin changes[p] /\ \A f \in AllFiles(p) : <<Code[p][f], ver'[p]>> \notin loaded
      BY <2>2, <3>1 DEF KnownOf
    <3>3. changes[p] # {} => \A f \in AllFiles(p) : (\E v \in {0, 1} : <<p, f, v>> \in meta) \/ Pending(p, f)'
      BY <2>2, <2>3 DEF KnownOf
    <3> QED BY <2>1, <3>1, <3>2, <3>3 DEF KnownOf, AllFiles
  <2> QED BY <2>4, <2>5
<1>3. CASE Crash \/ Die
  <2>1. changes'[p] = {} /\ loaded' = {}
    BY <1>3, FreshFacts DEF Crash, Die
  <2> QED BY <2>1 DEF KnownOf
<1>4. ASSUME NEW c \in Greenlets, Left(c) = {}, \A h \in Greenlets \ {c} : Left(h)' = Left(h) /\ pkg'[h] = pkg[h],
             UNCHANGED <<ver, changes, loaded, meta, spoiled, reverted>>
      PROVE  KnownOf(p)'
  <2>1. \A e \in Left(c) : e.do # "file"
    BY <1>4
  <2>2. \A f \in AllFiles(p) : Pending(p, f) => Pending(p, f)'
    BY <1>4, <2>1, PendingKept
  <2> QED BY <1>4, <1>a, <2>2, KnownKept
<1>5. ASSUME NEW q \in Pkgs, BootNext(q) PROVE KnownOf(p)'
  <2>1. UNCHANGED <<ver, changes, loaded, meta, spoiled, reverted>>
    BY <1>5 DEF BootNext, persistent, registry, history
  <2> QED BY <1>0, <1>4, <1>5, <2>1, BootNextLeft
<1>6. ASSUME NEW c \in Clients, NEW q \in Pkgs, NEW op \in Ops, Request(c, q, op) PROVE KnownOf(p)'
  <2>1. UNCHANGED <<ver, changes, loaded, meta, spoiled, reverted>>
    BY <1>6 DEF Request, persistent, registry
  <2> QED BY <1>0, <1>4, <1>6, <2>1, RequestLeft
<1>7. ASSUME NEW c \in Clients, NEW q \in Pkgs, NEW f \in Files, Call(c, q, f) PROVE KnownOf(p)'
  <2>1. UNCHANGED <<ver, changes, loaded, meta, spoiled, reverted>>
    BY <1>7 DEF Call, persistent, registry
  <2> QED BY <1>0, <1>4, <1>7, <2>1, CallLeft
<1>8. ASSUME NEW g \in Greenlets, Step(g) PROVE KnownOf(p)'
  <2>1. PICK n \in Names : At(g, n)
    BY <1>8, StepLeft
  <2>2. reverted' = reverted /\ spoiled \subseteq spoiled'
    <3>1. CASE n = "file"
      BY <1>8, <2>1, <3>1, StepIs DEF LoadFile
    <3>2. CASE n = "actors_remove"
      BY <1>8, <2>1, <3>2, StepIs DEF ActorsRemove
    <3> QED BY <1>8, <2>1, <3>1, <3>2, StepKeeps
  <2>3. KnownOf(p)
    BY <1>a, <2>2
  <2>4. CASE n = "actors"
    BY <1>8, <2>1, <2>3, <2>4, KnownActors
  <2>5. CASE n = "file"
    BY <1>8, <2>1, <2>3, <2>5, KnownFile
  <2>6. CASE n = "actors_remove"
    BY <1>8, <2>1, <2>3, <2>6, KnownRemove
  <2>7. CASE n \notin {"actors", "file", "actors_remove"}
    <3>1. UNCHANGED <<ver, changes, loaded, meta>>
      BY <1>8, <2>1, <2>7, StepKeeps
    <3>2. pkg' = pkg /\ \A h \in Greenlets \ {g} : Left(h)' = Left(h)
      BY <1>8, StepLeft
    <3>3. \A f \in AllFiles(p) : Pending(p, f) => Pending(p, f)'
      BY <2>1, <2>7, <3>2, AtOnce, PendingKept
    <3> QED BY <2>3, <3>1, <3>3, KnownKept
  <2> QED BY <2>4, <2>5, <2>6, <2>7
<1> QED BY <1>1, <1>2, <1>3, <1>5, <1>6, <1>7, <1>8 DEF Next

-----------------------------------------------------------------------------
(* The theorems.                                                           *)

(* A server that never ran.                                                *)
LEMMA PackagesInit == Init => PackagesInv
<1> SUFFICES ASSUME Init PROVE PackagesInv
  OBVIOUS
<1>1. \A g \in Greenlets : todo[g] = <<>> /\ ~Busy(g) /\ Left(g) = {}
  BY GoodNone DEF Init, Busy, Left
<1>2. TypeInv
  <2>1. status \in [Pkgs -> Status]
    BY DEF Init, Status
  <2>2. ver \in [Pkgs -> {0, 1}] /\ running \in [Pkgs -> BOOLEAN] /\ models \in [Pkgs -> {"none", "partial", "loaded"}]
        /\ changes \in [Pkgs -> SUBSET {0, 1}] /\ pkg \in [Greenlets -> Pkgs \union {None}]
        /\ actors \in [Pkgs -> {None} \union SUBSET Files] /\ (\A p \in Pkgs : actors[p] = None)
        /\ meta = {} /\ cmds = {} /\ pending = {} /\ phase = "down" /\ off = {}
    BY DEF Init
  <2> QED BY <1>1, <2>1, <2>2 DEF TypeInv, TypeOK
<1>3. TodoInv
  <2>1. <<>> \in Seq(StepRec) /\ Sorted(<<>>)
    BY GoodNone DEF Good
  <2>2. todo \in [Greenlets -> Seq(StepRec)]
    BY <2>1 DEF Init
  <2> QED BY <1>1, <2>1, <2>2 DEF TodoInv
<1>4. PhaseInv /\ BootInv /\ OffInv /\ AloneInv
  BY <1>1 DEF Init, PhaseInv, BootInv, OffInv, AloneInv
<1>5. ModelsInv
  BY <1>1 DEF Init, ModelsInv, Has
<1>6. WalkedInv
  BY <1>1 DEF Init, WalkedInv, Has
<1>7. KnownInv
  BY DEF Init, KnownInv
<1> QED BY <1>2, <1>3, <1>4, <1>5, <1>6, <1>7 DEF PackagesInv

(* The invariant holds in every reachable state.                           *)
LEMMA PackagesInductive == Spec => []PackagesInv
<1>1. PackagesInv /\ [Next]_vars => PackagesInv'
  BY TodoStep, TypeStep, PhaseStep, BootStep, OffStep, AloneStep, ModelsStep, WalkedStep, KnownStep DEF PackagesInv
<1> QED BY <1>1, PackagesInit, PTL DEF Spec

(* The state is well-typed: a package has one of the seven statuses of its *)
(* schema, the registries name known packages and files only, and a        *)
(* request is always about a package.                                      *)
THEOREM PackageTypes == Spec => []TypeOK
<1>1. PackagesInv => TypeOK
  BY DEF PackagesInv, TypeInv
<1> QED BY <1>1, PackagesInductive, PTL

(* A package that was disabled, and that nobody asked anything of since,   *)
(* stays disabled over every crash and restart, and no start loop runs it. *)
THEOREM DisabledStays == Spec => []DisabledStaysDown
<1>1. PackagesInv => DisabledStaysDown
  BY DEF PackagesInv, OffInv, DisabledStaysDown
<1> QED BY <1>1, PackagesInductive, PTL

(* The models property: a package that never had two requests at a time    *)
(* never runs without its models, whatever load of them failed.            *)
THEOREM ModelsLoaded == Spec => []RunsWithModels
<1>1. PackagesInv => RunsWithModels
  BY DEF PackagesInv, ModelsInv, RunsWithModels
<1> QED BY <1>1, PackagesInductive, PTL

(* Outside of a walk no file is left to be loaded.                         *)
LEMMA NothingPending ==
  ASSUME TodoInv, NEW p, ~Loading(p), NEW f
  PROVE  ~Pending(p, f)
<1>1. ASSUME NEW g \in Greenlets, pkg[g] = p, Load(f) \in Left(g) PROVE FALSE
  <2>1. Busy(g)
    BY <1>1, BusyLeft
  <2>2. PICK n : At(g, n)
    BY <2>1 DEF At
  <2>3. Load(f).do = "file"
    BY DEF Load
  <2>4. n = "file"
    BY <1>1, <2>2, <2>3, AtOnce
  <2> QED BY <1>1, <2>2, <2>4 DEF Loading, P
<1> QED BY <1>1 DEF Pending

(* actors_load: the directories in _changes and the texts in the code      *)
(* loader are enough to tell what the server has; a package that runs has  *)
(* all its actors, those on disk once their directory was walked.          *)
THEOREM ActorsLoadedOnce == Spec => []LoadedOnce
<1>1. PackagesInv => LoadedOnce
  <2> SUFFICES ASSUME PackagesInv, NEW p \in Pkgs, p \notin spoiled, p \notin reverted, ~Loading(p), ~Shares(p)
               PROVE  /\ running[p] => \A f \in AllFiles(p) : \E v \in {0, 1} : <<p, f, v>> \in meta
                      /\ ver[p] \in changes[p] => \A f \in AllFiles(p) : <<p, f, ver[p]>> \in meta
    BY DEF LoadedOnce
  <2>1. TodoInv /\ WalkedInv /\ KnownOf(p)
    BY DEF PackagesInv, KnownInv, KnownOf
  <2>2. \A f \in AllFiles(p) : ~Pending(p, f)
    BY <2>1, NothingPending
  <2>3. running[p] => changes[p] # {}
    BY <2>1 DEF WalkedInv
  <2>4. running[p] => \A f \in AllFiles(p) : \E v \in {0, 1} : <<p, f, v>> \in meta
    BY <2>1, <2>2, <2>3 DEF KnownOf
  <2>5. ver[p] \in changes[p] => \A f \in AllFiles(p) : <<p, f, ver[p]>> \in meta
    BY <2>1, <2>2 DEF KnownOf
  <2> QED BY <2>4, <2>5
<1> QED BY <1>1, PackagesInductive, PTL

(* ThreebotServer.start leaves no package behind: when its loop is through *)
(* every package runs, is in error, or was never to be started.            *)
THEOREM BootComplete == Spec => BootLeavesNoneBehind
<1>1. ASSUME PackagesInv, [Next]_vars
      PROVE  [phase = "booting" /\ phase' = "up" =>
                \A p \in Pkgs : running[p] \/ status[p] \in {"init", "config", "disabled", "error"}]_vars
  <2> SUFFICES ASSUME phase = "booting", phase' = "up"
               PROVE  \A p \in Pkgs : running[p] \/ status[p] \in {"init", "config", "disabled", "error"}
    OBVIOUS
  <2>1. BootDone
    <3>1. phase' # phase
      OBVIOUS
    <3>2. ~UNCHANGED vars
      BY <3>1 DEF vars
    <3>3. \A g \in Greenlets : ~Step(g)
      <4> SUFFICES ASSUME NEW g \in Greenlets, Step(g) PROVE FALSE
        OBVIOUS
      <4>1. PICK n \in Names : At(g, n) /\ Effect(g, n)
        BY <1>1, StepLeft DEF PackagesInv
      <4> QED BY <4>1 DEF Effect, Raises, Abort
    <3> QED BY <1>1, <3>2, <3>3 DEF Next, Crash, Start, Die, BootNext, Edit, Request, Call
  <2>2. ~Busy(Boot) /\ pending = {}
    BY <2>1 DEF BootDone
  <2> QED BY <1>1, <2>2 DEF PackagesInv, BootInv, Settled
<1> QED BY <1>1, PackagesInductive, PTL DEF Spec, BootLeavesNoneBehind
=============================================================================
