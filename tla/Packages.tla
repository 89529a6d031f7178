------------------------------ MODULE Packages ------------------------------
(***************************************************************************)
(* The life of the packages of a threebot server: ThreeBotPackage, the    *)
(* start loop of ThreebotServer, the actor registry of GedisServer and    *)
(* the command cache of its Handler.                                       *)
(*                                                                         *)
(* The status of a package is a property of an autosaved BCDB object, so  *)
(* every assignment to it is on disk before the next statement; all the   *)
(* rest is memory of the server process.  The server runs greenlets: a    *)
(* request can be interrupted wherever it saves, or runs code of the      *)
(* package's author, and these are the places where a step ends here.     *)
(* A request is a sequence of such steps, kept in todo.                   *)
(***************************************************************************)
EXTENDS Integers, Sequences, SequencesExt, FiniteSets

CONSTANTS Pkgs,      \* the packages the server knows
          Core,      \* requiredpackages of _packages_core_init
          Files,     \* names of actor files
          Code,      \* Code[p]: the text of each actor file of package p
          Clients,   \* greenlets that serve requests
          Ops,       \* the package operations the clients ask for
          Boot,      \* the greenlet that runs ThreebotServer.start
          MaxOps,    \* bound on requests
          MaxFaults, \* bound on exceptions raised by loaded code
          MaxCrash,  \* bound on crashes of the server process
          MaxEdits,  \* bound on changes of the files of a package
          None

ASSUME PackagesAssumption ==
  /\ Core \subseteq Pkgs
  /\ Boot \notin Clients
  /\ IsFiniteSet(Files) /\ \A p \in Pkgs : DOMAIN Code[p] \subseteq Files
  /\ Ops \subseteq {"install", "start", "stop", "uninstall", "disable", "enable", "reload"}
  /\ MaxOps \in Nat /\ MaxFaults \in Nat /\ MaxCrash \in Nat /\ MaxEdits \in Nat

VARIABLES status,   \* persistent status of each package
          ver,      \* 0 or 1: the version of the package's files on disk
          phase,    \* "down", "booting" or "up"
          pending,  \* packages the start loop has not reached yet
          running,  \* running attribute
          models,   \* _models: "none", "partial" or "loaded"
          changes,  \* versions of the actors directory in _changes
          loaded,   \* <<text, version>> pairs in codeloader._hash_to_codeobj
          actors,   \* _actors: None, or a set of actor files
          meta,     \* cmds_meta: <<package, file, version>> triples
          cmds,     \* Handler.cmds: <<package, file>> pairs answered before
          todo,     \* what is left of the request of each greenlet
          pkg,      \* and the package it is about
          opsLeft, faultsLeft, crashLeft, editsLeft,  \* the bounds
          off,      \* history: disabled, and nothing was asked of it since
          spoiled,  \* history: actors failed to load, or were removed
          overlap,  \* history: packages that had two requests at a time
          reverted  \* history: files went back to an earlier version

persistent == <<status, ver>>
registry   == <<models, changes, loaded, actors, meta, cmds>>
bounds     == <<opsLeft, faultsLeft, crashLeft, editsLeft>>
history    == <<off, spoiled, reverted, overlap>>
vars == <<persistent, phase, pending, running, registry, todo, pkg, bounds, history>>

Greenlets == Clients \union {Boot}
Status    == {"init", "config", "toinstall", "installed", "tostart", "disabled", "error"}

Do(name)    == [do |-> name, file |-> None]
Load(f)     == [do |-> "file", file |-> f]
Busy(g)     == todo[g] # <<>>
AllFiles(p) == DOMAIN Code[p]
Steps(p)    == SetToSeq(AllFiles(p))

-----------------------------------------------------------------------------
(* Operations as sequences of steps.                                        *)

InstallSteps == <<Do("config"), Do("prepare"), Do("installed")>>

ActorsLoad == <<Do("models"), Do("actors")>>

StartSteps ==
  <<Do("toinstall"), Do("install")>> \o ActorsLoad \o <<Do("author_start"), Do("running")>>

StopSteps == <<Do("author_stop"), Do("tostart")>>

UninstallSteps ==
  StopSteps \o <<Do("actors_remove"), Do("setconfig"), Do("author_uninstall")>>

DisableSteps == StopSteps \o <<Do("disabled")>>

EnableSteps == <<Do("init")>> \o InstallSteps

ReloadSteps == ActorsLoad \o <<Do("chatflows")>>

Program(op) ==
  CASE op = "install"   -> InstallSteps
    [] op = "start"     -> StartSteps
    [] op = "stop"      -> StopSteps
    [] op = "uninstall" -> UninstallSteps
    [] op = "disable"   -> DisableSteps
    [] op = "enable"    -> EnableSteps
    [] op = "reload"    -> ReloadSteps

-----------------------------------------------------------------------------
(* The server process.                                                      *)

\* The state of a process that has just started.
Fresh ==
  /\ running' = [p \in Pkgs |-> FALSE]
  /\ models' = [p \in Pkgs |-> "none"]
  /\ changes' = [p \in Pkgs |-> {}]
  /\ loaded' = {}
  /\ actors' = [p \in Pkgs |-> None]
  /\ meta' = {}
  /\ cmds' = {}
  /\ todo' = [g \in Greenlets |-> <<>>]
  /\ pkg' = [g \in Greenlets |-> None]
  /\ pending' = {}
  /\ spoiled' = {}
  /\ reverted' = {}
  /\ overlap' = {}

Init ==
  /\ status \in [Pkgs -> {"config", "toinstall"}]
  /\ \A p \in Core : status[p] = "config"   \* overwritten by Start
  /\ ver = [p \in Pkgs |-> 0]
  /\ phase = "down" /\ pending = {}
  /\ running = [p \in Pkgs |-> FALSE]
  /\ models = [p \in Pkgs |-> "none"] /\ loaded = {} /\ meta = {} /\ cmds = {}
  /\ changes = [p \in Pkgs |-> {}]
  /\ actors = [p \in Pkgs |-> None]
  /\ todo = [g \in Greenlets |-> <<>>]
  /\ pkg = [g \in Greenlets |-> None]
  /\ opsLeft = MaxOps /\ faultsLeft = MaxFaults
  /\ crashLeft = MaxCrash /\ editsLeft = MaxEdits
  /\ off = {} /\ spoiled = {} /\ reverted = {} /\ overlap = {}

\* The process dies, whatever its greenlets are doing.
Crash ==
  /\ phase # "down" /\ crashLeft > 0
  /\ crashLeft' = crashLeft - 1
  /\ phase' = "down"
  /\ Fresh
  /\ UNCHANGED <<persistent, opsLeft, faultsLeft, editsLeft, off>>

\* start() up to its loop over the packages: the core ones are to be started.
Start ==
  /\ phase = "down"
  /\ phase' = "booting"
  /\ pending' = Pkgs
  /\ status' = [p \in Pkgs |-> IF p \in Core THEN "tostart" ELSE status[p]]
  /\ off' = off \ Core
  /\ UNCHANGED <<ver, running, registry, todo, pkg, bounds, spoiled, reverted, overlap>>

\* The loop takes the next package: one that is to be installed is installed,
\* outside of any try; the start itself is guarded.
BootNext(p) ==
  /\ phase = "booting" /\ ~Busy(Boot) /\ p \in pending
  /\ pending' = pending \ {p}
  /\ pkg' = [pkg EXCEPT ![Boot] = p]
  /\ todo' = [todo EXCEPT ![Boot] =
       (IF status[p] = "toinstall" THEN InstallSteps ELSE <<>>) \o <<Do("bootstart")>>]
  /\ UNCHANGED <<persistent, phase, running, registry, bounds, history>>

\* All packages were handled: the rack, and with it the clients, come up.
BootDone ==
  /\ phase = "booting" /\ ~Busy(Boot) /\ pending = {}
  /\ phase' = "up"
  /\ UNCHANGED <<persistent, pending, running, registry, todo, pkg, bounds, history>>

\* Another request for the same package is under way.
Overlapping(p) ==
  overlap' = IF \E g \in Greenlets : Busy(g) /\ pkg[g] = p THEN overlap \union {p} ELSE overlap

\* A client asks for operation op on package p.
Request(c, p, op) ==
  /\ phase = "up" /\ ~Busy(c) /\ opsLeft > 0
  /\ opsLeft' = opsLeft - 1
  /\ todo' = [todo EXCEPT ![c] = Program(op)]
  /\ pkg' = [pkg EXCEPT ![c] = p]
  /\ off' = off \ {p}
  /\ Overlapping(p)
  /\ UNCHANGED <<persistent, phase, pending, running, registry, faultsLeft, crashLeft,
                 editsLeft, spoiled, reverted>>

\* A client sends a command of actor f of package p.  A command answered
\* before comes from the cache; else the actors property sees to the models and
\* then to the actors, and the command is looked up when that is done.
Call(c, p, f) ==
  /\ phase = "up" /\ ~Busy(c) /\ opsLeft > 0 /\ f \in AllFiles(p)
  /\ <<p, f>> \notin cmds
  /\ opsLeft' = opsLeft - 1
  /\ todo' = [todo EXCEPT ![c] =
       <<Do("models"), Do("actors_get"), [do |-> "lookup", file |-> f]>>]
  /\ pkg' = [pkg EXCEPT ![c] = p]
  /\ Overlapping(p)
  /\ UNCHANGED <<persistent, phase, pending, running, registry, faultsLeft, crashLeft,
                 editsLeft, off, spoiled, reverted>>

\* The files of package p change on disk.
Edit(p) ==
  /\ editsLeft > 0 /\ AllFiles(p) # {}
  /\ editsLeft' = editsLeft - 1
  /\ ver' = [ver EXCEPT ![p] = 1 - @]
  /\ reverted' = IF ver[p] = 1 THEN reverted \union {p} ELSE reverted
  /\ UNCHANGED <<status, phase, pending, running, registry, todo, pkg, opsLeft, faultsLeft,
                 crashLeft, off, spoiled, overlap>>

-----------------------------------------------------------------------------
(* Steps of a request.                                                      *)

At(g, name) == Busy(g) /\ Head(todo[g]).do = name
P(g)        == pkg[g]
Next1(g)    == todo' = [todo EXCEPT ![g] = Tail(@)]
Push(g, s)  == todo' = [todo EXCEPT ![g] = s \o Tail(@)]

\* Is the request of greenlet g inside the try of the start loop?
Guarded(g) == \E i \in DOMAIN todo[g] : todo[g][i].do = "saved"

\* An exception ends the request.  In the start loop it sets the status of the
\* package, or, raised by install(), ends the server.
Abort(g) ==
  /\ todo' = [todo EXCEPT ![g] = <<>>]
  /\ IF g # Boot
     THEN UNCHANGED <<status, phase>>
     ELSE IF Guarded(g)
          THEN status' = [status EXCEPT ![P(g)] = "error"] /\ UNCHANGED phase
          ELSE phase' = "dying" /\ UNCHANGED status
  /\ UNCHANGED <<opsLeft, crashLeft, editsLeft, pkg, pending>>

\* Mutant of Raise: the loop logs the exception and goes on.
RaiseLogged(g) ==
  /\ faultsLeft > 0
  /\ faultsLeft' = faultsLeft - 1
  /\ todo' = [todo EXCEPT ![g] = <<>>]
  /\ phase' = IF g = Boot /\ ~Guarded(g) THEN "dying" ELSE phase
  /\ UNCHANGED <<status, opsLeft, crashLeft, editsLeft, pkg, pending>>

\* The code of the package's author, or of a library, raises.
Raise(g) ==
  /\ faultsLeft > 0
  /\ faultsLeft' = faultsLeft - 1
  /\ Abort(g)

\* The exception that left start() ends the process.
Die ==
  /\ phase = "dying"
  /\ phase' = "down"
  /\ Fresh
  /\ UNCHANGED <<persistent, bounds, off>>

Plain == UNCHANGED <<phase, pending, pkg, bounds, reverted, overlap>>

SetStatus(g, name, s) ==
  /\ At(g, name)
  /\ status' = [status EXCEPT ![P(g)] = s]
  /\ Next1(g) /\ Plain
  /\ UNCHANGED <<ver, running, registry, off, spoiled>>

\* Mutant of BootStart: the loop starts whatever is not just configured.
BootStartAll(g) ==
  /\ At(g, "bootstart")
  /\ Push(g, IF status[P(g)] # "config" THEN StartSteps \o <<Do("saved")>> ELSE <<>>)
  /\ Plain
  /\ UNCHANGED <<persistent, running, registry, off, spoiled>>

\* package.status of the loop, read again after a possible install.
BootStart(g) ==
  /\ At(g, "bootstart")
  /\ Push(g, IF status[P(g)] \in {"tostart", "installed", "error"}
             THEN StartSteps \o <<Do("saved")>> ELSE <<>>)
  /\ Plain
  /\ UNCHANGED <<persistent, running, registry, off, spoiled>>

Saved(g) ==
  /\ At(g, "saved")
  /\ Next1(g) /\ Plain
  /\ UNCHANGED <<persistent, running, registry, off, spoiled>>

\* start() installs a package that is not installed; it asks twice.
MayInstall(g) ==
  /\ \/ At(g, "toinstall") /\ Push(g, IF status[P(g)] = "toinstall" THEN InstallSteps ELSE <<>>)
     \/ At(g, "install") /\ Push(g, IF status[P(g)] # "installed" THEN InstallSteps ELSE <<>>)
  /\ Plain
  /\ UNCHANGED <<persistent, running, registry, off, spoiled>>

\* config_load, when install() needs it: only init moves to config.
Config(g) ==
  /\ At(g, "config")
  /\ status' = [status EXCEPT ![P(g)] = IF @ = "init" THEN "config" ELSE @]
  /\ Next1(g) /\ Plain
  /\ UNCHANGED <<ver, running, registry, off, spoiled>>

\* The author's prepare, start, stop and uninstall: any of them may raise.
Author(g) ==
  /\ \E name \in {"prepare", "author_start", "author_stop", "author_uninstall"} : At(g, name)
  /\ \/ Next1(g) /\ UNCHANGED <<status, phase, pending, pkg, bounds>>
     \/ Raise(g)
  /\ UNCHANGED <<ver, running, registry, history>>

\* The models property: _models is set before the models are loaded ...
Models(g) ==
  /\ At(g, "models")
  /\ IF models[P(g)] = "none"
     THEN /\ models' = [models EXCEPT ![P(g)] = "partial"]
          /\ Push(g, <<Do("models_add")>>)
     ELSE Next1(g) /\ UNCHANGED models
  /\ Plain
  /\ UNCHANGED <<persistent, running, changes, loaded, actors, meta, cmds, off, spoiled>>

\* Mutant of ModelsAdd: a failed load leaves the dict that it was filling.
ModelsAddKeep(g) ==
  /\ At(g, "models_add")
  /\ \/ /\ models' = [models EXCEPT ![P(g)] = "loaded"]
        /\ Next1(g) /\ UNCHANGED <<status, phase, pending, pkg, bounds>>
     \/ Raise(g) /\ UNCHANGED models
  /\ UNCHANGED <<ver, running, changes, loaded, actors, meta, cmds, history>>

\* ... and reset when that fails, with its md5 taken out of _changes.
ModelsAdd(g) ==
  /\ At(g, "models_add")
  /\ \/ /\ models' = [models EXCEPT ![P(g)] = "loaded"]
        /\ Next1(g) /\ UNCHANGED <<status, phase, pending, pkg, bounds>>
     \/ /\ models' = [models EXCEPT ![P(g)] = "none"]
        /\ Raise(g)
  /\ UNCHANGED <<ver, running, changes, loaded, actors, meta, cmds, history>>

\* Mutant of Actors: the directory is walked only by the first load.
ActorsFirstOnly(g) ==
  LET p == P(g) IN
  /\ At(g, "actors")
  /\ IF actors[p] # None
     THEN Push(g, <<>>) /\ changes' = [changes EXCEPT ![p] = @ \union {ver[p]}] /\ UNCHANGED actors
     ELSE /\ changes' = [changes EXCEPT ![p] = @ \union {ver[p]}]
          /\ actors' = [actors EXCEPT ![p] = {}]
          /\ Push(g, [i \in DOMAIN Steps(p) |-> Load(Steps(p)[i])])
  /\ Plain
  /\ UNCHANGED <<persistent, running, models, loaded, meta, cmds, off, spoiled>>

\* actors_load: the directory is walked only when its md5 was not seen before.
Actors(g) ==
  LET p == P(g) IN
  /\ At(g, "actors")
  /\ IF ver[p] \in changes[p]
     THEN Push(g, <<>>) /\ UNCHANGED <<changes, actors>>
     ELSE /\ changes' = [changes EXCEPT ![p] = @ \union {ver[p]}]
          /\ actors' = [actors EXCEPT ![p] = IF @ = None THEN {} ELSE @]
          /\ Push(g, [i \in DOMAIN Steps(p) |-> Load(Steps(p)[i])])
  /\ Plain
  /\ UNCHANGED <<persistent, running, models, loaded, meta, cmds, off, spoiled>>

\* The actors property, which has seen to the models: a package without actors
\* is reloaded.
ActorsGet(g) ==
  /\ At(g, "actors_get")
  /\ Push(g, IF actors[P(g)] = None THEN ReloadSteps ELSE <<>>)
  /\ Plain
  /\ UNCHANGED <<persistent, running, registry, off, spoiled>>

\* One actor file: imported when its text is new to the process, made an
\* actor and added to the gedis server.
LoadFile(g) ==
  LET p == P(g)
      f == Head(todo[g]).file
      text == <<Code[p][f], ver[p]>>
  IN
  /\ At(g, "file")
  /\ \/ \* the text is known: nothing happens
        /\ text \in loaded
        /\ Next1(g)
        /\ UNCHANGED <<loaded, actors, meta, spoiled, status, phase, pending, pkg, bounds>>
     \/ \* a new actor
        /\ text \notin loaded /\ actors[p] # None
        /\ loaded' = loaded \union {text}
        /\ actors' = [actors EXCEPT ![p] = @ \union {f}]
        /\ meta' = {m \in meta : m[1] # p \/ m[2] # f} \union {<<p, f, ver[p]>>}
        /\ Next1(g)
        /\ UNCHANGED <<spoiled, status, phase, pending, pkg, bounds>>
     \/ \* a TypeError: the failure of another load took _actors away
        /\ text \notin loaded /\ actors[p] = None
        /\ loaded' = loaded \union {text}
        /\ spoiled' = spoiled \union {p}
        /\ Abort(g)
        /\ UNCHANGED <<actors, meta, faultsLeft>>
     \/ \* the import fails, or the constructor does and takes _actors with it
        /\ text \notin loaded
        /\ \/ UNCHANGED <<loaded, actors>>
           \/ /\ loaded' = loaded \union {text}
              /\ actors' = [actors EXCEPT ![p] = None]
        /\ spoiled' = spoiled \union {p}
        /\ Raise(g)
        /\ UNCHANGED meta
  /\ UNCHANGED <<ver, running, models, changes, cmds, off, reverted, overlap>>

\* The last statements of start().
Running(g) ==
  /\ At(g, "running")
  /\ running' = [running EXCEPT ![P(g)] = TRUE]
  /\ Next1(g) /\ Plain
  /\ UNCHANGED <<persistent, registry, off, spoiled>>

\* Mutant of ToStart: stop() writes a status that the schema does not have.
ToStartStopped(g) ==
  /\ At(g, "tostart")
  /\ running' = [running EXCEPT ![P(g)] = FALSE]
  /\ status' = [status EXCEPT ![P(g)] = "stopped"]
  /\ Next1(g) /\ Plain
  /\ UNCHANGED <<ver, registry, off, spoiled>>

\* The last statements of stop(): also disable() and uninstall() come by here.
ToStart(g) ==
  /\ At(g, "tostart")
  /\ running' = [running EXCEPT ![P(g)] = FALSE]
  /\ status' = [status EXCEPT ![P(g)] = "tostart"]
  /\ Next1(g) /\ Plain
  /\ UNCHANGED <<ver, registry, off, spoiled>>

\* The last statements of disable().
Disabled(g) ==
  /\ At(g, "disabled")
  /\ status' = [status EXCEPT ![P(g)] = "disabled"]
  /\ off' = IF \A h \in Greenlets \ {g} : ~(Busy(h) /\ P(h) = P(g))
            THEN off \union {P(g)} ELSE off
  /\ Next1(g) /\ Plain
  /\ UNCHANGED <<ver, running, registry, spoiled>>

\* actors_remove: the texts leave the codeloader and the commands the gedis
\* server; _changes, _actors and the command cache stay as they are.  It is not
\* reached when the website of the package cannot be removed.
ActorsRemove(g) ==
  LET p == P(g) IN
  /\ At(g, "actors_remove")
  /\ \/ /\ loaded' = loaded \ {<<Code[p][f], ver[p]>> : f \in AllFiles(p)}
        /\ meta' = {m \in meta : m[1] # p}
        /\ actors' = [actors EXCEPT ![p] = IF @ = None THEN {} ELSE @]
        /\ spoiled' = spoiled \union {p}
        /\ Next1(g) /\ UNCHANGED <<status, phase, pending, pkg, bounds>>
     \/ Raise(g) /\ UNCHANGED <<loaded, meta, actors, spoiled>>
  /\ UNCHANGED <<ver, running, models, changes, cmds, off, reverted, overlap>>

\* chatflows_load: a failed load is forgotten and retried.
Chatflows(g) ==
  /\ At(g, "chatflows")
  /\ \/ Next1(g) /\ UNCHANGED <<status, phase, pending, pkg, bounds>>
     \/ Raise(g)
  /\ UNCHANGED <<ver, running, registry, history>>

\* _cmd_obj_get after the actors property: answered and cached, or an error.
Lookup(g) ==
  LET p == P(g)
      f == Head(todo[g]).file
  IN
  /\ At(g, "lookup")
  /\ cmds' = IF actors[p] # None /\ f \in actors[p] /\ \E v \in {0, 1} : <<p, f, v>> \in meta
             THEN cmds \union {<<p, f>>} ELSE cmds
  /\ Next1(g) /\ Plain
  /\ UNCHANGED <<persistent, running, models, changes, loaded, actors, meta, off, spoiled>>

Step(g) ==
  \/ BootStart(g) \/ Saved(g) \/ MayInstall(g) \/ Config(g) \/ Author(g)
  \/ Models(g) \/ ModelsAdd(g) \/ Actors(g) \/ LoadFile(g) \/ Running(g) \/ ToStart(g)
  \/ ActorsGet(g) \/ Disabled(g) \/ ActorsRemove(g) \/ Chatflows(g) \/ Lookup(g)
  \/ SetStatus(g, "installed", "installed")
  \/ SetStatus(g, "setconfig", "config")
  \/ SetStatus(g, "init", "init")

Next ==
  \/ Crash \/ Start \/ BootDone \/ Die
  \/ \E p \in Pkgs : BootNext(p) \/ Edit(p)
  \/ \E c \in Clients, p \in Pkgs :
       (\E op \in Ops : Request(c, p, op)) \/ (\E f \in Files : Call(c, p, f))
  \/ \E g \in Greenlets : Step(g)

Spec == Init /\ [][Next]_vars

-----------------------------------------------------------------------------
TypeOK ==
  /\ status \in [Pkgs -> Status]
  /\ ver \in [Pkgs -> {0, 1}]
  /\ phase \in {"down", "booting", "dying", "up"}
  /\ pending \subseteq Pkgs
  /\ running \in [Pkgs -> BOOLEAN]
  /\ models \in [Pkgs -> {"none", "partial", "loaded"}]
  /\ changes \in [Pkgs -> SUBSET {0, 1}]
  /\ \A p \in Pkgs : actors[p] = None \/ actors[p] \subseteq AllFiles(p)
  /\ meta \subseteq Pkgs \X Files \X {0, 1}
  /\ cmds \subseteq Pkgs \X Files
  /\ pkg \in [Greenlets -> Pkgs \union {None}]
  /\ \A g \in Greenlets : Busy(g) => pkg[g] \in Pkgs

\* Is some greenlet in the middle of the actor files of p?
Loading(p) == \E g \in Greenlets : P(g) = p /\ At(g, "file")

\* Does an actor of p have the text of another actor, of p or of another package?
Shares(p) ==
  \E q \in Pkgs : \E f \in AllFiles(p), h \in AllFiles(q) : Code[p][f] = Code[q][h] /\ <<p, f>> # <<q, h>>

\* A package that was disabled, and that nobody asked anything of since, stays
\* disabled over crashes and restarts of the server, and the start loop passes
\* over it.  (In the process that disabled it a start that was under way may
\* still have set running; core packages are started at every restart.)
DisabledStaysDown ==
  \A p \in off : status[p] = "disabled" /\ (phase = "booting" => ~running[p])

\* The change detection of actors_load is enough as long as no load failed, no
\* actor was removed, the files did not go back to an earlier version and no
\* other actor has the same text: a running package then has all its
\* actors in the gedis server, and once the directory on disk is in _changes
\* they are the ones on disk.
LoadedOnce ==
  \A p \in Pkgs \ (spoiled \union reverted) :
    (~Loading(p) /\ ~Shares(p)) =>
      /\ running[p] => \A f \in AllFiles(p) : \E v \in {0, 1} : <<p, f, v>> \in meta
      /\ ver[p] \in changes[p] => \A f \in AllFiles(p) : <<p, f, ver[p]>> \in meta

\* A failed load of the models is retried by the next start: a package never
\* runs without its models, unless a second request came while the first one
\* was loading them.
RunsWithModels ==
  \A p \in Pkgs \ overlap : running[p] => models[p] = "loaded"

\* When the start loop is through, no package was left behind: each one runs,
\* is in error, or was never to be started.
BootLeavesNoneBehind ==
  [][phase = "booting" /\ phase' = "up" =>
       \A p \in Pkgs : running[p] \/ status[p] \in {"init", "config", "disabled", "error"}]_vars
=============================================================================
