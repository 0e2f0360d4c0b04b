------------------------------- MODULE Shell --------------------------------
(***************************************************************************)
(* The desktop shell (app/src-tauri): the thread that starts and stops the *)
(* engine, the tasks that wait for each engine's end, the window and its   *)
(* buttons, the engines as processes with the store's lock, over quits,    *)
(* force quits and launches.                                               *)
(*                                                                         *)
(* The user starts an operation when the one before has ended; the tasks   *)
(* of earlier engines, the engines and quitting interleave with it.  A     *)
(* process id is never used twice, and stands for its port and URL too.    *)
(***************************************************************************)
EXTENDS Integers, Sequences, FiniteSets

CONSTANTS
  Dirs,          \* data directories
  MaxStarts,     \* engines the shell ever starts
  MaxLives,      \* launches of the app
  MaxForeign,    \* engines started by hand
  MaxFaults      \* engines that die, starts that fail

ASSUME ShellAssumption ==
  /\ Dirs # {} /\ {MaxStarts, MaxLives} \subseteq Nat \ {0}
  /\ {MaxForeign, MaxFaults} \subseteq Nat

VARIABLES
  app,        \* "up", "quitting", "gone"
  life,       \* which launch this is
  config,     \* the directory the next launch uses
  generation, child, url, down, holder, data,     \* the shared Engine object
  page,       \* what the window shows
  splash,     \* the last splash page that was not the reset choice
  th,         \* the operation's thread
  procs,      \* engine processes by id
  urlFile,    \* directories with a server.url
  foreign, faults,
  touched     \* history: an earlier engine's end took the current one down

wv == <<page, splash>>
ev == <<generation, child, url, down, holder, data>>
bv == <<foreign, faults>>
vars == <<app, life, config, ev, wv, th, procs, urlFile, bv, touched>>

None == 0
Starting == [kind |-> "starting", pid |-> None]
Shown(p) == [kind |-> "served", pid |-> p]
Failed(p) == [kind |-> "failed", pid |-> p]   \* p: the holder to stop, if any
Choice == [kind |-> "reset", pid |-> None]

\* configured_data_dir, before the user chose another.
DefaultDir == CHOOSE d \in Dirs : TRUE

Idle == [pc |-> "idle", dir |-> DefaultDir, gen |-> 0, pid |-> None,
         hurried |-> FALSE]

Init ==
  /\ app = "gone" /\ life = 0 /\ config = DefaultDir
  /\ generation = 0 /\ child = None /\ url = None /\ down = FALSE
  /\ holder = None /\ data = config /\ page = Starting /\ splash = Starting
  /\ th = Idle /\ procs = << >> /\ urlFile = {} /\ foreign = 0 /\ faults = 0
  /\ touched = FALSE

Pids == DOMAIN procs
MaxProcs == MaxStarts + MaxForeign
NextPid == Len(procs) + 1
Alive(p) == p \in Pids /\ procs[p].at # "gone"

\* Bound: there is an engine left for the operation to start.
CanStart == Len(procs) - foreign < MaxStarts

\* The engines whose command line names the directory's store (holder::find).
Found(d) == {p \in Pids : Alive(p) /\ procs[p].dir = d}

\* The one that has the store's lock, which only its exit releases.
LockHolders(d) == {p \in Pids : procs[p].at = "serving" /\ procs[p].dir = d}

Killed(p) == [procs EXCEPT ![p].killed = Alive(p) \/ @]

Fault == faults < MaxFaults /\ faults' = faults + 1
-----------------------------------------------------------------------------
(* Launching, and the clicks that start an operation.                      *)

At(pc, d) == [Idle EXCEPT !.pc = pc, !.dir = d]

Launch ==
  /\ app = "gone" /\ life < MaxLives /\ CanStart
  /\ app' = "up" /\ life' = life + 1
  /\ generation' = 0 /\ child' = None /\ url' = None /\ down' = FALSE
  /\ holder' = None /\ data' = config /\ page' = Starting
  /\ splash' = Starting /\ th' = At("begin", config)
  /\ UNCHANGED <<config, procs, urlFile, bv, touched>>

Free == app = "up" /\ th.pc = "idle"

Click == Free /\ CanStart

\* intensity::choose: the same directory, other arguments.
Choose ==
  /\ Click /\ th' = At("stop", data)
  /\ UNCHANGED <<app, life, config, ev, wv, procs, urlFile, bv, touched>>

\* menu: "choose_data".
ChooseData(d) ==
  /\ Click /\ d # data /\ config' = d /\ th' = At("stop", d)
  /\ UNCHANGED <<app, life, ev, wv, procs, urlFile, bv, touched>>

\* stop_holder: the button of a failure page.
PressRetry ==
  /\ Click /\ page.kind = "failed" /\ holder' = None
  /\ th' = [At(IF holder = None THEN "stop" ELSE "kill", data)
              EXCEPT !.pid = holder]
  /\ UNCHANGED <<app, life, config, generation, child, url, down, data, wv,
                 procs, urlFile, bv, touched>>

\* reset::ask, reset::reset and reset::reset_cancel.
Ask ==
  /\ app = "up" /\ page # Choice /\ page' = Choice
  /\ UNCHANGED <<app, life, config, ev, splash, th, procs, urlFile, bv,
                 touched>>

PressReset ==
  /\ Click /\ page = Choice /\ th' = At("stopFirst", data)
  /\ UNCHANGED <<app, life, config, ev, wv, procs, urlFile, bv, touched>>

PressCancel ==
  /\ app = "up" /\ page = Choice
  /\ page' = IF url # None THEN Shown(url) ELSE splash
  /\ UNCHANGED <<app, life, config, ev, splash, th, procs, urlFile, bv,
                 touched>>
-----------------------------------------------------------------------------
(* The operation's thread.                                                 *)

Running(pc) == app # "gone" /\ th.pc = pc

\* stop: the handle is given up whether or not its process still runs.
Stop ==
  /\ generation' = generation + 1 /\ child' = None /\ url' = None
  /\ procs' = IF child = None THEN procs ELSE Killed(child)
  /\ urlFile' = urlFile \ {data}
  /\ UNCHANGED <<down, holder, data>>

\* holder::kill and holder::wait_exit, which ends after EXIT_WAIT anyway.
KillHolder ==
  /\ Running("kill") /\ procs' = Killed(th.pid)
  /\ th' = [th EXCEPT !.pc = "waitHolder"]
  /\ UNCHANGED <<app, life, config, ev, wv, urlFile, bv, touched>>

WaitHolder ==
  /\ Running("waitHolder") /\ th' = [th EXCEPT !.pc = "stop"]
  /\ UNCHANGED <<app, life, config, ev, wv, procs, urlFile, bv, touched>>

\* Mutant: stop_holder, choose and choose_data start without a stop.
StopThenStartOnly ==
  /\ Running("stop") /\ th' = [th EXCEPT !.pc = "begin"]
  /\ UNCHANGED <<app, life, config, ev, wv, procs, urlFile, bv, touched>>

StopThenStart ==
  /\ Running("stop") /\ Stop /\ th' = [th EXCEPT !.pc = "begin"]
  /\ UNCHANGED <<app, life, config, wv, bv, touched>>

\* stop_and_wait: for the child if the shell has one, else for any holder.
StopFirst ==
  /\ Running("stopFirst") /\ Stop
  /\ th' = [th EXCEPT !.pc = "waitFree", !.pid = child]
  /\ UNCHANGED <<app, life, config, wv, bv, touched>>

WaitFree ==
  /\ Running("waitFree")
  /\ LET free == IF th.pid # None THEN ~Alive(th.pid) ELSE Found(data) = {}
     IN  th' = [th EXCEPT !.pc = "delete", !.hurried = ~free]
  /\ UNCHANGED <<app, life, config, ev, wv, procs, urlFile, bv, touched>>

\* reset: the events alone, or the whole directory.
Delete ==
  /\ Running("delete") /\ th' = [th EXCEPT !.pc = "begin"]
  /\ urlFile' \in {urlFile, urlFile \ {th.dir}}
  /\ UNCHANGED <<app, life, config, ev, wv, procs, bv, touched>>

\* start, up to the first wait.
Begin ==
  /\ Running("begin") /\ generation' = generation + 1
  /\ data' = th.dir /\ url' = None /\ down' = FALSE
  /\ th' = [th EXCEPT !.pc = IF th.dir \in urlFile THEN "orphan" ELSE "seed",
                      !.gen = generation + 1]
  /\ urlFile' = urlFile \ {th.dir}
  /\ UNCHANGED <<app, life, config, child, holder, wv, procs, bv, touched>>

\* An engine a force quit left behind; the shown page is locked's.
FindOrphan ==
  /\ Running("orphan")
  /\ \/ Found(th.dir) = {} /\ th' = [th EXCEPT !.pc = "seed"]
        /\ UNCHANGED holder
     \/ \E p \in Found(th.dir) :
          /\ holder' = p /\ th' = [th EXCEPT !.pc = "down", !.pid = p]
  /\ UNCHANGED <<app, life, config, generation, child, url, down, data, wv,
                 procs, urlFile, bv, touched>>

\* The splash, the directories and their first definitions, the port.
Prepare ==
  /\ Running("seed") /\ page' = Starting /\ splash' = Starting
  /\ \/ th' = [th EXCEPT !.pc = "spawn"] /\ UNCHANGED faults
     \/ Fault /\ th' = [th EXCEPT !.pc = "down", !.pid = None]
  /\ UNCHANGED <<app, life, config, ev, procs, urlFile, foreign, touched>>

Engine(d, from, g) ==
  [at |-> "booting", dir |-> d, life |-> from, parent |-> from,
   gen |-> g, killed |-> FALSE, refused |-> FALSE, told |-> "no",
   fresh |-> FALSE]

Spawn ==
  /\ Running("spawn")
  /\ \/ /\ child' = NextPid
        /\ procs' = Append(procs, Engine(th.dir, life, th.gen))
        /\ th' = [th EXCEPT !.pc = "poll", !.pid = NextPid]
        /\ UNCHANGED faults
     \/ Fault /\ th' = [th EXCEPT !.pc = "down", !.pid = None]
        /\ UNCHANGED <<child, procs>>
  /\ UNCHANGED <<app, life, config, generation, url, down, holder, data, wv,
                 urlFile, foreign, touched>>

Current == generation = th.gen

\* One turn of the wait for /api/status.
Poll ==
  /\ Running("poll")
  /\ \/ (~Current \/ down) /\ th' = Idle /\ UNCHANGED faults
     \/ /\ Current /\ ~down /\ procs[th.pid].at = "serving"
        /\ th' = [th EXCEPT !.pc = "answered"] /\ UNCHANGED faults
     \/ /\ Current /\ ~down /\ Fault
        /\ th' = [th EXCEPT !.pc = "down", !.pid = None]
  /\ UNCHANGED <<app, life, config, ev, wv, procs, urlFile, foreign, touched>>

Answered ==
  /\ Running("answered") /\ urlFile' = urlFile \cup {th.dir}
  /\ url' = th.pid /\ page' = Shown(th.pid) /\ th' = Idle
  /\ UNCHANGED <<app, life, config, generation, child, down, holder, data,
                 splash, procs, bv, touched>>

\* down, past its look at the generation.
GoDown(p) ==
  /\ down' = TRUE /\ url' = None /\ urlFile' = urlFile \ {data}
  /\ page' = Failed(p) /\ splash' = Failed(p)
  /\ UNCHANGED <<generation, child, data>>

StartDown ==
  /\ Running("down") /\ th' = Idle
  /\ IF Current THEN GoDown(th.pid) ELSE UNCHANGED <<ev, wv, urlFile>>
  /\ UNCHANGED <<app, life, config, holder, procs, bv, touched>>
-----------------------------------------------------------------------------
(* The task that reads one engine's output and its end.                    *)

\* Mutant: the end of any engine is the end of the current one.
OursAny(p) == TRUE

\* down's look at the generation.
Ours(p) == procs[p].gen = generation

Looked(p, what) ==
  [procs EXCEPT ![p].told = IF Ours(p) THEN what ELSE "yes",
                ![p].fresh = procs[p].gen = generation]

\* locked notes the holder whether or not the engine is still the current one.
HearEnd(p) ==
  /\ app # "gone" /\ procs[p].life = life /\ procs[p].at = "gone"
  /\ procs[p].told = "no"
  /\ \/ /\ ~procs[p].refused \/ Found(procs[p].dir) = {}
        /\ procs' = Looked(p, "down")
        /\ UNCHANGED holder
     \/ /\ procs[p].refused
        /\ \E q \in Found(procs[p].dir) :
             holder' = q /\ procs' = Looked(p, "locked")
  /\ UNCHANGED <<app, life, config, generation, child, url, down, data, wv,
                 th, urlFile, bv, touched>>

TellEnd(p) ==
  /\ app # "gone" /\ procs[p].life = life
  /\ procs[p].told \in {"down", "locked"}
  /\ GoDown(IF procs[p].told = "locked" THEN holder ELSE None)
  /\ procs' = [procs EXCEPT ![p].told = "yes"]
  /\ touched' = (touched \/ (procs[p].fresh /\ procs[p].gen # generation))
  /\ UNCHANGED <<app, life, config, holder, th, bv>>
-----------------------------------------------------------------------------
(* The engines.                                                            *)

\* Mutant: the engine asks for its parent when it gets that far.
ParentRead(p) == IF app # "gone" /\ procs[p].life = life
                 THEN procs[p].life ELSE None

\* The process --exit-with-parent names.
Parent(p) == procs[p].parent

\* Live::open: refused when another process has the store.
Boot(p) ==
  /\ procs[p].at = "booting" /\ ~procs[p].killed
  /\ procs' = [procs EXCEPT ![p] =
       IF LockHolders(@.dir) # {}
       THEN [@ EXCEPT !.at = "gone", !.refused = TRUE]
       ELSE [@ EXCEPT !.at = "serving", !.parent = Parent(p)]]
  /\ UNCHANGED <<app, life, config, ev, wv, th, urlFile, bv, touched>>

Reap(p) ==
  /\ Alive(p) /\ procs[p].killed
  /\ procs' = [procs EXCEPT ![p].at = "gone"]
  /\ UNCHANGED <<app, life, config, ev, wv, th, urlFile, bv, touched>>

Crash(p) ==
  /\ Alive(p) /\ ~procs[p].killed /\ Fault
  /\ procs' = [procs EXCEPT ![p].at = "gone"]
  /\ UNCHANGED <<app, life, config, ev, wv, th, urlFile, foreign, touched>>

\* getppid: the shell, or the process that adopts orphans.
Ppid(p) == IF app # "gone" /\ procs[p].life = life
           THEN procs[p].life ELSE None

\* stop_with_parent.
ParentGone(p) ==
  /\ procs[p].at = "serving" /\ procs[p].life # None /\ ~procs[p].killed
  /\ Ppid(p) # procs[p].parent
  /\ procs' = [procs EXCEPT ![p].killed = TRUE]
  /\ UNCHANGED <<app, life, config, ev, wv, th, urlFile, bv, touched>>

\* An engine started by hand on one of the directories, and its end.
Foreign(d) ==
  /\ foreign < MaxForeign /\ foreign' = foreign + 1
  /\ procs' = Append(procs, Engine(d, None, 0))
  /\ UNCHANGED <<app, life, config, ev, wv, th, urlFile, faults, touched>>
-----------------------------------------------------------------------------
\* Quit stops the engine; the threads run until the process is gone.
Quit ==
  /\ app = "up" /\ app' = "quitting" /\ Stop
  /\ UNCHANGED <<life, config, wv, th, bv, touched>>

Exit ==
  /\ app = "quitting" /\ app' = "gone" /\ th' = Idle
  /\ UNCHANGED <<life, config, ev, wv, procs, urlFile, bv, touched>>

\* A force quit runs no handler.
ForceQuit ==
  /\ app = "up" /\ app' = "gone" /\ th' = Idle
  /\ UNCHANGED <<life, config, ev, wv, procs, urlFile, bv, touched>>
-----------------------------------------------------------------------------
Thread ==
  \/ KillHolder \/ WaitHolder \/ StopThenStart \/ StopFirst \/ WaitFree
  \/ Delete \/ Begin \/ FindOrphan \/ Prepare \/ Spawn \/ Poll \/ Answered
  \/ StartDown

User ==
  \/ Launch \/ Choose \/ PressRetry \/ Ask \/ PressReset \/ PressCancel
  \/ \E d \in Dirs : ChooseData(d) \/ Foreign(d)
  \/ Quit \/ ForceQuit

Own(p) == Boot(p) \/ Reap(p) \/ ParentGone(p)

Next ==
  \/ User \/ Thread \/ Exit
  \/ \E p \in Pids : Own(p) \/ Crash(p) \/ HearEnd(p) \/ TellEnd(p)

\* Threads, tasks and processes run; a signalled process dies; the user and
\* faults owe nothing.
Fairness ==
  /\ WF_vars(Thread) /\ WF_vars(Exit) /\ WF_vars(\E p \in Pids : Own(p))
  /\ WF_vars(\E p \in Pids : HearEnd(p) \/ TellEnd(p))

Spec == Init /\ [][Next]_vars

FairSpec == Spec /\ Fairness
-----------------------------------------------------------------------------
Pages == [kind : {"starting", "served", "failed", "reset"},
          pid : 0 .. MaxProcs]

\* The types; and no two engines hold the lock of one data directory's store.
TypeOK ==
  /\ app \in {"up", "quitting", "gone"} /\ life \in 0 .. MaxLives
  /\ {config, data, th.dir} \subseteq Dirs /\ urlFile \subseteq Dirs
  /\ {child, url, holder} \subseteq Pids \cup {None}
  /\ page \in Pages /\ splash \in Pages /\ splash.kind # "reset"
  /\ generation \in Nat /\ down \in BOOLEAN
  /\ \A d \in Dirs : Cardinality(LockHolders(d)) <= 1

\* The shell never loses track of an engine: one it started in this life and
\* has not signalled is the one it will stop on quit, and all the others are
\* on their way out (lib.rs, start, stop and stop_holder).
OnlyChildRuns ==
  app = "up" => \A p \in Pids :
    procs[p].life = life /\ Alive(p) /\ ~procs[p].killed => p = child

Quiet ==
  /\ Free /\ \A p \in Pids : procs[p].life = life => Alive(p) \/
                                                    procs[p].told = "yes"

\* With no thread at work and no end still to be told, the window never says
\* it is starting: it shows the page of the current child, which runs (or was
\* heard to end between its first answer and the page), or a failure page with
\* its button, or the reset choice, which leads back to one of these (lib.rs,
\* the generation; reset.rs, reset_cancel).  Excepted: an end that passed its
\* look at the generation before the next start and is told after it.
NeverStuck ==
  Quiet /\ ~touched =>
           /\ page.kind # "starting"
           /\ page.kind = "served" =>
                page.pid = child /\ (Alive(child) \/ down)
           /\ page.kind = "reset" =>
                url # None \/ splash.kind # "starting"

Orphans ==
  {p \in Pids : /\ Alive(p) /\ procs[p].life # None
                /\ app = "gone" \/ procs[p].life # life}

\* Every engine the shell started is gone some time after the shell is, by
\* its quit or by the engine's watch over its parent, however early in the
\* engine's start the shell died (engine.rs, stop_with_parent).
EnginesEnd == Orphans # {} ~> Orphans = {}

\* Whatever the user started ends with a page to act on (lib.rs, start).
OperationsEnd == (app = "up" /\ th.pc # "idle") ~> (th.pc = "idle")

\* One engine per store, and none the shell has lost track of (lib.rs).
ShellSound == TypeOK /\ OnlyChildRuns

\* Engines end with their shell, and operations end (lib.rs, start;
\* engine.rs, stop_with_parent).
ShellLives == EnginesEnd /\ OperationsEnd
=============================================================================
