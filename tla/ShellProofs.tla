---------------------------- MODULE ShellProofs -----------------------------
(***************************************************************************)
(* The desktop shell of module Shell, for every set of directories and     *)
(* every number of launches, starts and faults: one engine per store, none *)
(* the shell has lost track of, and no window that is left waiting.        *)
(*                                                                         *)
(* An engine's end may be told long after the engine was replaced; what    *)
(* makes the properties inductive is which generations have a process at   *)
(* each place of the operation's thread.                                   *)
(***************************************************************************)
EXTENDS Shell, FiniteSetTheorems, TLAPS

-----------------------------------------------------------------------------
(* Shapes.                                                                 *)

\* The record of an engine.
Proc ==
  [at : {"booting", "serving", "gone"}, dir : Dirs, life : Nat, parent : Nat,
   gen : Nat, killed : BOOLEAN, refused : BOOLEAN,
   told : {"no", "down", "locked", "yes"}, fresh : BOOLEAN]

\* The places of an operation before its engine is spawned.
Before == {"kill", "waitHolder", "stop", "stopFirst", "waitFree", "delete",
           "begin", "orphan", "seed", "spawn"}

\* All places of the thread.
Places == Before \cup {"idle", "poll", "answered", "down"}

\* The thread's record; it has a process where it needs one.
ThreadType ==
  /\ th \in [pc : Places, dir : Dirs, gen : Nat, pid : Nat, hurried : BOOLEAN]
  /\ th.pid \in Pids \cup {None}
  /\ th.pc \in {"kill", "poll", "answered"} => th.pid # None

\* A page names an engine or none.
PageType(p) ==
  /\ p \in [kind : {"starting", "served", "failed", "reset"}, pid : Nat]
  /\ p.pid \in Pids \cup {None}

\* Each operation that has not yet spawned has an engine left to start.
ProcsType ==
  /\ procs \in Seq(Proc) /\ foreign \in 0 .. MaxForeign
  /\ Len(procs) - foreign <= MaxStarts
  /\ th.pc \in Before => CanStart

\* The shared Engine object, the window and the app.
StateType ==
  /\ app \in {"up", "quitting", "gone"} /\ life \in 0 .. MaxLives
  /\ config \in Dirs /\ data \in Dirs /\ urlFile \subseteq Dirs
  /\ {child, url, holder} \subseteq Pids \cup {None}
  /\ PageType(page) /\ PageType(splash) /\ splash.kind # "reset"
  /\ generation \in Nat /\ down \in BOOLEAN /\ touched \in BOOLEAN
  /\ app # "gone" => life > 0
  /\ app = "gone" => th.pc = "idle"

\* The shapes of the whole state.
TypesInv == ThreadType /\ ProcsType /\ StateType
-----------------------------------------------------------------------------
(* Engines.                                                                *)

\* One engine has the lock of a store.
OneHolder ==
  \A p, q \in Pids :
    procs[p].at = "serving" /\ procs[q].at = "serving"
      /\ procs[p].dir = procs[q].dir => p = q

\* The places between the stop of an engine and the spawn of the next.
Stopped == {"waitFree", "delete", "begin", "orphan", "seed", "spawn"}

\* Started by this launch.
Mine(p) == procs[p].life = life

\* On its way out: it has ended, or has been signalled.
Leaving(p) == procs[p].at = "gone" \/ procs[p].killed

\* No engine is of a later life or generation; the ones of this life are
\* leaving, the child apart, and it too once it is stopped.
Known ==
  /\ \A p \in Pids : procs[p].life <= life
  /\ app # "gone" => \A p \in Pids :
       /\ Mine(p) => procs[p].gen <= generation
       /\ Mine(p) /\ ~Leaving(p) => p = child /\ th.pc \notin Stopped

\* The operation's generation is no later than the shell's.
Dated == app # "gone" => th.gen <= generation
-----------------------------------------------------------------------------
(* The window.                                                             *)

\* Nobody else changes the generation while the operation runs.
InStep ==
  app = "up" /\ th.pc \in {"orphan", "seed", "spawn", "poll", "answered",
                           "down"} =>
    th.gen = generation

\* An end that passed the look at the generation was of the current engine,
\* and the current one's end that has been told took it down.
Told ==
  /\ \A p \in Pids : procs[p].told \in {"down", "locked"} => procs[p].fresh
  /\ app = "up" => \A p \in Pids :
       Mine(p) /\ procs[p].gen = generation /\ procs[p].told = "yes" => down

\* Between the new generation and its engine no end is told.
Preparing ==
  app = "up" /\ ~touched /\ th.pc \in {"orphan", "seed", "spawn"} =>
    /\ ~down /\ url = None
    /\ \A p \in Pids : Mine(p) => procs[p].gen < generation
    /\ th.pc = "spawn" => page.kind \in {"starting", "reset"}
                          /\ splash.kind = "starting"

\* While the engine is awaited the window waits with it, or has its end.
Awaiting ==
  app = "up" /\ ~touched /\ th.pc \in {"poll", "answered"} =>
    /\ url = None /\ child = th.pid
    /\ Mine(child) /\ procs[child].gen = generation
    /\ IF down THEN page.kind \in {"failed", "reset"} /\ splash.kind = "failed"
       ELSE page.kind \in {"starting", "reset"} /\ splash.kind = "starting"

\* When the operation has ended, the window has a page to act on.
Settled ==
  app = "up" /\ ~touched /\ th.pc = "idle" =>
    IF url # None
    THEN /\ page \in {Shown(url), Choice} /\ url = child
         /\ Mine(child) /\ procs[child].gen = generation
    ELSE /\ down
         /\ page.kind \in {"failed", "reset"} /\ splash.kind = "failed"

\* The inductive invariant.
ShellInv ==
  /\ TypesInv /\ OneHolder /\ Known /\ Dated
  /\ InStep /\ Told /\ Preparing /\ Awaiting /\ Settled
-----------------------------------------------------------------------------
(* What a step does to the engines.                                        *)

\* One engine's record changes.
Altered(p, r) ==
  /\ procs' \in Seq(Proc) /\ Len(procs') = Len(procs)
  /\ procs'[p] = r
  /\ \A q \in Pids : q # p => procs'[q] = procs[q]

\* One record of the table is replaced ...
LEMMA AlterOne ==
  ASSUME procs \in Seq(Proc), NEW p \in Pids, NEW r \in Proc,
         procs' = [procs EXCEPT ![p] = r]
  PROVE  Altered(p, r)
BY DEF Altered, Pids

\* ... or one is added.
LEMMA AddOne ==
  ASSUME procs \in Seq(Proc), NEW r \in Proc, procs' = Append(procs, r)
  PROVE  /\ procs' \in Seq(Proc) /\ Len(procs') = Len(procs) + 1
         /\ NextPid \in Nat /\ procs'[NextPid] = r
         /\ \A q \in Pids : procs'[q] = procs[q]
BY DEF Pids, NextPid

\* Process ids are the places of the table.
LEMMA ProcsAt ==
  ASSUME procs \in Seq(Proc)
  PROVE  /\ Pids = 1 .. Len(procs) /\ Len(procs) \in Nat
         /\ \A p \in Pids : procs[p] \in Proc
BY DEF Pids

\* A signal: the process is marked, unless it is gone already.
LEMMA KillStep ==
  ASSUME procs \in Seq(Proc), NEW p \in Pids, procs' = Killed(p)
  PROVE  \E b \in BOOLEAN :
           /\ Altered(p, [procs[p] EXCEPT !.killed = b])
           /\ procs[p].killed => b
           /\ b \/ procs[p].at = "gone"
<1>1. procs[p] \in Proc
  BY ProcsAt
<1>2. PICK b \in BOOLEAN : b = (Alive(p) \/ procs[p].killed)
  BY <1>1 DEF Proc
<1>3. procs' = [procs EXCEPT ![p] = [procs[p] EXCEPT !.killed = b]]
  BY <1>2 DEF Killed
<1>4. [procs[p] EXCEPT !.killed = b] \in Proc
  BY <1>1, <1>2 DEF Proc
<1>5. Altered(p, [procs[p] EXCEPT !.killed = b])
  BY <1>3, <1>4, AlterOne
<1>6. (procs[p].killed => b) /\ (b \/ procs[p].at = "gone")
  BY <1>1, <1>2 DEF Alive, Proc
<1> QED
  BY <1>5, <1>6

\* A new engine's record.
LEMMA EngineIsProc ==
  \A d \in Dirs : \A l, g \in Nat : Engine(d, l, g) \in Proc
BY DEF Engine, Proc

\* What no step changes of an engine.
Same(p) ==
  /\ procs'[p].life = procs[p].life /\ procs'[p].gen = procs[p].gen
  /\ procs'[p].dir = procs[p].dir
  /\ Leaving(p) => Leaving(p)'

\* The table has the same engines.
Evolved ==
  /\ procs' \in Seq(Proc) /\ Len(procs') = Len(procs)
  /\ \A p \in Pids : Same(p)

\* The ends that are told stay as they are.
Untold ==
  \A p \in Pids : /\ procs'[p].told = procs[p].told
                  /\ procs'[p].fresh = procs[p].fresh

\* stop signals the child and nothing else.
LEMMA StopStep ==
  ASSUME TypesInv, Stop
  PROVE  /\ Evolved /\ Untold
         /\ \A p \in Pids : procs'[p].at = procs[p].at
         /\ child # None => procs'[child].at = "gone" \/ procs'[child].killed
<1>1. procs \in Seq(Proc) /\ child \in Pids \cup {None}
  BY DEF TypesInv, ProcsType, StateType
<1>2. CASE child = None
  BY <1>1, <1>2 DEF Stop, Evolved, Untold, Same, Leaving
<1>3. CASE child # None
  <2>1. child \in Pids /\ procs' = Killed(child)
    BY <1>1, <1>3 DEF Stop
  <2>2. PICK b \in BOOLEAN :
          /\ Altered(child, [procs[child] EXCEPT !.killed = b])
          /\ procs[child].killed => b
          /\ b \/ procs[child].at = "gone"
    BY <1>1, <2>1, KillStep
  <2>3. PICK r : r = [procs[child] EXCEPT !.killed = b]
    OBVIOUS
  <2>4. /\ r.life = procs[child].life /\ r.gen = procs[child].gen
        /\ r.dir = procs[child].dir /\ r.at = procs[child].at
        /\ r.told = procs[child].told /\ r.fresh = procs[child].fresh
        /\ r.killed = b
    BY <1>1, <2>1, <2>3, ProcsAt DEF Proc
  <2>5. Altered(child, r)
    BY <2>2, <2>3
  <2>6. /\ procs' \in Seq(Proc) /\ Len(procs') = Len(procs)
        /\ procs'[child] = r
        /\ \A q \in Pids : q # child => procs'[q] = procs[q]
    BY <2>5 DEF Altered
  <2>7. r.at = "gone" \/ r.killed
    BY <2>2, <2>4
  <2>8. \A q \in Pids : /\ Same(q) /\ procs'[q].at = procs[q].at
                        /\ procs'[q].told = procs[q].told
                        /\ procs'[q].fresh = procs[q].fresh
    BY <2>4, <2>6, <2>7 DEF Same, Leaving
  <2>9. procs'[child].at = "gone" \/ procs'[child].killed
    BY <2>6, <2>7
  <2> QED
    BY <2>6, <2>8, <2>9 DEF Evolved, Untold
<1> QED
  BY <1>2, <1>3

\* holder::kill signals the holder and nothing else.
LEMMA KillHolderStep ==
  ASSUME TypesInv, KillHolder
  PROVE  /\ Evolved /\ Untold
         /\ \A p \in Pids : procs'[p].at = procs[p].at
<1>1. procs \in Seq(Proc) /\ th.pid \in Pids /\ procs' = Killed(th.pid)
  BY DEF TypesInv, ProcsType, ThreadType, KillHolder, Running
<1>2. PICK b \in BOOLEAN :
        /\ Altered(th.pid, [procs[th.pid] EXCEPT !.killed = b])
        /\ procs[th.pid].killed => b
  BY <1>1, KillStep
<1>3. PICK r : r = [procs[th.pid] EXCEPT !.killed = b]
  OBVIOUS
<1>4. /\ r.life = procs[th.pid].life /\ r.gen = procs[th.pid].gen
      /\ r.dir = procs[th.pid].dir /\ r.at = procs[th.pid].at
      /\ r.told = procs[th.pid].told /\ r.fresh = procs[th.pid].fresh
      /\ r.killed = b
  BY <1>1, <1>3, ProcsAt DEF Proc
<1>5. Altered(th.pid, r)
  BY <1>2, <1>3
<1> QED
  BY <1>1, <1>2, <1>4, <1>5 DEF Altered, Evolved, Untold, Same, Leaving

\* An engine's own step: it takes the lock of its store only when nobody has
\* it (Live::open).
LEMMA OwnStep ==
  ASSUME TypesInv, NEW p \in Pids, Own(p) \/ Crash(p)
  PROVE  /\ Evolved /\ Untold
         /\ \A q \in Pids : procs'[q].at = "serving" =>
              \/ procs[q].at = "serving"
              \/ q = p /\ LockHolders(procs[q].dir) = {}
<1>1. procs \in Seq(Proc) /\ procs[p] \in Proc
  BY ProcsAt DEF TypesInv, ProcsType
<1>2. \E r \in Proc :
        /\ procs' = [procs EXCEPT ![p] = r]
        /\ r.life = procs[p].life /\ r.gen = procs[p].gen
        /\ r.dir = procs[p].dir
        /\ r.told = procs[p].told /\ r.fresh = procs[p].fresh
        /\ procs[p].killed \/ procs[p].at = "gone" =>
             r.killed \/ r.at = "gone"
        /\ r.at = "serving" =>
             procs[p].at = "serving" \/ LockHolders(procs[p].dir) = {}
  <2>1. CASE Boot(p)
    <3>1. CASE LockHolders(procs[p].dir) # {}
      <4>1. PICK r : r = [procs[p] EXCEPT !.at = "gone", !.refused = TRUE]
        OBVIOUS
      <4>2. procs' = [procs EXCEPT ![p] = r]
        BY <2>1, <3>1, <4>1 DEF Boot
      <4>3. r = [at |-> "gone", dir |-> procs[p].dir, life |-> procs[p].life,
                 parent |-> procs[p].parent, gen |-> procs[p].gen,
                 killed |-> procs[p].killed, refused |-> TRUE,
                 told |-> procs[p].told, fresh |-> procs[p].fresh]
        BY <1>1, <4>1 DEF Proc
      <4>4. /\ r \in Proc /\ r.life = procs[p].life /\ r.gen = procs[p].gen
            /\ r.dir = procs[p].dir /\ r.at = "gone"
            /\ r.told = procs[p].told /\ r.fresh = procs[p].fresh
        BY <1>1, <4>3 DEF Proc
      <4> QED
        BY <4>2, <4>4
    <3>2. CASE LockHolders(procs[p].dir) = {}
      <4>1. PICK r : r = [procs[p] EXCEPT !.at = "serving",
                                          !.parent = procs[p].parent]
        OBVIOUS
      <4>2. procs' = [procs EXCEPT ![p] = r]
        BY <2>1, <3>2, <4>1 DEF Boot, Parent
      <4>3. r = [at |-> "serving", dir |-> procs[p].dir,
                 life |-> procs[p].life,
                 parent |-> procs[p].parent, gen |-> procs[p].gen,
                 killed |-> procs[p].killed, refused |-> procs[p].refused,
                 told |-> procs[p].told, fresh |-> procs[p].fresh]
        BY <1>1, <4>1 DEF Proc
      <4>4. procs[p].at = "booting" /\ ~procs[p].killed
        BY <2>1 DEF Boot
      <4> QED
        BY <1>1, <3>2, <4>2, <4>3, <4>4 DEF Proc
    <3> QED
      BY <3>1, <3>2
  <2>2. CASE Reap(p) \/ Crash(p)
    <3>1. procs' = [procs EXCEPT ![p] = [procs[p] EXCEPT !.at = "gone"]]
      BY <2>2 DEF Reap, Crash
    <3>2. PICK r : r = [procs[p] EXCEPT !.at = "gone"]
      OBVIOUS
    <3>3. /\ r \in Proc /\ r.life = procs[p].life /\ r.gen = procs[p].gen
          /\ r.dir = procs[p].dir /\ r.at = "gone"
          /\ r.told = procs[p].told /\ r.fresh = procs[p].fresh
      BY <1>1, <3>2 DEF Proc
    <3> QED
      BY <3>1, <3>2, <3>3
  <2>3. CASE ParentGone(p)
    <3>1. procs' = [procs EXCEPT ![p] = [procs[p] EXCEPT !.killed = TRUE]]
      BY <2>3 DEF ParentGone
    <3>2. PICK r : r = [procs[p] EXCEPT !.killed = TRUE]
      OBVIOUS
    <3>3. /\ r \in Proc /\ r.life = procs[p].life /\ r.gen = procs[p].gen
          /\ r.dir = procs[p].dir /\ r.at = procs[p].at /\ r.killed = TRUE
          /\ r.told = procs[p].told /\ r.fresh = procs[p].fresh
      BY <1>1, <3>2 DEF Proc
    <3> QED
      BY <3>1, <3>2, <3>3
  <2> QED
    BY <2>1, <2>2, <2>3 DEF Own
<1>3. PICK r \in Proc :
        /\ Altered(p, r)
        /\ r.life = procs[p].life /\ r.gen = procs[p].gen
        /\ r.dir = procs[p].dir
        /\ r.told = procs[p].told /\ r.fresh = procs[p].fresh
        /\ procs[p].killed \/ procs[p].at = "gone" =>
             r.killed \/ r.at = "gone"
        /\ r.at = "serving" =>
             procs[p].at = "serving" \/ LockHolders(procs[p].dir) = {}
  BY <1>1, <1>2, AlterOne
<1> QED
  BY <1>3 DEF Altered, Evolved, Untold, Same, Leaving

\* The task that hears an engine's end looks at the generation first (down).
LEMMA EndStep ==
  ASSUME TypesInv, NEW p \in Pids, HearEnd(p) \/ TellEnd(p)
  PROVE  /\ Evolved
         /\ \A q \in Pids : procs'[q].at = procs[q].at
         /\ \A q \in Pids : q # p => procs'[q] = procs[q]
         /\ HearEnd(p) =>
              /\ procs'[p].fresh <=> procs[p].gen = generation
              /\ procs'[p].told \in IF procs[p].gen = generation
                                    THEN {"down", "locked"} ELSE {"yes"}
         /\ TellEnd(p) => procs'[p].told = "yes"
<1>1. procs \in Seq(Proc) /\ procs[p] \in Proc
  BY ProcsAt DEF TypesInv, ProcsType
<1>2. ASSUME NEW t, procs' = Looked(p, t), t \in {"down", "locked"}
      PROVE  \E r \in Proc :
               /\ Altered(p, r)
               /\ r.life = procs[p].life /\ r.gen = procs[p].gen
               /\ r.dir = procs[p].dir /\ r.at = procs[p].at
               /\ r.killed = procs[p].killed
               /\ r.told = IF procs[p].gen = generation THEN t ELSE "yes"
               /\ r.fresh <=> procs[p].gen = generation
  <2>1. PICK f \in BOOLEAN : f = (procs[p].gen = generation)
    OBVIOUS
  <2>2. PICK w : w = IF procs[p].gen = generation THEN t ELSE "yes"
    OBVIOUS
  <2>3. PICK r : r = [at |-> procs[p].at, dir |-> procs[p].dir,
                      life |-> procs[p].life, parent |-> procs[p].parent,
                      gen |-> procs[p].gen, killed |-> procs[p].killed,
                      refused |-> procs[p].refused, told |-> w, fresh |-> f]
    OBVIOUS
  <2>4. r = [[procs[p] EXCEPT !.told = w] EXCEPT !.fresh = f]
    <3>1. PICK m : m = [procs[p] EXCEPT !.told = w]
      OBVIOUS
    <3>2. m = [at |-> procs[p].at, dir |-> procs[p].dir,
               life |-> procs[p].life, parent |-> procs[p].parent,
               gen |-> procs[p].gen, killed |-> procs[p].killed,
               refused |-> procs[p].refused, told |-> w,
               fresh |-> procs[p].fresh]
      BY <1>1, <3>1 DEF Proc
    <3>3. r = [m EXCEPT !.fresh = f]
      BY <2>3, <3>2
    <3> QED
      BY <3>1, <3>3
  <2>5. procs' = [procs EXCEPT ![p].told = w, ![p].fresh = f]
    BY <1>2, <2>1, <2>2 DEF Looked, Ours
  <2>6. procs' = [procs EXCEPT ![p] = r]
    <3>1. procs' = [[procs EXCEPT ![p] = [procs[p] EXCEPT !.told = w]]
                      EXCEPT ![p] = [@ EXCEPT !.fresh = f]]
      BY <2>5
    <3> QED
      BY <1>1, <2>4, <3>1
  <2>7. w \in {"down", "locked", "yes"}
    BY <1>2, <2>2
  <2>8. r \in Proc
    BY <1>1, <2>3, <2>7 DEF Proc
  <2>9. Altered(p, r)
    BY <1>1, <2>6, <2>8, AlterOne
  <2> QED
    BY <2>1, <2>2, <2>3, <2>8, <2>9
<1>3. CASE HearEnd(p)
  <2>1. PICK t \in {"down", "locked"} : procs' = Looked(p, t)
    BY <1>3 DEF HearEnd
  <2>2. PICK r \in Proc :
               /\ Altered(p, r)
               /\ r.life = procs[p].life /\ r.gen = procs[p].gen
               /\ r.dir = procs[p].dir /\ r.at = procs[p].at
               /\ r.killed = procs[p].killed
               /\ r.told = IF procs[p].gen = generation THEN t ELSE "yes"
               /\ r.fresh <=> procs[p].gen = generation
    BY <1>2, <2>1
  <2>3. ~TellEnd(p)
    BY <1>3 DEF HearEnd, TellEnd
  <2> QED
    BY <1>3, <2>2, <2>3 DEF Altered, Evolved, Same, Leaving
<1>4. CASE TellEnd(p)
  <2>1. procs' = [procs EXCEPT ![p] = [procs[p] EXCEPT !.told = "yes"]]
    BY <1>4 DEF TellEnd
  <2>2. PICK r : r = [procs[p] EXCEPT !.told = "yes"]
    OBVIOUS
  <2>3. /\ r \in Proc /\ r.life = procs[p].life /\ r.gen = procs[p].gen
        /\ r.dir = procs[p].dir /\ r.at = procs[p].at
        /\ r.killed = procs[p].killed /\ r.told = "yes"
    BY <1>1, <2>2 DEF Proc
  <2>4. Altered(p, r)
    BY <1>1, <2>1, <2>2, <2>3, AlterOne
  <2>5. ~HearEnd(p)
    BY <1>4 DEF HearEnd, TellEnd
  <2> QED
    BY <1>4, <2>3, <2>4, <2>5 DEF Altered, Evolved, Same, Leaving
<1> QED
  BY <1>3, <1>4

\* A spawn adds one booting engine.
LEMMA NewStep ==
  ASSUME TypesInv, NEW d \in Dirs, NEW l \in Nat, NEW g \in Nat,
         procs' = Append(procs, Engine(d, l, g))
  PROVE  /\ procs' \in Seq(Proc) /\ Len(procs') = Len(procs) + 1
         /\ NextPid = Len(procs) + 1 /\ Len(procs) \in Nat
         /\ procs'[NextPid] = Engine(d, l, g)
         /\ \A q \in Pids : procs'[q] = procs[q]
BY AddOne, EngineIsProc, ProcsAt DEF TypesInv, ProcsType, NextPid
-----------------------------------------------------------------------------
(* Types.                                                                  *)

\* A thread at its first place.
LEMMA AtFields ==
  ASSUME NEW pc, NEW d
  PROVE  At(pc, d) = [pc |-> pc, dir |-> d, gen |-> 0, pid |-> None,
                      hurried |-> FALSE]
<1>1. PICK m : m = [Idle EXCEPT !.pc = pc]
  OBVIOUS
<1>2. m = [pc |-> pc, dir |-> DefaultDir, gen |-> 0, pid |-> None,
           hurried |-> FALSE]
  BY <1>1 DEF Idle
<1>3. At(pc, d) = [m EXCEPT !.dir = d]
  BY <1>1 DEF At
<1> QED
  BY <1>2, <1>3

\* A thread with nothing to do.
LEMMA IdleFields == Idle = At("idle", DefaultDir) /\ DefaultDir \in Dirs
<1>1. DefaultDir \in Dirs
  BY ShellAssumption DEF DefaultDir
<1>2. At("idle", DefaultDir) = [pc |-> "idle", dir |-> DefaultDir, gen |-> 0,
                                pid |-> None, hurried |-> FALSE]
  BY AtFields
<1> QED
  BY <1>1, <1>2 DEF Idle

\* The thread is at its next place.
Moved(pc) ==
  /\ th' \in [pc : Places, dir : Dirs, gen : Nat, pid : Nat, hurried : BOOLEAN]
  /\ th'.pc = pc /\ th'.dir = th.dir

\* The thread moves on to pc ...
LEMMA Goes ==
  ASSUME ThreadType, NEW pc \in Places, th' = [th EXCEPT !.pc = pc]
  PROVE  Moved(pc) /\ th'.pid = th.pid /\ th'.gen = th.gen
BY DEF ThreadType, Moved

\* ... with a process ...
LEMMA GoesWith ==
  ASSUME ThreadType, NEW pc \in Places, NEW i \in Nat,
         th' = [th EXCEPT !.pc = pc, !.pid = i]
  PROVE  Moved(pc) /\ th'.pid = i /\ th'.gen = th.gen
<1>1. PICK m : m = [th EXCEPT !.pc = pc]
  OBVIOUS
<1>2. /\ m \in [pc : Places, dir : Dirs, gen : Nat, pid : Nat,
               hurried : BOOLEAN]
      /\ m.pc = pc /\ m.dir = th.dir /\ m.gen = th.gen
  BY <1>1 DEF ThreadType
<1>3. th' = [m EXCEPT !.pid = i]
  BY <1>1
<1> QED
  BY <1>2, <1>3 DEF Moved

\* ... or ends.
LEMMA GoesIdle ==
  ASSUME th' = Idle
  PROVE  /\ th' \in [pc : Places, dir : Dirs, gen : Nat, pid : Nat,
                     hurried : BOOLEAN]
         /\ th'.pc = "idle" /\ th'.pid = None
BY IdleFields, AtFields DEF Places, Before, None

\* The user's actions keep the types.
LEMMA UserTypes ==
  ASSUME TypesInv, User
  PROVE  TypesInv'
<1> USE DEF TypesInv
<1>0. Pids = 1 .. Len(procs) /\ Len(procs) \in Nat
  BY ProcsAt DEF ProcsType
<1>1. CASE Launch
  <2>1. th' = [pc |-> "begin", dir |-> config, gen |-> 0, pid |-> None,
               hurried |-> FALSE]
    BY <1>1, AtFields DEF Launch
  <2>2. ThreadType'
    BY <2>1 DEF ThreadType, StateType, None, Places, Before
  <2>3. ProcsType'
    BY <1>1 DEF Launch, ProcsType, CanStart, bv
  <2>4. StateType'
    <3>1. PageType(page)' /\ PageType(splash)' /\ splash'.kind = "starting"
      BY <1>1 DEF Launch, PageType, Starting, None
    <3>2. life' \in 0 .. MaxLives /\ life' > 0
      BY <1>1, ShellAssumption DEF Launch, StateType
    <3>3. {child, url, holder}' \subseteq (Pids \cup {None})'
      BY <1>1 DEF Launch
    <3> QED
      BY <1>1, <3>1, <3>2, <3>3 DEF Launch, StateType
  <2> QED
    BY <2>2, <2>3, <2>4
<1>2. CASE Choose \/ PressReset \/ \E d \in Dirs : ChooseData(d)
  <2>1. PICK pc \in {"stop", "stopFirst"}, d \in Dirs :
          th' = [pc |-> pc, dir |-> d, gen |-> 0, pid |-> None,
                 hurried |-> FALSE]
    BY <1>2, AtFields DEF Choose, PressReset, ChooseData, StateType
  <2>2. ThreadType'
    BY <2>1 DEF ThreadType, None, Places, Before
  <2>3. ProcsType'
    BY <1>2 DEF Choose, PressReset, ChooseData, ProcsType, Click, CanStart, bv
  <2>4. StateType'
    BY <1>2 DEF Choose, PressReset, ChooseData, StateType, PageType, ev, wv,
                Click, Free, Pids
  <2> QED
    BY <2>2, <2>3, <2>4
<1>3. CASE PressRetry
  <2>1. PICK pc \in {"stop", "kill"} :
          /\ th' = [pc |-> pc, dir |-> data, gen |-> 0, pid |-> holder,
                    hurried |-> FALSE]
          /\ pc = "kill" => holder # None
    BY <1>3, AtFields DEF PressRetry
  <2>2. ThreadType'
    <3>1. Pids' = Pids /\ holder \in Pids \cup {None} /\ data \in Dirs
      BY <1>3 DEF PressRetry, Pids, StateType
    <3>2. holder \in Nat
      BY <1>0, <3>1 DEF None
    <3> QED
      BY <2>1, <3>1, <3>2 DEF ThreadType, Places, Before
  <2>3. ProcsType'
    BY <1>3 DEF PressRetry, ProcsType, Click, CanStart, bv
  <2>4. StateType'
    BY <1>3 DEF PressRetry, StateType, PageType, wv, Click, Free, Pids
  <2> QED
    BY <2>2, <2>3, <2>4
<1>4. CASE Ask \/ PressCancel
  <2>1. UNCHANGED <<th, procs, foreign>>
    BY <1>4 DEF Ask, PressCancel, bv
  <2>2. ThreadType' /\ ProcsType'
    BY <2>1 DEF ThreadType, ProcsType, CanStart, Pids
  <2>3. PageType(page)'
    <3>1. /\ Pids' = Pids /\ url \in Pids \cup {None}
          /\ PageType(splash)
      BY <2>1 DEF Pids, StateType
    <3>2. page' \in {Choice, Shown(url), splash}
      BY <1>4 DEF Ask, PressCancel
    <3>3. url \in Nat
      BY <1>0, <3>1 DEF None
    <3> QED
      BY <3>1, <3>2, <3>3 DEF PageType, Choice, Shown, None
  <2>4. StateType'
    BY <1>4, <2>1, <2>3 DEF Ask, PressCancel, StateType, PageType, ev, Pids
  <2> QED
    BY <2>2, <2>4
<1>5. CASE \E d \in Dirs : Foreign(d)
  <2>1. PICK d \in Dirs : Foreign(d)
    BY <1>5
  <2>2. /\ procs' \in Seq(Proc) /\ Len(procs') = Len(procs) + 1
    BY <2>1, NewStep DEF Foreign, None
  <2>3. /\ Pids \subseteq Pids' /\ foreign' = foreign + 1
        /\ UNCHANGED <<app, life, config, ev, wv, th, urlFile, touched>>
        /\ foreign < MaxForeign
    BY <1>0, <2>1, <2>2 DEF Foreign, Pids
  <2>4. ThreadType'
    BY <2>3 DEF ThreadType
  <2>5. ProcsType'
    BY <1>0, <2>2, <2>3, ShellAssumption DEF ProcsType, CanStart
  <2>6. StateType'
    BY <2>3 DEF StateType, PageType, ev, wv
  <2> QED
    BY <2>4, <2>5, <2>6
<1>6. CASE Quit
  <2>1. Evolved
    BY <1>6, StopStep DEF Quit
  <2>2. Pids' = Pids
    BY <1>0, <2>1 DEF Evolved, Pids
  <2>3. ThreadType'
    BY <1>6, <2>2 DEF Quit, ThreadType
  <2>4. ProcsType'
    BY <1>6, <2>1 DEF Quit, ProcsType, Evolved, CanStart, bv
  <2>5. StateType'
    BY <1>6, <2>2 DEF Quit, Stop, StateType, PageType, wv
  <2> QED
    BY <2>3, <2>4, <2>5
<1>7. CASE ForceQuit
  <2>1. th' = [pc |-> "idle", dir |-> DefaultDir, gen |-> 0, pid |-> None,
               hurried |-> FALSE]
    BY <1>7, AtFields, IdleFields DEF ForceQuit
  <2>2. ThreadType'
    BY <2>1, IdleFields DEF ThreadType, None, Places, Before
  <2>3. ProcsType'
    BY <1>7, <2>1 DEF ForceQuit, ProcsType, Before, bv
  <2>4. StateType'
    BY <1>7, <2>1 DEF ForceQuit, StateType, PageType, ev, wv, Pids
  <2> QED
    BY <2>2, <2>3, <2>4
<1> QED
  BY <1>1, <1>2, <1>3, <1>4, <1>5, <1>6, <1>7 DEF User

\* The operation's thread keeps the types, and its bound on spawns.
LEMMA ThreadTypes ==
  ASSUME TypesInv, Thread
  PROVE  TypesInv'
<1> USE DEF TypesInv
<1>0. /\ Pids = 1 .. Len(procs) /\ Len(procs) \in Nat /\ None \in Nat
      /\ th.pid \in Pids \cup {None} /\ th.dir \in Dirs
      /\ app # "gone"
  BY ProcsAt DEF ProcsType, ThreadType, None, Thread, KillHolder, WaitHolder,
     StopThenStart, StopFirst, WaitFree, Delete, Begin, FindOrphan, Prepare,
     Spawn, Poll, Answered, StartDown, Running
<1>1. CASE KillHolder
  <2>1. Evolved
    BY <1>1, KillHolderStep
  <2>2. Pids' = Pids
    BY <1>0, <2>1 DEF Evolved, Pids
  <2>3. ThreadType' /\ th'.pc = "waitHolder" /\ th.pc = "kill"
    BY <1>1, <2>2, Goes
       DEF KillHolder, ThreadType, Running, Places, Before, Moved
  <2>4. ProcsType'
    BY <1>1, <2>1, <2>3
       DEF KillHolder, ProcsType, Evolved, CanStart, bv, Before
  <2>5. StateType'
    BY <1>1, <2>2, <1>0 DEF KillHolder, StateType, PageType, ev, wv
  <2> QED
    BY <2>3, <2>4, <2>5
<1>2. CASE WaitHolder \/ Delete
  <2>1. PICK pc \in {"stop", "begin"} :
          th' = [th EXCEPT !.pc = pc] /\ th.pc \in {"waitHolder", "delete"}
    BY <1>2 DEF WaitHolder, Delete, Running
  <2>2. UNCHANGED procs /\ Pids' = Pids
    BY <1>2 DEF WaitHolder, Delete, Pids
  <2>3. ThreadType' /\ th'.pc \in {"stop", "begin"}
    BY <2>1, <2>2, Goes DEF ThreadType, Places, Before, Moved
  <2>4. ProcsType'
    BY <1>2, <2>1, <2>2
       DEF WaitHolder, Delete, ProcsType, CanStart, bv, Before
  <2>5. StateType'
    BY <1>2, <2>2, <1>0 DEF WaitHolder, Delete, StateType, PageType, ev, wv
  <2> QED
    BY <2>3, <2>4, <2>5
<1>3. CASE StopThenStart
  <2>1. Evolved
    BY <1>3, StopStep DEF StopThenStart
  <2>2. Pids' = Pids
    BY <1>0, <2>1 DEF Evolved, Pids
  <2>3. ThreadType' /\ th'.pc = "begin" /\ th.pc = "stop"
    BY <1>3, <2>2, Goes
       DEF StopThenStart, ThreadType, Running, Places, Before, Moved
  <2>4. ProcsType'
    BY <1>3, <2>1, <2>3
       DEF StopThenStart, ProcsType, Evolved, CanStart, bv, Before
  <2>5. StateType'
    BY <1>3, <2>2, <1>0 DEF StopThenStart, Stop, StateType, PageType, wv
  <2> QED
    BY <2>3, <2>4, <2>5
<1>4. CASE StopFirst
  <2>1. Evolved
    BY <1>4, StopStep DEF StopFirst
  <2>2. Pids' = Pids /\ child \in Pids \cup {None} /\ child \in Nat
    BY <1>0, <2>1 DEF Evolved, Pids, StateType
  <2>3. ThreadType' /\ th'.pc = "waitFree" /\ th.pc = "stopFirst"
    BY <1>4, <2>2, GoesWith
       DEF StopFirst, ThreadType, Running, Places, Before, Moved
  <2>4. ProcsType'
    BY <1>4, <2>1, <2>3
       DEF StopFirst, ProcsType, Evolved, CanStart, bv, Before
  <2>5. StateType'
    BY <1>4, <2>2, <1>0 DEF StopFirst, Stop, StateType, PageType, wv
  <2> QED
    BY <2>3, <2>4, <2>5
<1>5. CASE WaitFree
  <2>1. PICK b \in BOOLEAN : th' = [th EXCEPT !.pc = "delete", !.hurried = b]
    BY <1>5 DEF WaitFree
  <2>2. PICK m : m = [th EXCEPT !.pc = "delete"]
    OBVIOUS
  <2>3. /\ m \in [pc : Places, dir : Dirs, gen : Nat, pid : Nat,
                  hurried : BOOLEAN]
        /\ m.pc = "delete" /\ m.pid = th.pid
    BY <2>2 DEF ThreadType, Places, Before
  <2>4. th' = [m EXCEPT !.hurried = b]
    BY <2>1, <2>2
  <2>5. Pids' = Pids
    BY <1>5 DEF WaitFree, Pids
  <2>6. ThreadType' /\ th'.pc = "delete"
    BY <1>0, <2>3, <2>4, <2>5 DEF ThreadType
  <2>7. ProcsType'
    BY <1>5, <2>6
       DEF WaitFree, ProcsType, CanStart, bv, Before, Running
  <2>8. StateType'
    BY <1>5, <2>5, <1>0 DEF WaitFree, StateType, PageType, ev, wv
  <2> QED
    BY <2>6, <2>7, <2>8
<1>6. CASE Begin
  <2>1. PICK pc \in {"orphan", "seed"} :
          th' = [th EXCEPT !.pc = pc, !.gen = generation + 1]
    BY <1>6 DEF Begin
  <2>2. PICK m : m = [th EXCEPT !.pc = pc]
    OBVIOUS
  <2>3. /\ m \in [pc : Places, dir : Dirs, gen : Nat, pid : Nat,
                  hurried : BOOLEAN]
        /\ m.pc = pc /\ m.pid = th.pid
    BY <2>2 DEF ThreadType, Places, Before
  <2>4. th' = [m EXCEPT !.gen = generation + 1]
    BY <2>1, <2>2
  <2>5. Pids' = Pids /\ generation + 1 \in Nat
    BY <1>6 DEF Begin, Pids, StateType
  <2>6. ThreadType' /\ th'.pc \in {"orphan", "seed"}
    BY <1>0, <2>3, <2>4, <2>5 DEF ThreadType
  <2>7. ProcsType'
    BY <1>6, <2>6 DEF Begin, ProcsType, CanStart, bv, Before, Running
  <2>8. StateType'
    BY <1>6, <2>5, <1>0 DEF Begin, StateType, PageType, wv
  <2> QED
    BY <2>6, <2>7, <2>8
<1>7. CASE FindOrphan
  <2>1. Pids' = Pids
    BY <1>7 DEF FindOrphan, Pids
  <2>2. CASE Found(th.dir) = {} /\ th' = [th EXCEPT !.pc = "seed"]
             /\ UNCHANGED holder
    <3>1. ThreadType' /\ th'.pc = "seed"
      BY <1>0, <2>1, <2>2, Goes DEF ThreadType, Places, Before, Moved
    <3>2. ProcsType'
      BY <1>7, <3>1 DEF FindOrphan, ProcsType, CanStart, bv, Before, Running
    <3>3. StateType'
      BY <1>7, <2>1, <2>2, <1>0 DEF FindOrphan, StateType, PageType, wv
    <3> QED
      BY <3>1, <3>2, <3>3
  <2>3. CASE \E p \in Found(th.dir) :
               holder' = p /\ th' = [th EXCEPT !.pc = "down", !.pid = p]
    <3>1. PICK p \in Pids :
            holder' = p /\ th' = [th EXCEPT !.pc = "down", !.pid = p]
      BY <2>3 DEF Found
    <3>2. p \in Nat
      BY <1>0, <3>1
    <3>3. ThreadType' /\ th'.pc = "down"
      BY <1>0, <2>1, <3>1, <3>2, GoesWith
         DEF ThreadType, Places, Before, Moved
    <3>4. ProcsType'
      BY <1>7, <3>3 DEF FindOrphan, ProcsType, CanStart, bv, Before
    <3>5. StateType'
      BY ZenonT(60), <1>7, <2>1, <3>1, <1>0
         DEF FindOrphan, StateType, PageType, wv
    <3> QED
      BY <3>3, <3>4, <3>5
  <2> QED
    BY <1>7, <2>2, <2>3 DEF FindOrphan
<1>8. CASE Prepare
  <2>1. Pids' = Pids
    BY <1>8 DEF Prepare, Pids
  <2>2. ThreadType' /\ th'.pc \in {"spawn", "down"}
    BY <1>0, <1>8, <2>1, Goes, GoesWith
       DEF Prepare, ThreadType, Places, Before, Moved
  <2>3. ProcsType'
    BY <1>8, <2>2 DEF Prepare, ProcsType, CanStart, Before, Running
  <2>4. PageType(page)' /\ PageType(splash)' /\ splash'.kind = "starting"
    BY <1>8 DEF Prepare, PageType, Starting, None
  <2>5. StateType'
    BY <1>8, <2>1, <2>4, <1>0 DEF Prepare, StateType, ev
  <2> QED
    BY <2>2, <2>3, <2>5
<1>9. CASE Spawn
  <2>1. CASE /\ child' = NextPid
             /\ procs' = Append(procs, Engine(th.dir, life, th.gen))
             /\ th' = [th EXCEPT !.pc = "poll", !.pid = NextPid]
    <3>1. /\ procs' \in Seq(Proc) /\ Len(procs') = Len(procs) + 1
          /\ NextPid = Len(procs) + 1
      BY <2>1, NewStep DEF StateType, ThreadType
    <3>2. Pids' = Pids \cup {NextPid} /\ NextPid \in Nat /\ NextPid # None
      BY <1>0, <3>1 DEF Pids, None
    <3>3. ThreadType' /\ th'.pc = "poll"
      BY <2>1, <3>2, GoesWith DEF ThreadType, Places, Before, Moved
    <3>4. ProcsType'
      BY <1>0, <1>9, <3>1, <3>3, ShellAssumption
         DEF Spawn, ProcsType, CanStart, Before, Running
    <3>5. StateType'
      BY <1>9, <2>1, <3>2, <1>0 DEF Spawn, StateType, PageType, wv
    <3> QED
      BY <3>3, <3>4, <3>5
  <2>2. CASE /\ Fault /\ th' = [th EXCEPT !.pc = "down", !.pid = None]
             /\ UNCHANGED <<child, procs>>
    <3>1. Pids' = Pids
      BY <2>2 DEF Pids
    <3>2. ThreadType' /\ th'.pc = "down"
      BY <1>0, <2>2, <3>1, GoesWith DEF ThreadType, Places, Before, Moved
    <3>3. ProcsType'
      BY <1>9, <2>2, <3>2 DEF Spawn, ProcsType, Before
    <3>4. StateType'
      BY <1>9, <2>2, <3>1, <1>0 DEF Spawn, StateType, PageType, wv
    <3> QED
      BY <3>2, <3>3, <3>4
  <2> QED
    BY <1>9, <2>1, <2>2 DEF Spawn
<1>10. CASE Poll
  <2>1. Pids' = Pids
    BY <1>10 DEF Poll, Pids
  <2>2. ThreadType' /\ th'.pc \in {"idle", "answered", "down"}
    BY <1>0, <1>10, <2>1, Goes, GoesWith, GoesIdle
       DEF Poll, Running, ThreadType, Places, Before, Moved
  <2>3. ProcsType'
    BY <1>10, <2>2 DEF Poll, ProcsType, Before
  <2>4. StateType'
    BY <1>10, <2>1, <1>0 DEF Poll, StateType, PageType, ev, wv
  <2> QED
    BY <2>2, <2>3, <2>4
<1>11. CASE Answered
  <2>1. Pids' = Pids
    BY <1>11 DEF Answered, Pids
  <2>2. ThreadType' /\ th'.pc = "idle"
    BY <1>0, <1>11, <2>1, GoesIdle DEF Answered, ThreadType
  <2>3. ProcsType'
    BY <1>11, <2>2 DEF Answered, ProcsType, Before, bv
  <2>4. PageType(page)'
    BY <1>0, <1>11, <2>1 DEF Answered, PageType, Shown
  <2>5. StateType'
    BY <1>11, <2>1, <2>4, <1>0 DEF Answered, StateType, PageType
  <2> QED
    BY <2>2, <2>3, <2>5
<1>12. CASE StartDown
  <2>1. Pids' = Pids
    BY <1>12 DEF StartDown, Pids
  <2>2. ThreadType' /\ th'.pc = "idle"
    BY <1>0, <1>12, <2>1, GoesIdle DEF StartDown, ThreadType
  <2>3. ProcsType'
    BY <1>12, <2>2 DEF StartDown, ProcsType, Before, bv
  <2>4. CASE Current
    <3>1. PageType(page)' /\ PageType(splash)' /\ splash'.kind = "failed"
      BY <1>0, <1>12, <2>1, <2>4 DEF StartDown, GoDown, PageType, Failed
    <3> QED
      BY <1>12, <2>1, <2>2, <2>3, <2>4, <3>1, <1>0
         DEF StartDown, GoDown, StateType
  <2>5. CASE ~Current
    BY <1>12, <2>1, <2>2, <2>3, <2>5, <1>0
       DEF StartDown, StateType, PageType, ev, wv
  <2> QED
    BY <2>4, <2>5
<1> QED
  BY <1>1, <1>2, <1>3, <1>4, <1>5, <1>6, <1>7, <1>8, <1>9, <1>10, <1>11,
     <1>12 DEF Thread

\* Every step keeps the types.
LEMMA TypesStep ==
  ASSUME TypesInv, Next
  PROVE  TypesInv'
<1> USE DEF TypesInv
<1>0. Pids = 1 .. Len(procs) /\ Len(procs) \in Nat /\ None \in Nat
  BY ProcsAt DEF ProcsType, None
<1>1. CASE User
  BY <1>1, UserTypes
<1>2. CASE Thread
  BY <1>2, ThreadTypes
<1>3. CASE Exit
  <2>1. ThreadType' /\ th'.pc = "idle"
    BY <1>3, GoesIdle DEF Exit, ThreadType
  <2>2. ProcsType'
    BY <1>3, <2>1 DEF Exit, ProcsType, Before, bv
  <2>3. StateType'
    BY <1>3, <2>1 DEF Exit, StateType, PageType, ev, wv, Pids
  <2> QED
    BY <2>1, <2>2, <2>3
<1>4. ASSUME NEW p \in Pids, Own(p) \/ Crash(p) \/ HearEnd(p) \/ TellEnd(p)
      PROVE  TypesInv'
  <2>1. Evolved
    BY <1>4, OwnStep, EndStep
  <2>2. Pids' = Pids
    BY <1>0, <2>1 DEF Evolved, Pids
  <2>3. UNCHANGED <<th, foreign, app, life, config, data, generation, child>>
    BY <1>4 DEF Own, Boot, Reap, ParentGone, Crash, HearEnd, TellEnd, GoDown,
                ev, bv
  <2>4. ThreadType' /\ ProcsType'
    BY <2>1, <2>2, <2>3 DEF ThreadType, ProcsType, Evolved, CanStart
  <2>5. StateType'
    <3>1. CASE Own(p) \/ Crash(p)
      BY <2>2, <2>3, <3>1
         DEF Own, Boot, Reap, ParentGone, Crash, StateType, PageType, ev, wv
    <3>2. CASE HearEnd(p)
      BY <2>2, <2>3, <3>2 DEF HearEnd, StateType, PageType, wv, Found
    <3>3. CASE TellEnd(p)
      <4>1. PICK h \in {holder, None} : GoDown(h)
        BY <3>3 DEF TellEnd
      <4>2. h \in Pids \cup {None} /\ h \in Nat
        BY <1>0 DEF StateType
      <4>3. PageType(page)' /\ PageType(splash)' /\ splash'.kind = "failed"
        BY <2>2, <4>1, <4>2 DEF GoDown, PageType, Failed
      <4>4. UNCHANGED holder /\ touched' \in BOOLEAN
        BY <3>3 DEF TellEnd
      <4> QED
        BY <2>2, <2>3, <4>1, <4>3, <4>4 DEF GoDown, StateType
    <3> QED
      BY <1>4, <3>1, <3>2, <3>3
  <2> QED
    BY <2>4, <2>5
<1> QED
  BY <1>1, <1>2, <1>3, <1>4 DEF Next
-----------------------------------------------------------------------------
(* The engines.                                                            *)

\* No id comes or goes when the table has the same engines.
LEMMA PidsKept ==
  ASSUME TypesInv, Evolved
  PROVE  Pids' = Pids
BY ProcsAt DEF Evolved, Pids, TypesInv, ProcsType

\* The lock of a store has one holder.
LEMMA HolderStep ==
  ASSUME TypesInv, OneHolder, Next
  PROVE  OneHolder'
<1>1. CASE UNCHANGED procs
  BY <1>1 DEF OneHolder, Pids
<1>2. ASSUME Evolved, \A p \in Pids : procs'[p].at = procs[p].at
      PROVE  OneHolder'
  BY <1>2, PidsKept DEF OneHolder, Evolved, Same
<1>3. ASSUME NEW d \in Dirs, NEW l \in Nat, NEW g \in Nat,
             procs' = Append(procs, Engine(d, l, g))
      PROVE  OneHolder'
  <2>1. /\ Len(procs') = Len(procs) + 1 /\ Len(procs) \in Nat
        /\ NextPid = Len(procs) + 1
        /\ procs'[NextPid] = Engine(d, l, g) /\ procs' \in Seq(Proc)
        /\ \A q \in Pids : procs'[q] = procs[q]
    BY <1>3, NewStep
  <2>2. Pids = 1 .. Len(procs) /\ Pids' = 1 .. Len(procs')
    BY <2>1, ProcsAt DEF Pids, TypesInv, ProcsType
  <2>3. Pids' = Pids \cup {NextPid}
    BY <2>1, <2>2
  <2>4. procs'[NextPid].at = "booting"
    BY <2>1 DEF Engine
  <2> QED
    BY <2>1, <2>3, <2>4 DEF OneHolder
<1>4. ASSUME NEW p \in Pids, Own(p) \/ Crash(p)
      PROVE  OneHolder'
  <2>1. /\ Evolved
        /\ \A q \in Pids : procs'[q].at = "serving" =>
             \/ procs[q].at = "serving"
             \/ q = p /\ LockHolders(procs[q].dir) = {}
    BY <1>4, OwnStep
  <2>2. \A q \in Pids : procs'[q].dir = procs[q].dir
    BY <2>1 DEF Evolved, Same
  <2>3. Pids' = Pids
    BY <2>1, PidsKept
  <2> QED
    BY <2>1, <2>2, <2>3 DEF OneHolder, LockHolders
<1>5. CASE User
  <2>1. CASE Quit
    BY <2>1, <1>2, StopStep DEF Quit
  <2>2. ASSUME NEW d \in Dirs, Foreign(d)
        PROVE  OneHolder'
    BY <2>2, <1>3 DEF Foreign, None
  <2> QED
    BY <1>1, <1>5, <2>1, <2>2
       DEF User, Launch, Choose, PressRetry, Ask, PressReset, PressCancel,
           ChooseData, ForceQuit
<1>6. CASE Thread
  <2>1. CASE KillHolder
    BY <2>1, <1>2, KillHolderStep
  <2>2. CASE StopThenStart \/ StopFirst
    BY <2>2, <1>2, StopStep DEF StopThenStart, StopFirst
  <2>3. CASE Spawn
    <3>1. th.dir \in Dirs /\ life \in Nat /\ th.gen \in Nat
      BY DEF TypesInv, ThreadType, StateType
    <3> QED
      BY <2>3, <3>1, <1>1, <1>3 DEF Spawn
  <2> QED
    BY <1>1, <1>6, <2>1, <2>2, <2>3
       DEF Thread, WaitHolder, WaitFree, Delete, Begin, FindOrphan, Prepare,
           Poll, Answered, StartDown
<1>7. ASSUME NEW p \in Pids, HearEnd(p) \/ TellEnd(p)
      PROVE  OneHolder'
  BY <1>2, <1>7, EndStep
<1>8. CASE Exit
  BY <1>1, <1>8 DEF Exit
<1> QED
  BY <1>4, <1>5, <1>6, <1>7, <1>8 DEF Next

\* Engines keep their life and generation, and stay on their way out.
LEMMA KnownKept ==
  ASSUME TypesInv, Known, Evolved, UNCHANGED <<life, child>>,
         generation' \in Nat, generation' >= generation,
         app' # "gone" => app # "gone",
         th'.pc \in Stopped => th.pc \in Stopped
  PROVE  Known'
<1>1. /\ Pids' = Pids /\ generation \in Nat
      /\ \A p \in Pids : Same(p) /\ procs[p].gen \in Nat
  BY PidsKept, ProcsAt DEF Evolved, TypesInv, StateType, ProcsType, Proc
<1> QED
  BY <1>1 DEF Known, Same, Mine

\* The same when no engine changes.
LEMMA StillKnown ==
  ASSUME TypesInv, Known, UNCHANGED <<procs, life, child>>,
         generation' \in Nat, generation' >= generation,
         app' # "gone" => app # "gone",
         th'.pc \in Stopped => th.pc \in Stopped
  PROVE  Known'
<1>1. Evolved
  BY DEF Evolved, Same, Leaving, TypesInv, ProcsType
<1> QED
  BY <1>1, KnownKept

\* After stop every engine of this life is on its way out.
LEMMA StopKnown ==
  ASSUME TypesInv, Known, Stop, UNCHANGED life, app # "gone"
  PROVE  Known'
<1>1. /\ Evolved
      /\ child # None => procs'[child].at = "gone" \/ procs'[child].killed
  BY StopStep
<1>2. /\ Pids' = Pids /\ generation \in Nat /\ generation' = generation + 1
      /\ \A p \in Pids : Same(p) /\ procs[p].gen \in Nat /\ p # None
  <2>1. Pids' = Pids /\ \A p \in Pids : Same(p)
    BY <1>1, PidsKept DEF Evolved
  <2>2. \A p \in Pids : procs[p].gen \in Nat /\ p # None
    BY ProcsAt DEF TypesInv, ProcsType, Proc, None
  <2> QED
    BY <2>1, <2>2 DEF TypesInv, StateType, Stop
<1>3. \A p \in Pids : Mine(p) => Leaving(p)'
  BY <1>1, <1>2 DEF Known, Leaving, Same
<1> QED
  BY <1>2, <1>3 DEF Known, Same, Mine

\* The operation's generation is one the shell has issued.
LEMMA DatedStep ==
  ASSUME TypesInv, Dated, Next
  PROVE  Dated'
<1>0. generation \in Nat /\ ThreadType /\ th.gen \in Nat
  BY DEF TypesInv, StateType, ThreadType
<1>1. CASE Launch \/ Choose \/ PressReset \/ (\E d \in Dirs : ChooseData(d))
           \/ PressRetry
  <2>1. \E pc, d, i : th' = [pc |-> pc, dir |-> d, gen |-> 0, pid |-> i,
                            hurried |-> FALSE]
    BY <1>1, AtFields DEF Launch, Choose, PressReset, ChooseData, PressRetry
  <2>2. th'.gen = 0 /\ generation' \in {0, generation}
    BY <1>1, <2>1
       DEF Launch, Choose, PressReset, ChooseData, PressRetry, ev
  <2> QED
    BY <1>0, <2>2 DEF Dated
<1>2. CASE UNCHANGED <<th, generation, app>>
  BY <1>2 DEF Dated
<1>3. CASE Quit
  BY <1>0, <1>3 DEF Quit, Stop, Dated
<1>4. CASE app' = "gone"
  BY <1>4 DEF Dated
<1>5. CASE Thread
  <2>0. app # "gone" /\ UNCHANGED app
    BY <1>5 DEF Thread, KillHolder, WaitHolder, StopThenStart, StopFirst,
       WaitFree, Delete, Begin, FindOrphan, Prepare, Spawn, Poll, Answered,
       StartDown, Running
  <2>1. CASE Begin
    <3>1. PICK pc : th' = [th EXCEPT !.pc = pc, !.gen = generation + 1]
      BY <2>1 DEF Begin
    <3>2. PICK m : m = [th EXCEPT !.pc = pc]
      OBVIOUS
    <3>3. DOMAIN m = {"pc", "dir", "gen", "pid", "hurried"}
      BY <1>0, <3>2 DEF ThreadType
    <3>4. th' = [m EXCEPT !.gen = generation + 1]
      BY <3>1, <3>2
    <3>5. th'.gen = generation + 1
      BY <3>3, <3>4
    <3> QED
      BY <1>0, <2>1, <3>5 DEF Begin, Dated
  <2>2. CASE StopThenStart \/ StopFirst
    <3>1. th'.gen = th.gen
      BY <1>0, <2>2 DEF StopThenStart, StopFirst, ThreadType
    <3> QED
      BY <1>0, <2>0, <2>2, <3>1 DEF StopThenStart, StopFirst, Stop, Dated
  <2>3. CASE Poll \/ Answered \/ StartDown
    <3>1. th'.gen \in {0, th.gen}
      <4>1. \/ th' = Idle \/ th' = [th EXCEPT !.pc = "answered"]
            \/ th' = [th EXCEPT !.pc = "down", !.pid = None]
        BY <2>3 DEF Poll, Answered, StartDown
      <4>2. Idle.gen = 0
        BY DEF Idle
      <4>3. "answered" \in Places /\ "down" \in Places /\ None \in Nat
        BY DEF Places, None
      <4> QED
        BY <1>0, <4>1, <4>2, <4>3, Goes, GoesWith
    <3> QED
      BY <1>0, <2>0, <2>3, <3>1
         DEF Poll, Answered, StartDown, GoDown, Dated, ev
  <2>4. CASE KillHolder \/ WaitHolder \/ WaitFree \/ Delete \/ FindOrphan
             \/ Prepare \/ Spawn
    <3>1. th'.gen = th.gen
      BY <1>0, <2>4
         DEF KillHolder, WaitHolder, WaitFree, Delete, FindOrphan, Prepare,
             Spawn, ThreadType
    <3> QED
      BY <2>0, <2>4, <3>1
         DEF KillHolder, WaitHolder, WaitFree, Delete, FindOrphan, Prepare,
             Spawn, Dated, ev
  <2> QED
    BY <1>5, <2>1, <2>2, <2>3, <2>4 DEF Thread
<1> QED
  BY <1>1, <1>2, <1>3, <1>4, <1>5
     DEF Next, User, Ask, PressCancel, Foreign, ForceQuit, Exit, Own, Boot,
         Reap, ParentGone, Crash, HearEnd, TellEnd, GoDown, ev

\* The shell's only engine that is not leaving is its child.
LEMMA KnownStep ==
  ASSUME TypesInv, Known, Dated, Next
  PROVE  Known'
<1>0. /\ generation \in Nat /\ life \in Nat /\ generation >= generation
      /\ generation + 1 \in Nat /\ generation + 1 >= generation
  BY DEF TypesInv, StateType
<1>1. CASE Launch
  <2>1. Pids' = Pids /\ UNCHANGED procs /\ life' = life + 1
    BY <1>1 DEF Launch, Pids
  <2>2. \A p \in Pids : procs[p].life \in Nat
    BY ProcsAt DEF TypesInv, ProcsType, Proc
  <2>3. \A p \in Pids : procs[p].life <= life /\ procs[p].life < life'
    BY <1>0, <2>1, <2>2 DEF Known
  <2> QED
    BY <1>0, <2>1, <2>2, <2>3 DEF Known, Mine
<1>2. CASE Choose \/ PressReset \/ (\E d \in Dirs : ChooseData(d)) \/ PressRetry
  <2>1. th'.pc \in {"stop", "stopFirst", "kill"}
    <3>1. \E pc \in {"stop", "stopFirst", "kill"} : \E d, i :
            th' = [pc |-> pc, dir |-> d, gen |-> 0, pid |-> i,
                   hurried |-> FALSE]
      BY <1>2, AtFields DEF Choose, PressReset, ChooseData, PressRetry
    <3> QED
      BY <3>1
  <2> QED
    BY <1>0, <1>2, <2>1, StillKnown
       DEF Choose, PressReset, ChooseData, PressRetry, Stopped, ev
<1>3. CASE Ask \/ PressCancel
  BY <1>0, <1>3, StillKnown DEF Ask, PressCancel, ev
<1>4. ASSUME NEW d \in Dirs, NEW l \in Nat, NEW g \in Nat,
             procs' = Append(procs, Engine(d, l, g)),
             UNCHANGED <<app, life, generation>>,
             \/ l = 0 /\ UNCHANGED <<child, th>>
             \/ /\ l = life /\ g <= generation /\ child' = NextPid
                /\ th.pc \in Stopped /\ th'.pc \notin Stopped
      PROVE  Known'
  <2>1. /\ Len(procs') = Len(procs) + 1 /\ Len(procs) \in Nat
        /\ NextPid = Len(procs) + 1
        /\ procs'[NextPid] = Engine(d, l, g) /\ procs' \in Seq(Proc)
        /\ \A q \in Pids : procs'[q] = procs[q]
    BY <1>4, NewStep
  <2>2. Pids = 1 .. Len(procs) /\ Pids' = 1 .. Len(procs')
    BY <2>1, ProcsAt DEF Pids, TypesInv, ProcsType
  <2>3. Pids' = Pids \cup {NextPid}
    BY <2>1, <2>2
  <2>4. procs'[NextPid].life = l /\ procs'[NextPid].gen = g
    BY <2>1 DEF Engine
  <2>5. app # "gone" => life # 0
    BY <1>0 DEF TypesInv, StateType
  <2>8. \A q \in Pids : /\ procs'[q] = procs[q] /\ procs[q].life <= life
                        /\ Leaving(q)' = Leaving(q)
                        /\ Mine(q)' = Mine(q)
    BY <1>4, <2>1 DEF Known, Leaving, Mine
  <2>6. CASE l = 0 /\ UNCHANGED <<child, th>>
    <3>1. app # "gone" => procs'[NextPid].life # life'
      BY <1>4, <2>4, <2>5, <2>6
    <3>2. procs'[NextPid].life <= life'
      BY <1>0, <1>4, <2>4, <2>6
    <3> QED
      BY <1>4, <2>3, <2>6, <2>8, <3>1, <3>2 DEF Known, Mine
  <2>7. CASE /\ l = life /\ g <= generation /\ child' = NextPid
             /\ th.pc \in Stopped /\ th'.pc \notin Stopped
    <3>1. procs'[NextPid].life <= life' /\ procs'[NextPid].gen <= generation'
      BY <1>0, <1>4, <2>4, <2>7
    <3>2. app # "gone" => \A q \in Pids : Mine(q) =>
            Leaving(q) /\ procs[q].gen <= generation
      BY <2>7 DEF Known
    <3> QED
      BY <1>4, <2>3, <2>7, <2>8, <3>1, <3>2 DEF Known
  <2> QED
    BY <1>4, <2>6, <2>7
<1>5. ASSUME NEW d \in Dirs, Foreign(d)
      PROVE  Known'
  BY <1>0, <1>4, <1>5 DEF Foreign, None, ev
<1>6. CASE Quit
  BY <1>6, StopKnown DEF Quit
<1>7. CASE ForceQuit \/ Exit
  BY <1>0, <1>7, StillKnown, GoesIdle DEF ForceQuit, Exit, ev, Stopped
<1>8. CASE Thread
  <2>0. app # "gone" /\ UNCHANGED <<app, life>>
    BY <1>8 DEF Thread, KillHolder, WaitHolder,
     StopThenStart, StopFirst, WaitFree, Delete, Begin, FindOrphan, Prepare,
     Spawn, Poll, Answered, StartDown, Running
  <2>1. CASE KillHolder
    <3>1. th'.pc = "waitHolder"
      BY <2>1 DEF KillHolder, TypesInv, ThreadType
    <3> QED
      BY <1>0, <2>0, <2>1, <3>1, KillHolderStep, KnownKept
         DEF KillHolder, ev, Stopped
  <2>2. CASE StopThenStart \/ StopFirst
    BY <2>0, <2>2, StopKnown DEF StopThenStart, StopFirst
  <2>3. CASE WaitHolder \/ WaitFree \/ Delete
    <3>1. th'.pc \in Stopped => th.pc \in Stopped
      BY <2>3 DEF WaitHolder, WaitFree, Delete, Running, Stopped, TypesInv,
                  ThreadType
    <3> QED
      BY <1>0, <2>0, <2>3, <3>1, StillKnown DEF WaitHolder, WaitFree, Delete, ev
  <2>4. CASE Begin
    <3>1. th.pc \in Stopped
      BY <2>4 DEF Begin, Running, Stopped
    <3> QED
      BY <1>0, <2>0, <2>4, <3>1, StillKnown DEF Begin
  <2>5. CASE FindOrphan \/ Prepare
    <3>1. th.pc \in Stopped
      BY <2>5 DEF FindOrphan, Prepare, Running, Stopped
    <3> QED
      BY <1>0, <2>0, <2>5, <3>1, StillKnown DEF FindOrphan, Prepare, ev
  <2>6. CASE Spawn
    <3>1. th.dir \in Dirs /\ th.gen \in Nat /\ th.pc \in Stopped
      BY <2>6 DEF TypesInv, ThreadType, Spawn, Running, Stopped
    <3>2. CASE UNCHANGED <<child, procs>>
      BY <1>0, <2>0, <2>6, <3>1, <3>2, StillKnown DEF Spawn
    <3>3. CASE /\ child' = NextPid
               /\ procs' = Append(procs, Engine(th.dir, life, th.gen))
               /\ th' = [th EXCEPT !.pc = "poll", !.pid = NextPid]
      <4>1. th'.pc \notin Stopped
        BY <3>3 DEF TypesInv, ThreadType, Stopped
      <4>2. th.gen <= generation
        BY <2>0 DEF Dated
      <4> QED
        BY <1>0, <1>4, <2>0, <2>6, <3>1, <3>3, <4>1, <4>2 DEF Spawn
    <3> QED
      BY <2>6, <3>2, <3>3 DEF Spawn
  <2>7. CASE Poll \/ Answered \/ StartDown
    <3>1. th'.pc \notin Stopped
      BY <2>7, Goes, GoesWith, GoesIdle
         DEF Poll, Answered, StartDown, TypesInv, ThreadType, Stopped,
             Places, Moved, None
    <3> QED
      BY <1>0, <2>0, <2>7, <3>1, StillKnown
         DEF Poll, Answered, StartDown, GoDown, ev
  <2> QED
    BY <1>8, <2>1, <2>2, <2>3, <2>4, <2>5, <2>6, <2>7 DEF Thread
<1>9. ASSUME NEW p \in Pids, Own(p) \/ Crash(p) \/ HearEnd(p) \/ TellEnd(p)
      PROVE  Known'
  <2>1. Evolved
    BY <1>9, OwnStep, EndStep
  <2>2. UNCHANGED <<th, app, life, generation, child>>
    BY <1>9 DEF Own, Boot, Reap, ParentGone, Crash, HearEnd, TellEnd, GoDown,
                ev
  <2> QED
    BY <1>0, <2>1, <2>2, KnownKept
<1> QED
  BY <1>1, <1>2, <1>3, <1>5, <1>6, <1>7, <1>8, <1>9 DEF Next, User
-----------------------------------------------------------------------------
(* The window.                                                             *)

\* What is said of the ends, and of the page at each place of the thread.
Window == InStep /\ Told /\ Preparing /\ Awaiting /\ Settled

\* The places of which nothing is said of the page.
Silent == {"kill", "waitHolder", "stop", "stopFirst", "waitFree", "delete",
           "begin"}

\* Nothing is said of the page before the new generation.
LEMMA SilentWindow ==
  ASSUME Told', th'.pc \in Silent
  PROVE  Window'
BY DEF Window, InStep, Preparing, Awaiting, Settled, Silent

\* What is said of the ends, when none is heard or told ...
LEMMA ToldKept ==
  ASSUME TypesInv, Told, Evolved, Untold,
         UNCHANGED <<app, life, generation, down>>
  PROVE  Told'
<1>1. Pids' = Pids /\ \A p \in Pids : Same(p)
  BY PidsKept DEF Evolved
<1> QED
  BY <1>1 DEF Told, Untold, Same, Mine

\* ... and when no engine changes.
LEMMA ToldStays ==
  ASSUME Told, UNCHANGED <<app, life, generation, down, procs>>
  PROVE  Told'
BY DEF Told, Mine, Pids

\* No end of the new generation has been told.
LEMMA ToldStop ==
  ASSUME TypesInv, Known, Told, Stop, UNCHANGED life, app # "gone"
  PROVE  Told'
<1>1. Evolved /\ Untold
  BY StopStep
<1>2. Pids' = Pids /\ \A p \in Pids : Same(p)
  BY <1>1, PidsKept DEF Evolved
<1>3. generation \in Nat /\ generation' = generation + 1
  BY DEF Stop, TypesInv, StateType
<1>4. \A p \in Pids : procs[p].gen \in Nat
  BY ProcsAt DEF TypesInv, ProcsType, Proc
<1>5. \A p \in Pids : Mine(p) => procs[p].gen # generation'
  BY <1>3, <1>4 DEF Known
<1> QED
  BY <1>1, <1>2, <1>5 DEF Told, Untold, Same, Mine

\* The buttons, the menu and quitting.
LEMMA UserWindow ==
  ASSUME TypesInv, Known, Window, User
  PROVE  Window'
<1>0. Told /\ life \in Nat
  BY DEF Window, TypesInv, StateType
<1>1. CASE Launch
  <2>1. \A p \in Pids : procs[p].life # life'
    <3>1. \A p \in Pids : procs[p].life \in Nat /\ procs[p].life <= life
      BY ProcsAt DEF TypesInv, ProcsType, Proc, Known
    <3> QED
      BY <1>0, <1>1, <3>1 DEF Launch
  <2>2. Told'
    BY <1>0, <1>1, <2>1 DEF Launch, Told, Mine, Pids
  <2>3. th'.pc = "begin"
    BY <1>1, AtFields DEF Launch
  <2> QED
    BY <2>2, <2>3, SilentWindow DEF Silent
<1>2. CASE Choose \/ PressReset \/ (\E d \in Dirs : ChooseData(d))
           \/ PressRetry
  <2>1. \E pc \in {"stop", "stopFirst", "kill"} : \E d, i :
          th' = [pc |-> pc, dir |-> d, gen |-> 0, pid |-> i,
                 hurried |-> FALSE]
    BY <1>2, AtFields DEF Choose, PressReset, ChooseData, PressRetry
  <2>2. th'.pc \in Silent
    BY <2>1 DEF Silent
  <2>3. Told'
    BY <1>0, <1>2, ToldStays
       DEF Choose, PressReset, ChooseData, PressRetry, ev
  <2> QED
    BY <2>2, <2>3, SilentWindow
<1>3. CASE Ask \/ PressCancel
  <2>1. /\ UNCHANGED <<app, life, ev, splash, th, procs, touched>>
        /\ Pids' = Pids
        /\ page' \in {Choice, IF url # None THEN Shown(url) ELSE splash}
    BY <1>3 DEF Ask, PressCancel, Pids
  <2>2. Told' /\ InStep'
    BY <1>0, <2>1, ToldStays DEF Window, InStep, ev
  <2>3. Preparing'
    BY <2>1 DEF Window, Preparing, Mine, ev, Choice
  <2>4. Awaiting'
    BY <2>1 DEF Window, Awaiting, Mine, ev, Choice
  <2>5. Settled'
    BY <2>1 DEF Window, Settled, Mine, ev, Choice
  <2> QED
    BY <2>2, <2>3, <2>4, <2>5 DEF Window
<1>4. ASSUME NEW d \in Dirs, Foreign(d)
      PROVE  Window'
  <2>1. /\ UNCHANGED <<app, life, ev, wv, th, touched>>
        /\ procs' = Append(procs, Engine(d, 0, 0))
    BY <1>4 DEF Foreign, None
  <2>2. /\ Len(procs') = Len(procs) + 1 /\ Len(procs) \in Nat
        /\ NextPid = Len(procs) + 1
        /\ procs'[NextPid] = Engine(d, 0, 0) /\ procs' \in Seq(Proc)
        /\ \A q \in Pids : procs'[q] = procs[q]
    BY <2>1, NewStep
  <2>3. Pids = 1 .. Len(procs) /\ Pids' = 1 .. Len(procs')
    BY <2>2, ProcsAt DEF Pids, TypesInv, ProcsType
  <2>4. Pids' = Pids \cup {NextPid}
    BY <2>2, <2>3
  <2>5. /\ procs'[NextPid].life = 0 /\ procs'[NextPid].told = "no"
        /\ app = "up" => life # 0
    BY <1>0, <2>2 DEF Engine, TypesInv, StateType
  <2>6. \A q \in Pids : procs'[q] = procs[q] /\ (Mine(q)' <=> Mine(q))
    BY <2>1, <2>2 DEF Mine
  <2>7. app = "up" => procs'[NextPid].life # life'
    BY <2>1, <2>5
  <2>8. Told'
    BY <1>0, <2>1, <2>4, <2>5, <2>6 DEF Told, Mine, ev
  <2>9. InStep'
    BY <2>1 DEF Window, InStep, ev
  <2>10. Preparing'
    BY <2>1, <2>4, <2>6, <2>7 DEF Window, Preparing, Mine, ev, wv
  <2>11. child \in Pids \cup {None} /\ th.pid \in Pids \cup {None}
         /\ (th.pc \in {"poll", "answered"} => th.pid # None)
         /\ url \in Pids \cup {None}
    BY DEF TypesInv, StateType, ThreadType
  <2>12. Awaiting'
    <3>1. CASE app = "up" /\ ~touched /\ th.pc \in {"poll", "answered"}
      <4>1. child \in Pids
        BY <2>11, <3>1 DEF Window, Awaiting
      <4> QED
        BY <2>1, <2>6, <3>1, <4>1 DEF Window, Awaiting, Mine, ev, wv
    <3>2. CASE ~(app = "up" /\ ~touched /\ th.pc \in {"poll", "answered"})
      BY <2>1, <3>2 DEF Awaiting
    <3> QED
      BY <3>1, <3>2
  <2>13. Settled'
    <3>1. CASE app = "up" /\ ~touched /\ th.pc = "idle" /\ url # None
      <4>1. child \in Pids
        BY <2>11, <3>1 DEF Window, Settled
      <4> QED
        BY <2>1, <2>6, <3>1, <4>1 DEF Window, Settled, Mine, ev, wv
    <3>2. CASE ~(app = "up" /\ ~touched /\ th.pc = "idle" /\ url # None)
      BY <2>1, <3>2 DEF Window, Settled, ev, wv
    <3> QED
      BY <3>1, <3>2
  <2> QED
    BY <2>8, <2>9, <2>10, <2>12, <2>13 DEF Window
<1>5. CASE Quit
  <2>1. Told'
    BY <1>0, <1>5, ToldStop DEF Quit
  <2> QED
    BY <1>5, <2>1
       DEF Quit, Window, InStep, Preparing, Awaiting, Settled
<1>6. CASE ForceQuit
  <2>1. Told'
    BY <1>0, <1>6 DEF ForceQuit, Told, Pids
  <2> QED
    BY <1>6, <2>1
       DEF ForceQuit, Window, InStep, Preparing, Awaiting, Settled
<1> QED
  BY <1>1, <1>2, <1>3, <1>4, <1>5, <1>6 DEF User

\* The operation's thread: each place has its page, and nobody else changes
\* the generation under it.
LEMMA ThreadWindow ==
  ASSUME TypesInv, Known, Window, Thread
  PROVE  Window'
<1>0. /\ InStep /\ Told /\ Preparing /\ Awaiting /\ Settled /\ ThreadType
      /\ generation \in Nat /\ None \in Nat
      /\ Places = Before \cup {"idle", "poll", "answered", "down"}
  BY DEF Window, TypesInv, StateType, Places, None
<1>1. CASE KillHolder
  <2>1. Told'
    BY <1>0, <1>1, KillHolderStep, ToldKept DEF KillHolder, ev
  <2>2. th'.pc = "waitHolder"
    BY <1>0, <1>1 DEF KillHolder, ThreadType
  <2> QED
    BY <2>1, <2>2, SilentWindow DEF Silent
<1>2. CASE WaitHolder \/ Delete \/ WaitFree
  <2>1. Told'
    BY <1>0, <1>2, ToldStays DEF WaitHolder, Delete, WaitFree, ev
  <2>2. th'.pc \in {"stop", "begin", "delete"}
    BY <1>0, <1>2 DEF WaitHolder, Delete, WaitFree, ThreadType
  <2> QED
    BY <2>1, <2>2, SilentWindow DEF Silent
<1>3. CASE StopThenStart \/ StopFirst
  <2>1. Told'
    BY <1>0, <1>3, ToldStop DEF StopThenStart, StopFirst, Running
  <2>2. th'.pc \in {"begin", "waitFree"}
    BY <1>0, <1>3 DEF StopThenStart, StopFirst, ThreadType
  <2> QED
    BY <2>1, <2>2, SilentWindow DEF Silent
<1>4. CASE Begin
  <2>1. PICK pc \in {"orphan", "seed"} :
          th' = [th EXCEPT !.pc = pc, !.gen = generation + 1]
    BY <1>4 DEF Begin
  <2>2. PICK m : m = [th EXCEPT !.pc = pc]
    OBVIOUS
  <2>3. DOMAIN m = {"pc", "dir", "gen", "pid", "hurried"} /\ m.pc = pc
    BY <1>0, <2>2 DEF ThreadType
  <2>4. th' = [m EXCEPT !.gen = generation + 1]
    BY <2>1, <2>2
  <2>5. th'.gen = generation + 1 /\ th'.pc \in {"orphan", "seed"}
    BY <2>3, <2>4
  <2>6. /\ UNCHANGED <<app, life, procs, touched>> /\ Pids' = Pids
        /\ generation' = generation + 1 /\ url' = None /\ down' = FALSE
        /\ app # "gone"
    BY <1>4 DEF Begin, Pids, Running
  <2>7. \A p \in Pids : Mine(p) => procs[p].gen < generation'
    <3>1. \A p \in Pids : procs[p].gen \in Nat
      BY ProcsAt DEF TypesInv, ProcsType, Proc
    <3> QED
      BY <1>0, <2>6, <3>1 DEF Known
  <2>8. \A p \in Pids : Mine(p) => procs[p].gen # generation'
    <3>1. \A p \in Pids : procs[p].gen \in Nat
      BY ProcsAt DEF TypesInv, ProcsType, Proc
    <3> QED
      BY <1>0, <2>6, <2>7, <3>1
  <2>9. Told'
    BY <1>0, <2>6, <2>8 DEF Told, Mine
  <2>10. InStep' /\ Awaiting' /\ Settled'
    BY <2>5, <2>6 DEF InStep, Awaiting, Settled
  <2>11. Preparing'
    BY <2>5, <2>6, <2>7 DEF Preparing, Mine
  <2> QED
    BY <2>9, <2>10, <2>11 DEF Window
<1>5. CASE FindOrphan \/ Prepare
  <2>1. /\ UNCHANGED <<app, life, generation, url, down, procs, touched>>
        /\ Pids' = Pids /\ th.pc \in {"orphan", "seed"}
    BY <1>5 DEF FindOrphan, Prepare, Pids, Running, ev
  <2>2. Told'
    BY <1>0, <2>1, ToldStays
  <2>3. th'.gen = th.gen /\ th'.pc \in {"seed", "spawn", "down"}
    BY <1>0, <1>5 DEF FindOrphan, Prepare, ThreadType
  <2>4. InStep' /\ Awaiting' /\ Settled'
    BY <1>0, <2>1, <2>3 DEF InStep, Awaiting, Settled
  <2>5. th'.pc = "spawn" => page' = Starting /\ splash' = Starting
    <3>1. Prepare => page' = Starting /\ splash' = Starting
      BY DEF Prepare
    <3>2. FindOrphan => th'.pc \in {"seed", "down"}
      BY <1>0 DEF FindOrphan, ThreadType
    <3> QED
      BY <1>5, <3>1, <3>2
  <2>6. Preparing'
    BY <1>0, <2>1, <2>3, <2>5 DEF Preparing, Mine, Starting
  <2> QED
    BY <2>2, <2>4, <2>6 DEF Window
<1>6. CASE Spawn
  <2>1. /\ UNCHANGED <<app, life, generation, url, down, touched, wv>>
        /\ th.pc = "spawn"
    BY <1>6 DEF Spawn, Running
  <2>2. CASE UNCHANGED <<child, procs>>
             /\ th' = [th EXCEPT !.pc = "down", !.pid = None]
    <3>1. Told'
      BY <1>0, <2>1, <2>2, ToldStays
    <3>2. th'.gen = th.gen /\ th'.pc = "down"
      BY <1>0, <2>2, GoesWith DEF Moved
    <3> QED
      BY <1>0, <2>1, <3>1, <3>2
         DEF Window, InStep, Preparing, Awaiting, Settled
  <2>3. CASE /\ child' = NextPid
             /\ procs' = Append(procs, Engine(th.dir, life, th.gen))
             /\ th' = [th EXCEPT !.pc = "poll", !.pid = NextPid]
    <3>1. th.dir \in Dirs /\ life \in Nat /\ th.gen \in Nat
      BY DEF TypesInv, ThreadType, StateType
    <3>2. /\ Len(procs') = Len(procs) + 1 /\ Len(procs) \in Nat
          /\ NextPid = Len(procs) + 1
          /\ procs'[NextPid] = Engine(th.dir, life, th.gen)
          /\ procs' \in Seq(Proc)
          /\ \A q \in Pids : procs'[q] = procs[q]
      BY <2>3, <3>1, NewStep
    <3>3. Pids = 1 .. Len(procs) /\ Pids' = 1 .. Len(procs')
      BY <3>2, ProcsAt DEF Pids, TypesInv, ProcsType
    <3>4. Pids' = Pids \cup {NextPid} /\ NextPid \in Nat
      BY <3>2, <3>3
    <3>5. /\ procs'[NextPid].life = life /\ procs'[NextPid].told = "no"
          /\ procs'[NextPid].gen = th.gen
      BY <3>2 DEF Engine
    <3>6. th'.gen = th.gen /\ th'.pc = "poll" /\ th'.pid = NextPid
      BY <1>0, <2>3, <3>4, GoesWith DEF Moved
    <3>7. \A q \in Pids : procs'[q] = procs[q] /\ (Mine(q)' <=> Mine(q))
      BY <2>1, <3>2 DEF Mine
    <3>8. Told'
      BY <1>0, <2>1, <3>4, <3>5, <3>7 DEF Told, Mine
    <3>9. InStep' /\ Preparing' /\ Settled'
      BY <1>0, <2>1, <3>6 DEF InStep, Preparing, Settled
    <3>10. Awaiting'
      <4> SUFFICES ASSUME app = "up", ~touched
                   PROVE  Awaiting'
        BY <2>1 DEF Awaiting
      <4>1. /\ ~down /\ url = None /\ page.kind \in {"starting", "reset"}
            /\ splash.kind = "starting" /\ th.gen = generation
        BY <1>0, <2>1 DEF Preparing, InStep
      <4> QED
        BY <2>1, <2>3, <3>5, <3>6, <4>1 DEF Awaiting, Mine, wv
    <3> QED
      BY <3>8, <3>9, <3>10 DEF Window
  <2> QED
    BY <1>6, <2>2, <2>3 DEF Spawn
<1>7. CASE Poll
  <2>1. /\ UNCHANGED <<app, life, ev, wv, procs, touched>>
        /\ Pids' = Pids /\ th.pc = "poll"
    BY <1>7 DEF Poll, Running, Pids
  <2>2. Told'
    BY <1>0, <2>1, ToldStays DEF ev
  <2>3. CASE (~Current \/ down) /\ th' = Idle
    <3>1. th'.pc = "idle"
      BY <2>3, GoesIdle
    <3>2. app = "up" => Current
      BY <1>0, <2>1 DEF InStep, Current
    <3>3. Settled'
      BY <1>0, <2>1, <2>3, <3>1, <3>2 DEF Settled, Awaiting, ev, wv
    <3> QED
      BY <2>2, <3>1, <3>3 DEF Window, InStep, Preparing, Awaiting
  <2>4. CASE th' = [th EXCEPT !.pc = "answered"]
    <3>1. th'.pc = "answered" /\ th'.gen = th.gen /\ th'.pid = th.pid
      BY <1>0, <2>4, Goes DEF Moved
    <3>2. Awaiting'
      BY <1>0, <2>1, <3>1 DEF Awaiting, ev, wv, Mine
    <3>3. InStep'
      BY <1>0, <2>1, <3>1 DEF InStep, ev
    <3> QED
      BY <2>2, <3>1, <3>2, <3>3 DEF Window, Preparing, Settled
  <2>5. CASE th' = [th EXCEPT !.pc = "down", !.pid = None]
    <3>1. th'.pc = "down" /\ th'.gen = th.gen
      BY <1>0, <2>5, GoesWith DEF Moved
    <3>2. InStep'
      BY <1>0, <2>1, <3>1 DEF InStep, ev
    <3> QED
      BY <2>2, <3>1, <3>2 DEF Window, Preparing, Awaiting, Settled
  <2> QED
    BY <1>7, <2>3, <2>4, <2>5 DEF Poll
<1>8. CASE Answered
  <2>1. /\ UNCHANGED <<app, life, generation, child, down, procs, touched>>
        /\ Pids' = Pids /\ th.pc = "answered" /\ url' = th.pid
        /\ page' = Shown(th.pid) /\ th' = Idle
    BY <1>8 DEF Answered, Running, Pids
  <2>2. Told'
    BY <1>0, <2>1, ToldStays
  <2>3. th'.pc = "idle"
    BY <2>1, GoesIdle
  <2>4. th.pid # None
    BY <1>0, <2>1 DEF ThreadType
  <2>5. Settled'
    BY <1>0, <2>1, <2>3, <2>4 DEF Settled, Awaiting, Mine
  <2> QED
    BY <2>2, <2>3, <2>5 DEF Window, InStep, Preparing, Awaiting
<1>9. CASE StartDown
  <2>1. /\ UNCHANGED <<app, life, procs, touched, generation>>
        /\ Pids' = Pids /\ th.pc = "down" /\ th' = Idle
    BY <1>9 DEF StartDown, Running, Pids, GoDown, ev
  <2>2. th'.pc = "idle"
    BY <2>1, GoesIdle
  <2>3. CASE Current
    <3>1. /\ down' = TRUE /\ url' = None
          /\ page'.kind = "failed" /\ splash'.kind = "failed"
      BY <1>9, <2>3 DEF StartDown, GoDown, Failed
    <3>2. Told'
      BY <1>0, <2>1, <3>1 DEF Told, Mine
    <3>3. Settled'
      BY <3>1 DEF Settled
    <3> QED
      BY <2>2, <3>2, <3>3 DEF Window, InStep, Preparing, Awaiting
  <2>4. CASE ~Current
    <3>1. app # "up" /\ UNCHANGED ev
      BY <1>0, <1>9, <2>1, <2>4 DEF InStep, Current, StartDown
    <3>2. Told'
      BY <1>0, <2>1, <3>1, ToldStays DEF ev
    <3> QED
      BY <2>1, <3>1, <3>2
         DEF Window, InStep, Preparing, Awaiting, Settled
  <2> QED
    BY <2>3, <2>4
<1> QED
  BY <1>1, <1>2, <1>3, <1>4, <1>5, <1>6, <1>7, <1>8, <1>9 DEF Thread

\* The engines' own steps do not concern the window.
LEMMA OwnWindow ==
  ASSUME TypesInv, Window, NEW p \in Pids, Own(p) \/ Crash(p)
  PROVE  Window'
<1>1. Evolved /\ Untold
  BY OwnStep
<1>2. UNCHANGED <<app, life, ev, wv, th, touched>>
  BY DEF Own, Boot, Reap, ParentGone, Crash
<1>3. Pids' = Pids
  BY <1>1, PidsKept
<1>4. \A q \in Pids : /\ Mine(q)' <=> Mine(q)
                      /\ procs'[q].gen = procs[q].gen
  BY <1>1, <1>2 DEF Evolved, Same, Mine
<1>5. Told' /\ InStep'
  BY <1>1, <1>2, ToldKept DEF Window, InStep, ev
<1>6. Preparing'
  BY <1>2, <1>3, <1>4 DEF Window, Preparing, ev, wv
<1>7. /\ child \in Pids \cup {None} /\ th.pid \in Pids \cup {None}
      /\ th.pc \in {"poll", "answered"} => th.pid # None
      /\ url \in Pids \cup {None}
  BY DEF TypesInv, StateType, ThreadType
<1>8. child \in Pids =>
        (Mine(child)' <=> Mine(child)) /\ procs'[child].gen = procs[child].gen
  BY <1>1, <1>2, <1>4 DEF Mine, ev
<1>9. Awaiting'
  BY <1>2, <1>7, <1>8 DEF Window, Awaiting, ev, wv, Mine
<1>10. Settled'
  BY <1>2, <1>7, <1>8 DEF Window, Settled, ev, wv, Mine
<1> QED
  BY <1>5, <1>6, <1>9, <1>10 DEF Window

\* An end that is told takes down the generation it belongs to, unless it
\* passed its look before the next start.
LEMMA EndWindow ==
  ASSUME TypesInv, Window, NEW p \in Pids, HearEnd(p) \/ TellEnd(p)
  PROVE  Window'
<1>0. /\ InStep /\ Told /\ Preparing /\ Awaiting /\ Settled
      /\ procs[p] \in Proc /\ touched \in BOOLEAN
  BY ProcsAt DEF Window, TypesInv, ProcsType, StateType
<1>1. /\ Evolved
      /\ \A q \in Pids : q # p => procs'[q] = procs[q]
  BY EndStep
<1>2. UNCHANGED <<app, life, generation, child, th>> /\ app # "gone" /\ Mine(p)
  BY DEF HearEnd, TellEnd, GoDown, Mine
<1>3. Pids' = Pids
  BY <1>1, PidsKept
<1>4. \A q \in Pids : /\ Mine(q)' <=> Mine(q)
                      /\ procs'[q].gen = procs[q].gen
  BY <1>1, <1>2 DEF Evolved, Same, Mine
<1>5. InStep'
  BY <1>0, <1>2 DEF InStep
<1>6. /\ child \in Pids \cup {None} /\ th.pid \in Pids \cup {None}
      /\ th.pc \in {"poll", "answered"} => th.pid # None
      /\ url \in Pids \cup {None}
  BY DEF TypesInv, StateType, ThreadType
<1>7. child \in Pids =>
        (Mine(child)' <=> Mine(child)) /\ procs'[child].gen = procs[child].gen
  BY <1>2, <1>4 DEF Mine
<1>8. CASE HearEnd(p)
  <2>1. UNCHANGED <<url, down, wv, touched>>
    BY <1>8 DEF HearEnd
  <2>2. /\ procs'[p].fresh <=> procs[p].gen = generation
        /\ procs'[p].told \in IF procs[p].gen = generation
                              THEN {"down", "locked"} ELSE {"yes"}
    BY <1>8, EndStep
  <2>3. Told'
    BY <1>0, <1>1, <1>2, <1>3, <1>4, <2>1, <2>2 DEF Told
  <2>4. Preparing'
    BY <1>0, <1>2, <1>3, <1>4, <2>1 DEF Preparing, wv
  <2>5. Awaiting' /\ Settled'
    BY <1>0, <1>2, <1>6, <1>7, <2>1 DEF Awaiting, Settled, wv, Mine
  <2> QED
    BY <1>5, <2>3, <2>4, <2>5 DEF Window
<1>9. CASE TellEnd(p)
  <2>1. /\ procs[p].told \in {"down", "locked"}
        /\ down' = TRUE /\ url' = None
        /\ page'.kind = "failed" /\ splash'.kind = "failed"
        /\ touched' = (touched \/ (procs[p].fresh
                                     /\ procs[p].gen # generation))
    BY <1>9 DEF TellEnd, GoDown, Failed
  <2>2. ~touched' => ~touched /\ procs[p].gen = generation
    BY <1>0, <2>1 DEF Told
  <2>3. procs'[p].told = "yes"
    BY <1>9, EndStep
  <2>4. Told'
    BY <1>0, <1>1, <1>3, <2>1, <2>3 DEF Told
  <2>5. Preparing'
    <3>1. procs[p].gen \in Nat
      BY <1>0 DEF Proc
    <3>2. app = "up" /\ ~touched /\ th.pc \in {"orphan", "seed", "spawn"}
            => procs[p].gen < generation
      BY <1>0, <1>2 DEF Preparing
    <3>3. ~(app = "up" /\ ~touched' /\ th.pc \in {"orphan", "seed", "spawn"})
      BY <2>2, <3>1, <3>2
    <3> QED
      BY <1>2, <3>3 DEF Preparing
  <2>6. Awaiting'
    BY <1>0, <1>2, <1>6, <1>7, <2>1, <2>2 DEF Awaiting, Mine
  <2>7. Settled'
    BY <2>1 DEF Settled
  <2> QED
    BY <1>5, <2>4, <2>5, <2>6, <2>7 DEF Window
<1> QED
  BY <1>8, <1>9
-----------------------------------------------------------------------------
(* The theorems.                                                           *)

\* The inductive invariant holds at the start ...
LEMMA ShellInit == Init => ShellInv
<1> SUFFICES ASSUME Init PROVE ShellInv
  OBVIOUS
<1>1. /\ procs = << >> /\ Pids = {} /\ Len(procs) = 0 /\ procs \in Seq(Proc)
      /\ DefaultDir \in Dirs
  BY IdleFields DEF Init, Pids
<1>2. th = [pc |-> "idle", dir |-> DefaultDir, gen |-> 0, pid |-> None,
            hurried |-> FALSE]
  BY IdleFields, AtFields DEF Init
<1>3. ThreadType
  BY <1>1, <1>2 DEF ThreadType, Places, Before, None
<1>4. ProcsType
  BY <1>1, <1>2, ShellAssumption DEF Init, ProcsType, Before
<1>5. StateType
  <2>1. PageType(page) /\ PageType(splash) /\ splash.kind = "starting"
    BY DEF Init, PageType, Starting, None
  <2>2. life \in 0 .. MaxLives /\ generation \in Nat
    BY ShellAssumption DEF Init
  <2>3. {child, url, holder} \subseteq Pids \cup {None}
    BY DEF Init
  <2>4. /\ app = "gone" /\ th.pc = "idle" /\ urlFile \subseteq Dirs
        /\ config \in Dirs /\ data \in Dirs
    BY <1>1, <1>2 DEF Init
  <2>5. down \in BOOLEAN /\ touched \in BOOLEAN
    BY DEF Init
  <2> QED
    BY <2>1, <2>2, <2>3, <2>4, <2>5 DEF StateType
<1>6. OneHolder /\ Known /\ Dated
  BY <1>1 DEF Init, OneHolder, Known, Dated
<1>7. InStep /\ Told /\ Preparing /\ Awaiting /\ Settled
  BY <1>1 DEF Init, InStep, Told, Preparing, Awaiting, Settled
<1> QED
  BY <1>3, <1>4, <1>5, <1>6, <1>7 DEF ShellInv, TypesInv

\* ... and every step keeps it.
LEMMA ShellStep == ShellInv /\ [Next]_vars => ShellInv'
<1> SUFFICES ASSUME ShellInv, [Next]_vars PROVE ShellInv'
  OBVIOUS
<1>0. TypesInv /\ OneHolder /\ Known /\ Dated /\ Window
  BY DEF ShellInv, Window
<1>1. CASE Next
  <2>1. TypesInv' /\ OneHolder' /\ Known' /\ Dated'
    BY <1>0, <1>1, TypesStep, HolderStep, KnownStep, DatedStep
  <2>2. Window'
    <3>1. CASE User
      BY <1>0, <3>1, UserWindow
    <3>2. CASE Thread
      BY <1>0, <3>2, ThreadWindow
    <3>3. CASE Exit
      <4>1. Told'
        BY <1>0, <3>3 DEF Exit, Window, Told, Pids
      <4> QED
        BY <3>3, <4>1
           DEF Exit, Window, InStep, Preparing, Awaiting, Settled
    <3>4. ASSUME NEW p \in Pids,
                 Own(p) \/ Crash(p) \/ HearEnd(p) \/ TellEnd(p)
          PROVE  Window'
      BY <1>0, <3>4, OwnWindow, EndWindow
    <3> QED
      BY <1>1, <3>1, <3>2, <3>3, <3>4 DEF Next
  <2> QED
    BY <2>1, <2>2 DEF ShellInv, Window
<1>2. CASE UNCHANGED vars
  <2>1. /\ UNCHANGED <<app, life, config, generation, child, url, down, holder,
                       data, page, splash, th, procs, urlFile, foreign,
                       faults, touched>>
        /\ Pids' = Pids
    BY <1>2 DEF vars, ev, wv, bv, Pids
  <2>2. TypesInv'
    BY <1>0, <2>1
       DEF TypesInv, ThreadType, ProcsType, StateType, PageType, CanStart
  <2>3. OneHolder' /\ Known' /\ Dated'
    BY <1>0, <2>1 DEF OneHolder, Known, Dated, Mine, Leaving
  <2>4. Window'
    BY <1>0, <2>1
       DEF Window, InStep, Told, Preparing, Awaiting, Settled, Mine
  <2> QED
    BY <2>2, <2>3, <2>4 DEF ShellInv, Window
<1> QED
  BY <1>1, <1>2

\* The inductive invariant of the shell.
LEMMA ShellInvariant == Spec => []ShellInv
BY ShellInit, ShellStep, PTL DEF Spec

\* A set with no two different members has at most one.
LEMMA AtMostOne ==
  ASSUME NEW S, \A x, y \in S : x = y
  PROVE  Cardinality(S) <= 1
<1>1. CASE S = {}
  BY <1>1, FS_EmptySet
<1>2. CASE S # {}
  <2>1. PICK x : x \in S
    BY <1>2
  <2>2. S = {x}
    BY <2>1
  <2> QED
    BY <2>2, FS_Singleton
<1> QED
  BY <1>1, <1>2

\* No two engines hold one store's lock, and the shell never loses track of
\* an engine it started (lib.rs, start, stop and stop_holder; Live::open).
THEOREM ShellIsSound == Spec => []ShellSound
<1>1. ShellInv => TypeOK
  <2> SUFFICES ASSUME TypesInv, OneHolder PROVE TypeOK
    BY DEF ShellInv
  <2>1. Pids = 1 .. Len(procs) /\ Len(procs) \in Nat
    BY ProcsAt DEF TypesInv, ProcsType
  <2>2. Len(procs) <= MaxProcs /\ MaxProcs \in Nat
    BY <2>1, ShellAssumption DEF TypesInv, ProcsType, MaxProcs
  <2>3. ASSUME NEW p, PageType(p) PROVE p \in Pages
    <3>1. p.pid \in 0 .. MaxProcs
      BY <2>1, <2>2, <2>3 DEF PageType, None
    <3> QED
      BY <2>3, <3>1 DEF PageType, Pages
  <2>4. \A d \in Dirs : Cardinality(LockHolders(d)) <= 1
    <3> SUFFICES ASSUME NEW d \in Dirs
                 PROVE  Cardinality(LockHolders(d)) <= 1
      OBVIOUS
    <3>1. \A x, y \in LockHolders(d) : x = y
      BY DEF LockHolders, OneHolder
    <3> QED
      BY <3>1, AtMostOne
  <2>5. page \in Pages /\ splash \in Pages
    BY <2>3 DEF TypesInv, StateType
  <2> QED
    BY <2>4, <2>5 DEF TypeOK, TypesInv, StateType, ThreadType
<1>2. ShellInv => OnlyChildRuns
  BY ProcsAt
     DEF ShellInv, Known, OnlyChildRuns, Leaving, Mine, Alive
<1>3. ShellInv => ShellSound
  BY <1>1, <1>2 DEF ShellSound
<1> QED
  BY <1>3, ShellInvariant, PTL

\* A window with no thread at work and no end still to be told has a page to
\* act on (lib.rs, the generation; reset.rs, reset_cancel).
THEOREM WindowNeverStuck == Spec => []NeverStuck
<1>1. ShellInv => NeverStuck
  <2> SUFFICES ASSUME ShellInv, Quiet, ~touched
               PROVE  /\ page.kind # "starting"
                      /\ page.kind = "served" =>
                           page.pid = child /\ (Alive(child) \/ down)
                      /\ page.kind = "reset" =>
                           url # None \/ splash.kind # "starting"
    BY DEF NeverStuck
  <2>1. /\ app = "up" /\ th.pc = "idle"
        /\ child \in Pids \cup {None} /\ url \in Pids \cup {None}
    BY DEF Quiet, Free, ShellInv, TypesInv, StateType
  <2>2. CASE url # None
    <3>1. /\ page \in {Shown(url), Choice} /\ url = child
          /\ Mine(child) /\ procs[child].gen = generation
      BY <2>1, <2>2 DEF ShellInv, Settled
    <3>2. child \in Pids
      BY <2>1, <2>2, <3>1
    <3>3. Alive(child) \/ procs[child].told = "yes"
      BY <3>1, <3>2 DEF Quiet, Mine
    <3>4. Alive(child) \/ down
      BY <2>1, <3>1, <3>2, <3>3 DEF ShellInv, Told
    <3> QED
      BY <2>2, <3>1, <3>4 DEF Shown, Choice
  <2>3. CASE url = None
    BY <2>1, <2>3 DEF ShellInv, Settled
  <2> QED
    BY <2>2, <2>3
<1> QED
  BY <1>1, ShellInvariant, PTL
=============================================================================
