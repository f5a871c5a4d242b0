---------------------------- MODULE CheckoutProofs -----------------------------
(***************************************************************************)
(* Theorems about Checkout, for any bases, overlays, commands, versions    *)
(* and commits.                                                            *)
(***************************************************************************)
EXTENDS Checkout, TLAPS

Commands == {"create", "rebase", "evaluate", "baseline"}

HasPulled == {"pulled", "pushed", "opened", "cached", "forked"}

\* Steps of trunk_baseline that know the directory of the export, the commit to
\* check out, that found a repository there, the files of the commit, a plan.
HasDir ==
    {"miss", "commit", "clear", "copied", "cloned", "checked out", "exported", "trunk bound"}
HasCommit == {"commit", "clear", "copied", "cloned", "checked out"}
HasGit == {"copied", "cloned", "checked out", "exported", "trunk bound"}
HasWhole == {"checked out", "exported", "trunk bound"}
HasFound == {"planned", "writing"}

Ends == {"idle", "done"}

Pc == Ends \cup {"headed", "bound", "sha", "etag"} \cup HasPulled \cup HasDir \cup HasFound

\* The steps of each command.
IsStepOf(pc, cmd) ==
    \/ cmd = "create" /\ pc \in {"headed", "bound", "pulled", "opened", "cached", "forked"}
    \/ cmd = "rebase" /\ pc \in {"headed", "bound", "pulled", "pushed", "opened", "cached"}
    \/ cmd = "evaluate" /\ pc \in {"headed", "bound", "pulled", "opened", "cached"}
    \/ cmd = "baseline" /\ pc \in {"sha", "etag"} \cup HasDir \cup HasFound

Locals ==
    [cmd: Commands \cup {Nil}, pc: Pc, of: Overlays \cup {Nil}, etag: Versions \cup {Nil},
     pulled: Snapshots \cup {Nil}, sha: Commits \cup {Nil}, dir: Commits \cup {Nil},
     commit: Commits \cup {Nil}, found: Baselines \cup {Nil}]

Shape ==
    /\ base \in [Bases -> Versions] /\ trunk \in Commits
    /\ entry \in [Overlays -> Versions \cup {Nil}]
    /\ object \in [Overlays -> Snapshots \cup {Nil}]
    /\ cache \in Snapshots \cup {Nil}
    /\ baseline \in Baselines \cup {Nil}
    /\ export \in [Commits -> Exports] /\ torn \in BOOLEAN
    /\ bound \in [DataDirs -> Bases \cup {Nil}]
    /\ proc \in [Procs -> Locals]

\* What a command has read by the time it is at a certain step.
CommandFits(p) ==
    p \in Running =>
        /\ proc[p].of \in Overlays /\ proc[p].cmd \in Commands
        /\ IsStepOf(proc[p].pc, proc[p].cmd)
        /\ proc[p].cmd \in {"create", "rebase"} => proc[p].etag \in Versions
        /\ proc[p].pc \in HasPulled => proc[p].pulled \in Snapshots
        /\ proc[p].cmd = "baseline" =>
              /\ proc[p].pc \in {"sha", "etag"} \cup HasDir => proc[p].sha \in Commits
              /\ proc[p].pc \in {"etag"} \cup HasDir => proc[p].etag \in Versions
              /\ proc[p].pc \in HasDir => proc[p].dir \in Commits
              /\ proc[p].pc \in HasCommit => proc[p].commit \in Commits
              /\ proc[p].pc \in HasFound => proc[p].found \in Baselines

\* The restriction on commands that overlap.
Together ==
    \A p, q \in Running :
        p # q => {proc[p].cmd, proc[q].cmd} \subseteq Overlapping /\ MyBase(p) = MyBase(q)

\* A data directory stays bound to the base while a command relies on it.
BoundFits(p) ==
    /\ proc[p].pc = "bound" => bound["_base"] = MyBase(p)
    /\ proc[p].pc = "trunk bound" => bound["_trunk-data"] = MyBase(p)

Fits == Shape /\ Together /\ \A p \in Procs : CommandFits(p) /\ BoundFits(p)

------------------------------------------------------------------------------
(* What a step does to the locals of the command that takes it. *)

Others(p) == \A q \in Procs \ {p} : proc'[q] = proc[q]

\* The command goes on with the next step.
Moved(p, pc) ==
    /\ proc' \in [Procs -> Locals] /\ Others(p)
    /\ proc'[p].pc = pc /\ proc'[p].cmd = proc[p].cmd /\ proc'[p].of = proc[p].of

Ended(p) == proc' \in [Procs -> Locals] /\ Others(p) /\ proc'[p].pc = "done"

LEMMA LocalsAre ==
    ASSUME NEW l \in Locals
    PROVE  l = [cmd |-> l.cmd, pc |-> l.pc, of |-> l.of, etag |-> l.etag, pulled |-> l.pulled,
                sha |-> l.sha, dir |-> l.dir, commit |-> l.commit, found |-> l.found]
BY DEF Locals

LEMMA IdleIs == Idle \in Locals /\ Idle.pc = "idle"
BY DEF Idle, Locals, Pc, Ends

LEMMA GotoIs ==
    ASSUME Shape, NEW p \in Procs, NEW pc \in Pc, Goto(p, pc)
    PROVE  /\ Moved(p, pc)
           /\ proc'[p].etag = proc[p].etag /\ proc'[p].pulled = proc[p].pulled
           /\ proc'[p].sha = proc[p].sha /\ proc'[p].dir = proc[p].dir
           /\ proc'[p].commit = proc[p].commit /\ proc'[p].found = proc[p].found
<1> DEFINE l == [proc[p] EXCEPT !.pc = pc]
<1>1. proc \in [Procs -> Locals]
  BY DEF Shape
<1>2. /\ l \in Locals /\ l.pc = pc /\ l.cmd = proc[p].cmd /\ l.of = proc[p].of
      /\ l.etag = proc[p].etag /\ l.pulled = proc[p].pulled
      /\ l.sha = proc[p].sha /\ l.dir = proc[p].dir /\ l.commit = proc[p].commit
      /\ l.found = proc[p].found
  BY <1>1, LocalsAre DEF Locals
<1>3. proc' = [proc EXCEPT ![p] = l]
  BY <1>1, LocalsAre DEF Goto
<1> HIDE DEF l
<1>4. QED  BY <1>1, <1>2, <1>3 DEF Moved, Others

LEMMA EndIs ==
    ASSUME Shape, NEW p \in Procs, Return(p)
    PROVE  Ended(p)
<1> DEFINE l == [Idle EXCEPT !.pc = "done"]
<1>1. l \in Locals /\ l.pc = "done"
  BY DEF Idle, Locals, Pc, Ends
<1>2. proc' = [proc EXCEPT ![p] = l]
  BY DEF Return
<1> HIDE DEF l
<1>3. QED  BY <1>1, <1>2 DEF Shape, Ended, Others

LEMMA PullLocal ==
    ASSUME NEW l \in Locals, NEW v \in Snapshots \cup {Nil}
    PROVE  LET l2 == [l EXCEPT !.pc = "pulled", !.pulled = v]
           IN  /\ l2 \in Locals /\ l2.pc = "pulled" /\ l2.cmd = l.cmd /\ l2.of = l.of
               /\ l2.pulled = v /\ l2.etag = l.etag
BY DEF Locals, Pc, Ends, HasPulled

LEMMA PullIs ==
    ASSUME Shape, NEW p \in Procs, NEW v \in Snapshots \cup {Nil},
           proc' = [proc EXCEPT ![p].pc = "pulled", ![p].pulled = v]
    PROVE  /\ Moved(p, "pulled") /\ proc'[p].pulled = v
           /\ proc'[p].etag = proc[p].etag
<1> DEFINE l == [proc[p] EXCEPT !.pc = "pulled", !.pulled = v]
<1>1. proc \in [Procs -> Locals]
  BY DEF Shape
<1>2. /\ l \in Locals /\ l.pc = "pulled" /\ l.cmd = proc[p].cmd /\ l.of = proc[p].of
      /\ l.pulled = v /\ l.etag = proc[p].etag
  BY <1>1, PullLocal
<1>3. proc' = [proc EXCEPT ![p] = l]
  BY <1>1, LocalsAre
<1> HIDE DEF l
<1>4. QED  BY <1>1, <1>2, <1>3 DEF Moved, Others

LEMMA HeadLocal ==
    ASSUME NEW l \in Locals, NEW v \in Versions
    PROVE  LET l2 == [l EXCEPT !.pc = "etag", !.etag = v]
           IN  /\ l2 \in Locals /\ l2.pc = "etag" /\ l2.cmd = l.cmd /\ l2.of = l.of
               /\ l2.etag = v /\ l2.sha = l.sha
BY DEF Locals, Pc, Ends

LEMMA HeadIs ==
    ASSUME Shape, NEW p \in Procs, NEW v \in Versions,
           proc' = [proc EXCEPT ![p].pc = "etag", ![p].etag = v]
    PROVE  /\ Moved(p, "etag") /\ proc'[p].etag = v
           /\ proc'[p].sha = proc[p].sha
<1> DEFINE l == [proc[p] EXCEPT !.pc = "etag", !.etag = v]
<1>1. proc \in [Procs -> Locals]
  BY DEF Shape
<1>2. /\ l \in Locals /\ l.pc = "etag" /\ l.cmd = proc[p].cmd /\ l.of = proc[p].of
      /\ l.etag = v /\ l.sha = proc[p].sha
  BY <1>1, HeadLocal
<1>3. proc' = [proc EXCEPT ![p] = l]
  BY <1>1, LocalsAre
<1> HIDE DEF l
<1>4. QED  BY <1>1, <1>2, <1>3 DEF Moved, Others

LEMMA MissLocal ==
    ASSUME NEW l \in Locals, NEW v \in Commits
    PROVE  LET l2 == [l EXCEPT !.pc = "miss", !.dir = v]
           IN  /\ l2 \in Locals /\ l2.pc = "miss" /\ l2.cmd = l.cmd /\ l2.of = l.of
               /\ l2.dir = v /\ l2.etag = l.etag /\ l2.sha = l.sha
BY DEF Locals, Pc, Ends, HasDir

LEMMA MissIs ==
    ASSUME Shape, NEW p \in Procs, NEW v \in Commits,
           proc' = [proc EXCEPT ![p].pc = "miss", ![p].dir = v]
    PROVE  /\ Moved(p, "miss") /\ proc'[p].dir = v
           /\ proc'[p].etag = proc[p].etag
           /\ proc'[p].sha = proc[p].sha
<1> DEFINE l == [proc[p] EXCEPT !.pc = "miss", !.dir = v]
<1>1. proc \in [Procs -> Locals]
  BY DEF Shape
<1>2. /\ l \in Locals /\ l.pc = "miss" /\ l.cmd = proc[p].cmd /\ l.of = proc[p].of
      /\ l.dir = v /\ l.etag = proc[p].etag /\ l.sha = proc[p].sha
  BY <1>1, MissLocal
<1>3. proc' = [proc EXCEPT ![p] = l]
  BY <1>1, LocalsAre
<1> HIDE DEF l
<1>4. QED  BY <1>1, <1>2, <1>3 DEF Moved, Others

LEMMA CommitLocal ==
    ASSUME NEW l \in Locals, NEW v \in Commits
    PROVE  LET l2 == [l EXCEPT !.pc = "commit", !.commit = v]
           IN  /\ l2 \in Locals /\ l2.pc = "commit" /\ l2.cmd = l.cmd /\ l2.of = l.of
               /\ l2.commit = v /\ l2.etag = l.etag /\ l2.sha = l.sha /\ l2.dir = l.dir
BY DEF Locals, Pc, Ends, HasDir

LEMMA CommitIs ==
    ASSUME Shape, NEW p \in Procs, NEW v \in Commits,
           proc' = [proc EXCEPT ![p].pc = "commit", ![p].commit = v]
    PROVE  /\ Moved(p, "commit") /\ proc'[p].commit = v
           /\ proc'[p].etag = proc[p].etag
           /\ proc'[p].sha = proc[p].sha /\ proc'[p].dir = proc[p].dir
<1> DEFINE l == [proc[p] EXCEPT !.pc = "commit", !.commit = v]
<1>1. proc \in [Procs -> Locals]
  BY DEF Shape
<1>2. /\ l \in Locals /\ l.pc = "commit" /\ l.cmd = proc[p].cmd /\ l.of = proc[p].of
      /\ l.commit = v /\ l.etag = proc[p].etag /\ l.sha = proc[p].sha /\ l.dir = proc[p].dir
  BY <1>1, CommitLocal
<1>3. proc' = [proc EXCEPT ![p] = l]
  BY <1>1, LocalsAre
<1> HIDE DEF l
<1>4. QED  BY <1>1, <1>2, <1>3 DEF Moved, Others

LEMMA PlanIs ==
    ASSUME Shape, NEW p \in Procs, NEW v \in Baselines, proc[p].cmd = "baseline",
           proc' = [proc EXCEPT ![p] = [Idle EXCEPT !.cmd = "baseline", !.pc = "planned",
                                                   !.of = proc[p].of, !.found = v]]
    PROVE  Moved(p, "planned") /\ proc'[p].found = v
<1> DEFINE l == [Idle EXCEPT !.cmd = "baseline", !.pc = "planned", !.of = proc[p].of,
                             !.found = v]
<1>1. proc \in [Procs -> Locals]
  BY DEF Shape
<1>2. l \in Locals /\ l.pc = "planned" /\ l.cmd = "baseline" /\ l.of = proc[p].of /\ l.found = v
  BY <1>1 DEF Idle, Locals, Pc, Ends, HasFound, Commands
<1>3. proc' = [proc EXCEPT ![p] = l]
  OBVIOUS
<1> HIDE DEF l
<1>4. QED  BY <1>1, <1>2, <1>3 DEF Moved, Others

------------------------------------------------------------------------------
(* Commands keep to their steps, and overlap only as they may. *)

LEMMA MovedFits ==
    ASSUME Fits, NEW p \in Running, NEW pc \in Pc \ Ends, Moved(p, pc),
           UNCHANGED bound \/ \E dir \in DataDirs : bound' = [bound EXCEPT ![dir] = MyBase(p)],
           Shape', CommandFits(p)', BoundFits(p)'
    PROVE  Fits'
<1>1. Running' = Running
      /\ \A q \in Running : proc'[q].cmd = proc[q].cmd /\ proc'[q].of = proc[q].of
  BY DEF Running, Moved, Others, Ends
<1>2. Together'
  BY <1>1 DEF Fits, Together, MyBase
<1>3. ASSUME NEW q \in Procs, q # p  PROVE CommandFits(q)' /\ BoundFits(q)'
  <2>1. CommandFits(q) /\ BoundFits(q) /\ proc'[q] = proc[q]
        /\ bound \in [DataDirs -> Bases \cup {Nil}]
    BY <1>3 DEF Fits, Shape, Moved, Others
  <2>2. CommandFits(q)'
    BY <2>1 DEF CommandFits, Running
  <2>3. CASE q \notin Running
    <3>1. proc'[q].pc \in Ends
      BY <1>3, <2>1, <2>3 DEF Running, Ends
    <3>2. QED  BY <2>2, <3>1 DEF BoundFits, Ends
  <2>4. CASE q \in Running
    <3>1. MyBase(q) = MyBase(p) /\ MyBase(q)' = MyBase(q)
      BY <1>3, <2>1, <2>4 DEF Fits, Together, MyBase
    <3>2. QED  BY <2>1, <2>2, <3>1 DEF BoundFits, DataDirs
  <2>5. QED  BY <2>2, <2>3, <2>4
<1>4. QED  BY <1>2, <1>3 DEF Fits

LEMMA EndedFits ==
    ASSUME Fits, NEW p \in Procs, Ended(p), UNCHANGED bound, Shape'
    PROVE  Fits'
<1>1. Running' \subseteq Running
      /\ \A q \in Running' : proc'[q].cmd = proc[q].cmd /\ proc'[q].of = proc[q].of
  BY DEF Running, Ended, Others
<1>2. Together'
  BY <1>1 DEF Fits, Together, MyBase
<1>3. ASSUME NEW q \in Procs  PROVE CommandFits(q)' /\ BoundFits(q)'
  BY DEF Fits, CommandFits, BoundFits, MyBase, Running, Ended, Others
<1>4. QED  BY <1>2, <1>3 DEF Fits

LEMMA StillFits ==
    ASSUME Fits, UNCHANGED <<proc, bound>>, Shape'
    PROVE  Fits'
<1>1. Together'
  BY DEF Fits, Together, Running, MyBase
<1>2. ASSUME NEW q \in Procs  PROVE CommandFits(q)' /\ BoundFits(q)'
  BY DEF Fits, CommandFits, BoundFits, Running, MyBase
<1>3. QED  BY <1>1, <1>2 DEF Fits

LEMMA BegunIs ==
    ASSUME Shape, NEW p \in Procs, NEW cmd, NEW o, NEW l \in Locals, Begin(p, cmd, o, l)
    PROVE  proc' \in [Procs -> Locals] /\ Others(p) /\ proc'[p] = l /\ p \notin Running
BY DEF Begin, Shape, Others, Running

LEMMA BegunFits ==
    ASSUME Fits, NEW p \in Procs, NEW cmd \in Commands, NEW o \in Overlays, NEW l \in Locals,
           Begin(p, cmd, o, l), l.cmd = cmd, l.of = o, l.pc \in {"headed", "sha"},
           UNCHANGED bound, Shape', CommandFits(p)'
    PROVE  Fits'
<1>1. Others(p) /\ proc'[p] = l /\ p \notin Running
  BY BegunIs DEF Fits
<1>2. ASSUME NEW q \in Procs, q # p  PROVE CommandFits(q)' /\ BoundFits(q)'
  BY <1>1, <1>2 DEF Fits, CommandFits, BoundFits, MyBase, Running, Others
<1>3. Running' = Running \cup {p}
      /\ \A q \in Running : proc'[q].cmd = proc[q].cmd /\ proc'[q].of = proc[q].of
  BY <1>1 DEF Running, Others
<1>4. \A q \in Running : {cmd, proc[q].cmd} \subseteq Overlapping /\ MyBase(q) = BaseOf[o]
  BY DEF Begin
<1>5. Together'
  BY <1>1, <1>3, <1>4 DEF Fits, Together, MyBase
<1>6. BoundFits(p)'
  BY <1>1 DEF BoundFits
<1>7. QED  BY <1>2, <1>5, <1>6 DEF Fits

LEMMA StartFits ==
    ASSUME Fits, NEW p \in Procs, NEW o \in Overlays,
           CreateHead(p, o) \/ RebaseHead(p, o) \/ EvaluateMiss(p, o) \/ BaselineSha(p, o)
    PROVE  Fits'
<1>1. base[BaseOf[o]] \in Versions /\ trunk \in Commits
  BY CheckoutAssumption DEF Fits, Shape
<1>2. UNCHANGED <<world, overlay, files>>
  BY DEF CreateHead, RebaseHead, EvaluateMiss, BaselineSha
<1>3. ASSUME NEW cmd \in Commands, NEW l \in Locals, Begin(p, cmd, o, l), l.cmd = cmd, l.of = o,
             \/ l.pc = "headed" /\ cmd = "evaluate"
             \/ l.pc = "headed" /\ cmd \in {"create", "rebase"} /\ l.etag \in Versions
             \/ l.pc = "sha" /\ cmd = "baseline" /\ l.sha \in Commits
      PROVE  Fits'
  <2>1. proc' \in [Procs -> Locals] /\ proc'[p] = l
    BY <1>3, BegunIs DEF Fits
  <2>2. Shape'
    BY <1>2, <2>1 DEF Fits, Shape, world, overlay, files, exports
  <2>3. CommandFits(p)'
    BY <1>3, <2>1 DEF CommandFits, IsStepOf, HasPulled, HasDir, HasCommit, HasFound, Commands
  <2>4. QED  BY <1>2, <1>3, <2>2, <2>3, BegunFits DEF files, exports
<1>4. CASE CreateHead(p, o)
  <2> DEFINE l == [Idle EXCEPT !.cmd = "create", !.pc = "headed", !.of = o, !.etag = base[BaseOf[o]]]
  <2>1. l \in Locals /\ l.cmd = "create" /\ l.pc = "headed" /\ l.of = o
        /\ l.etag = base[BaseOf[o]]
    BY <1>1 DEF Idle, Locals, Pc, Ends, Commands
  <2>2. Begin(p, "create", o, l)
    BY <1>4 DEF CreateHead
  <2> HIDE DEF l
  <2>3. QED  BY <1>1, <1>3, <2>1, <2>2 DEF Commands
<1>5. CASE RebaseHead(p, o)
  <2> DEFINE l == [Idle EXCEPT !.cmd = "rebase", !.pc = "headed", !.of = o, !.etag = base[BaseOf[o]]]
  <2>1. l \in Locals /\ l.cmd = "rebase" /\ l.pc = "headed" /\ l.of = o
        /\ l.etag = base[BaseOf[o]]
    BY <1>1 DEF Idle, Locals, Pc, Ends, Commands
  <2>2. Begin(p, "rebase", o, l)
    BY <1>5 DEF RebaseHead
  <2> HIDE DEF l
  <2>3. QED  BY <1>1, <1>3, <2>1, <2>2 DEF Commands
<1>6. CASE EvaluateMiss(p, o)
  <2> DEFINE l == [Idle EXCEPT !.cmd = "evaluate", !.pc = "headed", !.of = o]
  <2>1. l \in Locals /\ l.cmd = "evaluate" /\ l.pc = "headed" /\ l.of = o
    BY DEF Idle, Locals, Pc, Ends, Commands
  <2>2. Begin(p, "evaluate", o, l)
    BY <1>6 DEF EvaluateMiss
  <2> HIDE DEF l
  <2>3. QED  BY <1>1, <1>3, <2>1, <2>2 DEF Commands
<1>7. CASE BaselineSha(p, o)
  <2> DEFINE l == [Idle EXCEPT !.cmd = "baseline", !.pc = "sha", !.of = o, !.sha = trunk]
  <2>1. l \in Locals /\ l.cmd = "baseline" /\ l.pc = "sha" /\ l.of = o /\ l.sha = trunk
    BY <1>1 DEF Idle, Locals, Pc, Ends, Commands
  <2>2. Begin(p, "baseline", o, l)
    BY <1>7 DEF BaselineSha
  <2> HIDE DEF l
  <2>3. QED  BY <1>1, <1>3, <2>1, <2>2 DEF Commands
<1>8. QED  BY <1>4, <1>5, <1>6, <1>7

LEMMA BindIs ==
    ASSUME Shape, NEW p \in Procs, NEW dir \in DataDirs, Bind(p, dir), MyBase(p) \in Bases
    PROVE  /\ bound' = [bound EXCEPT ![dir] = MyBase(p)] /\ bound'[dir] = MyBase(p)
           /\ bound' \in [DataDirs -> Bases \cup {Nil}]
BY DEF Shape, Bind, NeedsInit

LEMMA RunningIs ==
    ASSUME Fits, NEW p \in Running
    PROVE  /\ p \in Procs /\ proc[p] \in Locals /\ CommandFits(p) /\ BoundFits(p)
           /\ proc[p].of \in Overlays /\ MyBase(p) \in Bases
BY CheckoutAssumption DEF Fits, Shape, CommandFits, MyBase, Running

LEMMA SeenIs ==
    ASSUME Shape, NEW dir, bound[dir] \in Bases
    PROVE  /\ Seen(dir) \in Snapshots
           /\ Seen(dir).of = bound[dir] /\ Seen(dir).version = base[bound[dir]]
BY DEF Shape, Seen, Snapshot, Snapshots

LEMMA PullStepFits ==
    ASSUME Fits, NEW p \in Procs, PullBind(p) \/ Pull(p)
    PROVE  Fits'
<1>1. Shape /\ p \in Running
  BY DEF PullBind, Pull, Running, Fits
<1>2. CommandFits(p) /\ BoundFits(p) /\ MyBase(p) \in Bases
  BY <1>1, RunningIs
<1>3. CASE PullBind(p)
  <2>1. Moved(p, "bound") /\ proc'[p].etag = proc[p].etag
    BY <1>1, <1>3, GotoIs DEF PullBind, Pc, Ends
  <2>2. /\ bound' = [bound EXCEPT !["_base"] = MyBase(p)] /\ bound'["_base"] = MyBase(p)
        /\ bound' \in [DataDirs -> Bases \cup {Nil}]
    BY <1>1, <1>2, <1>3, BindIs DEF PullBind, DataDirs
  <2>3. Shape'
    BY <1>1, <1>3, <2>1, <2>2 DEF PullBind, Shape, Moved, world, overlay, exports
  <2>4. CommandFits(p)'
    BY <1>1, <1>2, <1>3, <2>1
       DEF PullBind, CommandFits, IsStepOf, HasPulled, HasDir, HasCommit, HasFound, Moved, Running
  <2>5. BoundFits(p)'
    BY <2>1, <2>2 DEF BoundFits, Moved, MyBase
  <2>6. QED  BY <1>1, <2>1, <2>2, <2>3, <2>4, <2>5, MovedFits DEF Pc, Ends, DataDirs
<1>4. CASE Pull(p)
  <2>1. Seen("_base") \in Snapshots
    BY <1>1, <1>2, <1>4, SeenIs DEF Pull, BoundFits
  <2>2. Moved(p, "pulled") /\ proc'[p].etag = proc[p].etag /\ proc'[p].pulled = Seen("_base")
    BY <1>1, <1>4, <2>1, PullIs DEF Pull
  <2>3. Shape'
    BY <1>1, <1>4, <2>2 DEF Pull, Shape, Moved, world, overlay, files, exports
  <2>4. CommandFits(p)'
    BY <1>1, <1>2, <1>4, <2>1, <2>2
       DEF Pull, CommandFits, IsStepOf, HasPulled, HasDir, HasCommit, HasFound, Moved, Running
  <2>5. BoundFits(p)'
    BY <2>2 DEF BoundFits, Moved
  <2>6. QED
    BY <1>1, <1>4, <2>2, <2>3, <2>4, <2>5, MovedFits DEF Pull, Pc, Ends, HasPulled, files, exports
<1>5. QED  BY <1>3, <1>4

LEMMA CacheStepFits ==
    ASSUME Fits, NEW p \in Procs,
           \/ CreateCache(p) \/ RebaseCache(p) \/ EvaluateCache(p) \/ CacheWrite(p)
           \/ CreatePush(p) \/ RebasePush(p) \/ Record(p)
    PROVE  Fits'
<1>1. Shape /\ p \in Running
  BY DEF CreateCache, RebaseCache, EvaluateCache, CacheWrite, CreatePush, RebasePush, Record,
         CacheOpen, Push, At, Running, Fits
<1>2. CommandFits(p) /\ proc[p] \in Locals
  BY <1>1, RunningIs
<1>3. ASSUME NEW pc \in HasPulled, Goto(p, pc), Shape', UNCHANGED bound,
             proc[p].pc \in HasPulled, IsStepOf(pc, proc[p].cmd)
      PROVE  Fits'
  <2>1. Moved(p, pc) /\ proc'[p].etag = proc[p].etag /\ proc'[p].pulled = proc[p].pulled
    BY <1>1, <1>3, GotoIs DEF Pc, Ends
  <2>2. CommandFits(p)'
    BY <1>1, <1>2, <1>3, <2>1
       DEF CommandFits, IsStepOf, HasPulled, HasDir, HasCommit, HasFound, Moved, Running
  <2>3. BoundFits(p)'
    BY <2>1 DEF BoundFits, Moved, HasPulled
  <2>4. QED  BY <1>1, <1>3, <2>1, <2>2, <2>3, MovedFits DEF Pc, Ends, HasPulled
<1>4. CASE CreateCache(p) \/ RebaseCache(p) \/ EvaluateCache(p)
  <2>1. CacheOpen(p, "pulled") \/ CacheOpen(p, "pushed")
    BY <1>4 DEF CreateCache, RebaseCache, EvaluateCache
  <2>2. Goto(p, "opened") /\ UNCHANGED bound /\ proc[p].pc \in HasPulled
    BY <2>1 DEF CacheOpen, HasPulled
  <2>3. Shape'
    BY <1>1, <2>1, <2>2, GotoIs
       DEF CacheOpen, Shape, Moved, world, overlay, exports, Pc, Ends, HasPulled
  <2>4. IsStepOf("opened", proc[p].cmd)
    BY <1>4 DEF CreateCache, RebaseCache, EvaluateCache, IsStepOf
  <2>5. QED  BY <1>3, <2>2, <2>3, <2>4 DEF HasPulled
<1>5. CASE CacheWrite(p)
  <2>1. Goto(p, "cached") /\ UNCHANGED bound /\ proc[p].pc = "opened"
        /\ proc[p].pulled \in Snapshots
    BY <1>1, <1>2, <1>5 DEF CacheWrite, CommandFits, HasPulled
  <2>2. Shape'
    BY <1>1, <1>5, <2>1, GotoIs
       DEF CacheWrite, Shape, Moved, world, overlay, exports, Pc, Ends, HasPulled
  <2>3. IsStepOf("cached", proc[p].cmd)
    BY <1>1, <1>2, <2>1 DEF CommandFits, IsStepOf, HasDir, HasFound
  <2>4. QED  BY <1>3, <2>1, <2>2, <2>3 DEF HasPulled
<1>6. CASE CreatePush(p) \/ RebasePush(p)
  <2>1. PICK pc \in {"forked", "pushed"} : Goto(p, pc) /\ IsStepOf(pc, proc[p].cmd)
    BY <1>6 DEF CreatePush, RebasePush, Push, IsStepOf
  <2>2. /\ object' = [object EXCEPT ![proc[p].of] = proc[p].pulled]
        /\ UNCHANGED <<world, entry, files>> /\ proc[p].pc \in HasPulled
    BY <1>6 DEF CreatePush, RebasePush, Push, HasPulled
  <2>3. proc[p].pulled \in Snapshots
    BY <1>1, <1>2, <2>2 DEF CommandFits
  <2>4. Shape'
    BY <1>1, <2>1, <2>2, <2>3, GotoIs DEF Shape, Moved, world, files, exports, Pc, Ends, HasPulled
  <2>5. QED  BY <1>3, <2>1, <2>2, <2>4 DEF HasPulled, files, exports
<1>7. CASE Record(p)
  <2>1. entry' \in [Overlays -> Versions \cup {Nil}]
    BY <1>1, <1>2, <1>7 DEF Record, Shape, Locals
  <2>2. Ended(p)
    BY <1>1, <1>7, EndIs DEF Record
  <2>3. Shape'
    BY <1>1, <1>7, <2>1, <2>2 DEF Record, Shape, Ended, world, files, exports
  <2>4. QED  BY <1>7, <2>2, <2>3, EndedFits DEF Record, files, exports
<1>8. QED  BY <1>4, <1>5, <1>6, <1>7

\* What a plan of the trunk finds.
FoundBy(p) ==
    [sha |-> proc[p].sha, etag |-> Snapshot(MyBase(p), proc[p].etag),
     tree |-> export[proc[p].dir].tree, complete |-> export[proc[p].dir].whole,
     on |-> Seen("_trunk-data")]

LEMMA FoundIs ==
    ASSUME Fits, NEW p \in Procs, TrunkPlan(p)
    PROVE  /\ FoundBy(p) \in Baselines /\ p \in Running
           /\ proc[p].cmd = "baseline" /\ proc[p].pc = "trunk bound"
           /\ FoundBy(p).on.of = MyBase(p) /\ FoundBy(p).on.version = base[MyBase(p)]
           /\ FoundBy(p).etag.of = MyBase(p) /\ FoundBy(p).etag.version = proc[p].etag
           /\ FoundBy(p).sha = proc[p].sha /\ FoundBy(p).tree = export[proc[p].dir].tree
           /\ FoundBy(p).complete = export[proc[p].dir].whole
           /\ Moved(p, "planned") /\ proc'[p].found = FoundBy(p)
<1>1. p \in Running /\ proc[p].cmd = "baseline" /\ proc[p].pc = "trunk bound"
      /\ export[proc[p].dir].tree # Nil
  BY DEF TrunkPlan, At, Running
<1>2. /\ CommandFits(p) /\ bound["_trunk-data"] = MyBase(p) /\ MyBase(p) \in Bases
      /\ Shape
  BY <1>1, RunningIs DEF BoundFits, Fits
<1>3. proc[p].sha \in Commits /\ proc[p].etag \in Versions /\ proc[p].dir \in Commits
  BY <1>1, <1>2 DEF CommandFits, HasDir
<1>4. /\ Seen("_trunk-data") \in Snapshots /\ Seen("_trunk-data").of = MyBase(p)
      /\ Seen("_trunk-data").version = base[MyBase(p)]
  BY <1>2, SeenIs
<1>5. /\ Snapshot(MyBase(p), proc[p].etag) \in Snapshots
      /\ Snapshot(MyBase(p), proc[p].etag).of = MyBase(p)
      /\ Snapshot(MyBase(p), proc[p].etag).version = proc[p].etag
  BY <1>2, <1>3 DEF Snapshot, Snapshots
<1>6. export[proc[p].dir].tree \in Commits /\ export[proc[p].dir].whole \in BOOLEAN
  BY <1>1, <1>2, <1>3 DEF Shape, Exports
<1>7. /\ FoundBy(p) \in Baselines
      /\ FoundBy(p).on = Seen("_trunk-data") /\ FoundBy(p).etag = Snapshot(MyBase(p), proc[p].etag)
      /\ FoundBy(p).sha = proc[p].sha /\ FoundBy(p).tree = export[proc[p].dir].tree
      /\ FoundBy(p).complete = export[proc[p].dir].whole
  BY <1>3, <1>4, <1>5, <1>6 DEF FoundBy, Baselines
<1>8. proc' = [proc EXCEPT ![p] = [Idle EXCEPT !.cmd = "baseline", !.pc = "planned",
                                              !.of = proc[p].of, !.found = FoundBy(p)]]
  BY DEF TrunkPlan, FoundBy
<1>9. Moved(p, "planned") /\ proc'[p].found = FoundBy(p)
  BY <1>1, <1>2, <1>7, <1>8, PlanIs
<1>10. QED  BY <1>1, <1>4, <1>5, <1>7, <1>9

LEMMA BaselineLocalStepFits ==
    ASSUME Fits, NEW p \in Procs,
           BaselineHead(p) \/ BaselineMiss(p) \/ ExportCommit(p) \/ TrunkPlan(p)
    PROVE  Fits'
<1>1. /\ Shape /\ p \in Running /\ proc[p].cmd = "baseline"
      /\ proc[p].pc \in {"sha", "etag", "miss", "trunk bound"}
      /\ UNCHANGED <<world, overlay, files>>
  BY DEF BaselineHead, BaselineMiss, ExportCommit, TrunkPlan, At, Running, Fits
<1>2. CommandFits(p) /\ MyBase(p) \in Bases
  BY <1>1, RunningIs
<1>3. ASSUME NEW pc \in {"etag", "miss", "commit", "planned"}, Moved(p, pc), CommandFits(p)'
      PROVE  Fits'
  <2>1. Shape'
    BY <1>1, <1>3 DEF Shape, Moved, world, overlay, files, exports
  <2>2. BoundFits(p)'
    BY <1>3 DEF BoundFits, Moved
  <2>3. pc \in Pc \ Ends
    BY <1>3 DEF Pc, Ends, HasDir, HasFound
  <2>4. QED  BY <1>1, <1>3, <2>1, <2>2, <2>3, MovedFits DEF files, exports
<1>4. CASE BaselineHead(p)
  <2>1. base[MyBase(p)] \in Versions /\ proc[p].pc = "sha"
    BY <1>1, <1>2, <1>4 DEF Shape, BaselineHead, At
  <2>2. /\ Moved(p, "etag") /\ proc'[p].etag = base[MyBase(p)]
        /\ proc'[p].sha = proc[p].sha
    BY <1>1, <1>4, <2>1, HeadIs DEF BaselineHead
  <2>3. CommandFits(p)'
    BY <1>1, <1>2, <2>1, <2>2
       DEF CommandFits, IsStepOf, HasPulled, HasDir, HasCommit, HasFound, Moved, Running
  <2>4. QED  BY <1>3, <2>2, <2>3
<1>5. CASE BaselineMiss(p)
  <2>1. trunk \in Commits /\ proc[p].pc = "etag"
    BY <1>1, <1>5 DEF Shape, BaselineMiss, At
  <2>2. /\ Moved(p, "miss") /\ proc'[p].dir = trunk
        /\ proc'[p].sha = proc[p].sha /\ proc'[p].etag = proc[p].etag
    BY <1>1, <1>5, <2>1, MissIs DEF BaselineMiss
  <2>3. CommandFits(p)'
    BY <1>1, <1>2, <2>1, <2>2
       DEF CommandFits, IsStepOf, HasPulled, HasDir, HasCommit, HasFound, Moved, Running
  <2>4. QED  BY <1>3, <2>2, <2>3
<1>6. CASE ExportCommit(p)
  <2>1. trunk \in Commits /\ proc[p].pc = "miss"
    BY <1>1, <1>6 DEF Shape, ExportCommit, At
  <2>2. /\ Moved(p, "commit") /\ proc'[p].commit = trunk /\ proc'[p].dir = proc[p].dir
        /\ proc'[p].sha = proc[p].sha /\ proc'[p].etag = proc[p].etag
    BY <1>1, <1>6, <2>1, CommitIs DEF ExportCommit
  <2>3. CommandFits(p)'
    BY <1>1, <1>2, <2>1, <2>2
       DEF CommandFits, IsStepOf, HasPulled, HasDir, HasCommit, HasFound, Moved, Running
  <2>4. QED  BY <1>3, <2>2, <2>3
<1>7. CASE TrunkPlan(p)
  <2>1. Moved(p, "planned") /\ proc'[p].found \in Baselines
    BY <1>7, FoundIs
  <2>2. CommandFits(p)'
    BY <1>1, <1>2, <2>1
       DEF CommandFits, IsStepOf, HasPulled, HasDir, HasCommit, HasFound, Moved, Running
  <2>3. QED  BY <1>3, <2>1, <2>2
<1>8. QED  BY <1>4, <1>5, <1>6, <1>7

\* The steps that change an export: directory s comes to hold e.
Emptied(s, e) ==
    /\ ~e.whole /\ e.tree \in {export[s].tree, Nil} /\ (e.git => export[s].git)
    /\ export[s] = NoExport => e = NoExport

SameFiles(s, e) ==
    e.git = export[s].git /\ e.tree = export[s].tree /\ e.whole = export[s].whole

EffectOf(p, s, e) ==
    /\ export' = [export EXCEPT ![s] = e]
    /\ \/ ExportClear(p) /\ s = proc[p].dir /\ Emptied(s, e)
       \/ ExportPrune(p) /\ s # proc[p].dir /\ Emptied(s, e)
          /\ torn' = (torn \/ s = trunk) /\ export[s] # NoExport
       \/ ExportClone(p) /\ s = proc[p].dir /\ e = [NoExport EXCEPT !.git = TRUE]
          /\ export[s] = NoExport
       \/ ExportOrigin(p) /\ s = proc[p].dir /\ SameFiles(s, e) /\ e.marker = export[s].marker
       \/ ExportMark(p) /\ s = proc[p].dir /\ SameFiles(s, e)
       \/ /\ ExportCheckout(p) /\ s = proc[p].dir
          /\ e.git = export[s].git /\ e.marker = export[s].marker /\ e.tree = proc[p].commit
          /\ \/ UNCHANGED proc /\ (export[s].whole /\ export[s].tree = e.tree => e.whole)
             \/ Goto(p, "checked out") /\ e.whole

\* What is left of an export that is removed.
LEMMA RemovedIs ==
    ASSUME NEW e \in Exports, NEW left \in Removed(e)
    PROVE  left \in Exports /\ ~left.whole /\ left.tree \in {e.tree, Nil}
           /\ (e = NoExport => left = NoExport) /\ (left.git => e.git)
<1>1. left \in Exports
  BY DEF Removed
<1>2. CASE left = NoExport
  BY <1>1, <1>2 DEF NoExport
<1>3. CASE left # NoExport
  <2>1. left.tree = e.tree /\ ~left.whole /\ (left.git => e.git)
    BY <1>3 DEF Removed
  <2>2. e = NoExport => left = NoExport
    <3> SUFFICES ASSUME e = NoExport  PROVE left = NoExport
      OBVIOUS
    <3>1. ~left.git /\ ~left.origin /\ ~left.marker
      BY <1>3 DEF Removed, NoExport
    <3>2. left.tree = Nil
      BY <2>1 DEF NoExport
    <3>3. QED  BY <1>1, <2>1, <3>1, <3>2 DEF Exports, NoExport
  <2>3. QED  BY <1>1, <2>1, <2>2
<1>4. QED  BY <1>2, <1>3

\* What a step does to the export it is about.
LEMMA ExportStepIs ==
    ASSUME Fits, NEW p \in Procs,
           \/ ExportClear(p) \/ ExportClone(p) \/ ExportOrigin(p)
           \/ ExportCheckout(p) \/ ExportMark(p) \/ ExportPrune(p)
    PROVE  /\ p \in Running /\ proc[p].cmd = "baseline" /\ proc[p].pc \in HasDir
           /\ proc[p].dir \in Commits /\ (proc[p].pc \in HasCommit => proc[p].commit \in Commits)
           /\ UNCHANGED <<world, overlay, cache, baseline, bound>>
           /\ \E s \in Commits, e \in Exports : EffectOf(p, s, e)
           /\ torn' \in BOOLEAN
           /\ \/ UNCHANGED proc
              \/ \E pc \in HasDir \ {"miss", "commit", "trunk bound"} :
                    Goto(p, pc) /\ (pc \in HasCommit => proc[p].pc \in HasCommit)
<1>1. /\ Shape /\ p \in Running /\ proc[p].cmd = "baseline" /\ proc[p].pc \in HasDir
      /\ UNCHANGED <<world, overlay, cache, baseline, bound>>
  BY DEF ExportClear, ExportClone, ExportOrigin, ExportCheckout, ExportMark, ExportPrune, At,
         Running, HasDir, Fits
<1>2. CommandFits(p)
  BY <1>1, RunningIs
<1>3. proc[p].dir \in Commits /\ (proc[p].pc \in HasCommit => proc[p].commit \in Commits)
  BY <1>1, <1>2 DEF CommandFits
<1>4. torn' \in BOOLEAN
  BY <1>1 DEF ExportClear, ExportClone, ExportOrigin, ExportCheckout, ExportMark, ExportPrune,
              Shape
<1>5. \/ UNCHANGED proc
      \/ \E pc \in HasDir \ {"miss", "commit", "trunk bound"} :
            Goto(p, pc) /\ (pc \in HasCommit => proc[p].pc \in HasCommit)
  BY DEF ExportClear, ExportClone, ExportOrigin, ExportCheckout, ExportMark, ExportPrune, At,
         HasDir, HasCommit
<1>6. \E s \in Commits, e \in Exports : EffectOf(p, s, e)
  <2> DEFINE d == proc[p].dir
             c == proc[p].commit
  <2>1. /\ export[d] \in Exports
        /\ \A s \in Commits : export[s] \in Exports
    BY <1>1, <1>3 DEF Shape
  <2>2. CASE ExportClear(p)
    <3>1. PICK left \in Removed(export[d]) : export' = [export EXCEPT ![d] = left]
      BY <2>2 DEF ExportClear
    <3>2. left \in Exports /\ Emptied(d, left)
      BY <2>1, <3>1, RemovedIs DEF Emptied
    <3>3. QED  BY <1>3, <2>2, <3>1, <3>2 DEF EffectOf
  <2>3. CASE ExportClone(p)
    <3>1. export[d] = NoExport /\ export' = [export EXCEPT ![d] = [export[d] EXCEPT !.git = TRUE]]
      BY <2>3 DEF ExportClone
    <3>2. [NoExport EXCEPT !.git = TRUE] \in Exports
      BY DEF NoExport, Exports
    <3>3. QED  BY <1>3, <2>3, <3>1, <3>2 DEF EffectOf
  <2>4. CASE ExportOrigin(p)
    <3> DEFINE e == [export[d] EXCEPT !.origin = export[d].git]
    <3>1. export' = [export EXCEPT ![d] = e]
      BY <2>4 DEF ExportOrigin
    <3>2. e \in Exports /\ SameFiles(d, e) /\ e.marker = export[d].marker
      BY <2>1 DEF Exports, SameFiles
    <3> HIDE DEF e
    <3>3. QED  BY <1>3, <2>4, <3>1, <3>2 DEF EffectOf
  <2>5. CASE ExportCheckout(p)
    <3>1. c \in Commits
      BY <1>3, <2>5 DEF ExportCheckout, At, HasCommit
    <3>2. CASE /\ export' = [export EXCEPT ![d].tree = c, ![d].whole = @ /\ export[d].tree = c]
               /\ UNCHANGED proc
      <4> DEFINE e == [export[d] EXCEPT !.tree = c, !.whole = @ /\ export[d].tree = c]
      <4>1. /\ e \in Exports /\ e.git = export[d].git /\ e.marker = export[d].marker
            /\ e.tree = c /\ e.whole = (export[d].whole /\ export[d].tree = c)
        BY <2>1, <3>1 DEF Exports
      <4>2. export' = [export EXCEPT ![d] = e]
        BY <1>1, <1>3, <3>2 DEF Shape, Exports
      <4> HIDE DEF e
      <4>3. QED  BY <1>3, <2>5, <3>2, <4>1, <4>2 DEF EffectOf
    <3>3. CASE /\ export' = [export EXCEPT ![d].tree = c, ![d].whole = TRUE]
               /\ Goto(p, "checked out")
      <4> DEFINE e == [export[d] EXCEPT !.tree = c, !.whole = TRUE]
      <4>1. /\ e \in Exports /\ e.git = export[d].git /\ e.marker = export[d].marker
            /\ e.tree = c /\ e.whole
        BY <2>1, <3>1 DEF Exports
      <4>2. export' = [export EXCEPT ![d] = e]
        BY <1>1, <1>3, <3>3 DEF Shape, Exports
      <4> HIDE DEF e
      <4>3. QED  BY <1>3, <2>5, <3>3, <4>1, <4>2 DEF EffectOf
    <3>4. QED  BY <2>5, <3>2, <3>3 DEF ExportCheckout
  <2>6. CASE ExportMark(p)
    <3> DEFINE e == [export[d] EXCEPT !.marker = TRUE]
    <3>1. export' = [export EXCEPT ![d] = e]
      BY <2>6 DEF ExportMark
    <3>2. e \in Exports /\ SameFiles(d, e)
      BY <2>1 DEF Exports, SameFiles
    <3> HIDE DEF e
    <3>3. QED  BY <1>3, <2>6, <3>1, <3>2 DEF EffectOf
  <2>7. CASE ExportPrune(p)
    <3>1. PICK s \in Stale(d) :
             /\ \E left \in Removed(export[s]) : export' = [export EXCEPT ![s] = left]
             /\ torn' = (torn \/ s = trunk) /\ export[s] # NoExport
      BY <2>7 DEF ExportPrune
    <3>2. PICK left \in Removed(export[s]) : export' = [export EXCEPT ![s] = left]
      BY <3>1
    <3>3. s \in Commits /\ s # d
      BY <3>1 DEF Stale
    <3>4. left \in Exports /\ Emptied(s, left)
      BY <2>1, <3>2, <3>3, RemovedIs DEF Emptied
    <3>5. QED  BY <2>7, <3>1, <3>2, <3>3, <3>4 DEF EffectOf
  <2>8. QED  BY <2>2, <2>3, <2>4, <2>5, <2>6, <2>7
<1>7. QED  BY <1>1, <1>3, <1>4, <1>5, <1>6

LEMMA BaselineStepFits ==
    ASSUME Fits, NEW p \in Procs,
           \/ ExportFound(p) \/ ExportRepository(p) \/ ExportCheckoutAround(p)
           \/ ExportClear(p) \/ ExportClone(p) \/ ExportOrigin(p)
           \/ ExportCheckout(p) \/ ExportMark(p) \/ ExportPrune(p)
           \/ TrunkBind(p) \/ BaselineOpen(p)
    PROVE  Fits'
<1>1. /\ Shape /\ p \in Running /\ proc[p].cmd = "baseline"
      /\ UNCHANGED <<world, overlay, cache>>
  BY DEF ExportFound, ExportRepository, ExportCheckoutAround, ExportClear, ExportClone,
         ExportOrigin, ExportCheckout, ExportMark, ExportPrune, TrunkBind, BaselineOpen,
         At, Running, Fits, files, exports
<1>2. CommandFits(p) /\ MyBase(p) \in Bases
  BY <1>1, RunningIs
<1>3. ASSUME NEW pc \in (HasDir \ {"miss", "commit", "trunk bound"}) \cup HasFound, Goto(p, pc),
             Shape', UNCHANGED bound,
             pc \in HasDir => proc[p].pc \in HasDir,
             pc \in HasCommit => proc[p].pc \in HasCommit,
             pc \in HasFound => proc[p].pc \in HasFound
      PROVE  Fits'
  <2>1. pc \in Pc \ Ends
    BY <1>3 DEF Pc, Ends, HasDir, HasFound
  <2>2. /\ Moved(p, pc) /\ proc'[p].etag = proc[p].etag /\ proc'[p].sha = proc[p].sha
        /\ proc'[p].dir = proc[p].dir /\ proc'[p].commit = proc[p].commit
        /\ proc'[p].found = proc[p].found
    BY <1>1, <1>3, <2>1, GotoIs
  <2>3. CommandFits(p)'
    BY <1>1, <1>2, <1>3, <2>2
       DEF CommandFits, IsStepOf, HasPulled, HasDir, HasCommit, HasFound, Moved, Running
  <2>4. BoundFits(p)'
    BY <1>3, <2>2 DEF BoundFits, Moved, HasDir, HasFound
  <2>5. QED  BY <1>1, <1>3, <2>1, <2>2, <2>3, <2>4, MovedFits
<1>4. ASSUME NEW pc \in HasDir \cup HasFound, Goto(p, pc)
      PROVE  proc' \in [Procs -> Locals]
  BY <1>1, <1>4, GotoIs DEF Pc, Ends, Moved
<1>5. CASE ExportFound(p) \/ ExportRepository(p) \/ ExportCheckoutAround(p)
  <2>1. UNCHANGED files
    BY <1>5 DEF ExportFound, ExportRepository, ExportCheckoutAround
  <2>2. \/ Goto(p, "exported") /\ proc[p].pc = "miss"
        \/ Goto(p, "cloned") /\ proc[p].pc = "commit"
        \/ Goto(p, "clear") /\ proc[p].pc = "commit"
        \/ Goto(p, "checked out") /\ proc[p].pc = "cloned"
    BY <1>5 DEF ExportFound, ExportRepository, ExportCheckoutAround, At
  <2>3. PICK pc \in {"exported", "cloned", "clear", "checked out"} :
           Goto(p, pc) /\ proc[p].pc \in HasDir /\ (pc \in HasCommit => proc[p].pc \in HasCommit)
    BY <2>2 DEF HasDir, HasCommit
  <2>4. pc \in HasDir \ {"miss", "commit", "trunk bound"} /\ pc \notin HasFound
    BY DEF HasDir, HasFound
  <2>5. Shape'
    BY <1>1, <1>4, <2>1, <2>3, <2>4 DEF Shape, world, overlay, files, exports
  <2>6. QED  BY <1>3, <2>1, <2>3, <2>4, <2>5 DEF files
<1>6. CASE \/ ExportClear(p) \/ ExportClone(p) \/ ExportOrigin(p)
           \/ ExportCheckout(p) \/ ExportMark(p) \/ ExportPrune(p)
  <2>1. /\ \E s \in Commits, e \in Exports : EffectOf(p, s, e)
        /\ UNCHANGED <<baseline, bound>> /\ proc[p].pc \in HasDir /\ torn' \in BOOLEAN
        /\ \/ UNCHANGED proc
           \/ \E pc \in HasDir \ {"miss", "commit", "trunk bound"} :
                 Goto(p, pc) /\ (pc \in HasCommit => proc[p].pc \in HasCommit)
    BY <1>6, ExportStepIs
  <2>2. export' \in [Commits -> Exports]
    BY <1>1, <2>1 DEF Shape, EffectOf
  <2>3. CASE UNCHANGED proc
    <3>1. Shape'
      BY <1>1, <2>1, <2>2, <2>3 DEF Shape, world, overlay
    <3>2. QED  BY <2>1, <2>3, <3>1, StillFits
  <2>4. CASE \E pc \in HasDir \ {"miss", "commit", "trunk bound"} :
                Goto(p, pc) /\ (pc \in HasCommit => proc[p].pc \in HasCommit)
    <3>1. PICK pc \in HasDir \ {"miss", "commit", "trunk bound"} :
             Goto(p, pc) /\ (pc \in HasCommit => proc[p].pc \in HasCommit)
      BY <2>4
    <3>2. pc \notin HasFound
      BY DEF HasDir, HasFound
    <3>3. Shape'
      BY <1>1, <1>4, <2>1, <2>2, <3>1 DEF Shape, world, overlay
    <3>4. QED  BY <1>3, <2>1, <3>1, <3>2, <3>3
  <2>5. QED  BY <2>1, <2>3, <2>4
<1>7. CASE TrunkBind(p)
  <2>1. Goto(p, "trunk bound") /\ proc[p].pc = "exported" /\ UNCHANGED <<baseline, exports>>
    BY <1>7 DEF TrunkBind, At
  <2>2. /\ Moved(p, "trunk bound") /\ proc'[p].etag = proc[p].etag
        /\ proc'[p].sha = proc[p].sha /\ proc'[p].dir = proc[p].dir
    BY <1>1, <2>1, GotoIs DEF Pc, Ends, HasDir
  <2>3. /\ bound' = [bound EXCEPT !["_trunk-data"] = MyBase(p)]
        /\ bound'["_trunk-data"] = MyBase(p)
        /\ bound' \in [DataDirs -> Bases \cup {Nil}]
    BY <1>1, <1>2, <1>7, BindIs DEF TrunkBind, DataDirs
  <2>4. Shape'
    BY <1>1, <2>1, <2>2, <2>3 DEF Shape, Moved, world, overlay, exports
  <2>5. CommandFits(p)'
    BY <1>1, <1>2, <2>1, <2>2
       DEF CommandFits, IsStepOf, HasPulled, HasDir, HasCommit, HasFound, Moved, Running
  <2>6. BoundFits(p)'
    BY <2>2, <2>3 DEF BoundFits, Moved, MyBase
  <2>7. QED
    BY <1>1, <2>2, <2>3, <2>4, <2>5, <2>6, MovedFits DEF Pc, Ends, HasDir, DataDirs
<1>8. CASE BaselineOpen(p)
  <2>1. /\ Goto(p, "writing") /\ proc[p].pc = "planned"
        /\ baseline' = Nil /\ UNCHANGED <<exports, bound>>
    BY <1>8 DEF BaselineOpen, At
  <2>2. Shape'
    BY <1>1, <1>4, <2>1 DEF Shape, world, overlay, exports, HasFound
  <2>3. QED  BY <1>3, <2>1, <2>2 DEF HasDir, HasCommit, HasFound
<1>9. QED  BY <1>5, <1>6, <1>7, <1>8

LEMMA EndStepFits ==
    ASSUME Fits, NEW p \in Procs, BaselineHit(p) \/ BaselineWrite(p) \/ Stop(p)
    PROVE  Fits'
<1>1. Shape /\ Ended(p)
  BY EndIs DEF BaselineHit, BaselineWrite, Stop, Fits
<1>2. UNCHANGED <<world, overlay, cache, export, torn, bound>>
  BY DEF BaselineHit, BaselineWrite, Stop, files, exports
<1>3. baseline' \in Baselines \cup {Nil}
  <2>1. CASE BaselineHit(p) \/ Stop(p)
    BY <1>1, <2>1 DEF BaselineHit, Stop, files, exports, Shape
  <2>2. CASE BaselineWrite(p)
    <3>1. p \in Running /\ proc[p].cmd = "baseline" /\ proc[p].pc = "writing"
      BY <2>2 DEF BaselineWrite, At, Running
    <3>2. QED  BY <2>2, <3>1, RunningIs DEF BaselineWrite, CommandFits, HasFound
  <2>3. QED  BY <2>1, <2>2
<1>4. Shape'
  BY <1>1, <1>2, <1>3 DEF Shape, Ended, world, overlay
<1>5. QED  BY <1>1, <1>2, <1>4, EndedFits

LEMMA WorldFits ==
    ASSUME Fits, Fetch \/ \E k \in Bases : BaseMoves(k)
    PROVE  Fits'
<1>1. UNCHANGED <<overlay, cache, baseline, export, bound, proc>> /\ torn' \in BOOLEAN /\ Shape
  BY DEF Fetch, BaseMoves, Fits, Shape, files, exports
<1>2. base' \in [Bases -> Versions] /\ trunk' \in Commits
  <2>1. CASE Fetch
    BY <1>1, <2>1, CheckoutAssumption DEF Fetch, Shape, Commits
  <2>2. ASSUME NEW k \in Bases, BaseMoves(k)
        PROVE  base' \in [Bases -> Versions] /\ trunk' = trunk
    <3>1. base[k] + 1 \in Versions
      BY <1>1, <2>2, CheckoutAssumption DEF BaseMoves, Shape, Versions
    <3>2. QED  BY <1>1, <2>2, <3>1 DEF BaseMoves, Shape
  <2>3. QED  BY <1>1, <2>1, <2>2 DEF Shape
<1>3. Shape'
  BY <1>1, <1>2 DEF Shape, overlay, files, exports
<1>4. QED  BY <1>1, <1>3, StillFits DEF files, exports

LEMMA NextFits ==
    ASSUME Fits, [Next]_vars
    PROVE  Fits'
<1>1. CASE UNCHANGED vars
  <2>1. Shape'
    BY <1>1 DEF Fits, Shape, vars, world, overlay, files, exports
  <2>2. QED  BY <1>1, <2>1, StillFits DEF vars, files, exports
<1>2. CASE Fetch \/ \E k \in Bases : BaseMoves(k)
  BY <1>2, WorldFits
<1>3. ASSUME NEW p \in Procs, NEW o \in Overlays,
             CreateHead(p, o) \/ RebaseHead(p, o) \/ EvaluateMiss(p, o) \/ BaselineSha(p, o)
      PROVE  Fits'
  BY <1>3, StartFits
<1>4. ASSUME NEW p \in Procs, PullBind(p) \/ Pull(p)
      PROVE  Fits'
  BY <1>4, PullStepFits
<1>5. ASSUME NEW p \in Procs,
             \/ CreateCache(p) \/ RebaseCache(p) \/ EvaluateCache(p) \/ CacheWrite(p)
             \/ CreatePush(p) \/ RebasePush(p) \/ Record(p)
      PROVE  Fits'
  BY <1>5, CacheStepFits
<1>6. ASSUME NEW p \in Procs, Baseline(p) \/ Stop(p)
      PROVE  Fits'
  BY <1>6, BaselineLocalStepFits, BaselineStepFits, EndStepFits DEF Baseline
<1>7. QED  BY <1>1, <1>2, <1>3, <1>4, <1>5, <1>6 DEF Next

LEMMA InitFits == Init => Fits
<1> SUFFICES ASSUME Init  PROVE Fits
  OBVIOUS
<1>1. Running = {}
  BY DEF Init, Running, Idle
<1>2. Shape
  <2>1. NoExport \in Exports /\ 0 \in Versions /\ 0 \in Commits
    BY CheckoutAssumption DEF NoExport, Exports, Versions, Commits
  <2>2. QED  BY <2>1, IdleIs DEF Init, Shape
<1>3. ASSUME NEW p \in Procs  PROVE CommandFits(p) /\ BoundFits(p)
  BY <1>1 DEF Init, CommandFits, BoundFits, Idle
<1>4. QED  BY <1>1, <1>2, <1>3 DEF Fits, Together

------------------------------------------------------------------------------
(* What has been pulled is of the base of the command. *)

PulledFits(p) == proc[p].pc \in HasPulled => proc[p].pulled.of = MyBase(p)

Pulling == ForksAreOfTheirBase /\ \A p \in Procs : PulledFits(p)

LEMMA PullingStays ==
    ASSUME Fits, Pulling, NEW p \in Procs, Others(p), ForksAreOfTheirBase', PulledFits(p)'
    PROVE  Pulling'
<1>1. ASSUME NEW q \in Procs, q # p  PROVE PulledFits(q)'
  BY <1>1 DEF Pulling, PulledFits, Others, MyBase
<1>2. QED  BY <1>1 DEF Pulling

\* Steps of the cache and of a push keep what was pulled.
LEMMA CacheStepIs ==
    ASSUME Fits, NEW p \in Procs,
           \/ CreateCache(p) \/ RebaseCache(p) \/ EvaluateCache(p) \/ CacheWrite(p)
           \/ CreatePush(p) \/ RebasePush(p)
    PROVE  /\ p \in Running /\ Others(p) /\ proc[p].pc \in HasPulled
           /\ proc'[p].of = proc[p].of /\ proc'[p].cmd = proc[p].cmd
           /\ proc'[p].pulled = proc[p].pulled /\ proc'[p].etag = proc[p].etag
           /\ proc'[p].pc \in HasPulled /\ proc[p].cmd \in {"create", "rebase", "evaluate"}
<1>1. Shape /\ p \in Running /\ proc[p].pc \in HasPulled
  BY DEF CreateCache, RebaseCache, EvaluateCache, CacheWrite, CreatePush, RebasePush,
         CacheOpen, Push, At, Running, Fits, HasPulled
<1>2. \E pc \in HasPulled : Goto(p, pc)
  BY DEF CreateCache, RebaseCache, EvaluateCache, CacheWrite, CreatePush, RebasePush,
         CacheOpen, Push, HasPulled
<1>3. PICK pc \in HasPulled : Goto(p, pc)
  BY <1>2
<1>4. proc[p].cmd \in {"create", "rebase", "evaluate"}
  BY <1>1, RunningIs DEF CommandFits, IsStepOf, HasPulled, HasDir, HasCommit, HasFound
<1>5. QED  BY <1>1, <1>3, <1>4, GotoIs DEF Moved, Pc, Ends

\* So do the steps that pull it.
LEMMA PullStepIs ==
    ASSUME Fits, NEW p \in Procs, PullBind(p) \/ Pull(p)
    PROVE  /\ p \in Running /\ Others(p) /\ proc[p].pc \in {"headed", "bound"}
           /\ proc[p].cmd \in {"create", "rebase", "evaluate"}
           /\ proc'[p].of = proc[p].of /\ proc'[p].cmd = proc[p].cmd
           /\ proc'[p].etag = proc[p].etag
           /\ PullBind(p) => proc'[p].pc = "bound"
           /\ Pull(p) => /\ proc'[p].pc = "pulled"
                         /\ proc'[p].pulled.of = MyBase(p)
                         /\ proc'[p].pulled.version = base[MyBase(p)]
<1>1. Shape /\ p \in Running /\ proc[p].pc \in {"headed", "bound"}
  BY DEF PullBind, Pull, Running, Fits
<1>2. proc[p].cmd \in {"create", "rebase", "evaluate"}
  BY <1>1, RunningIs DEF CommandFits, IsStepOf, HasDir, HasFound
<1>3. CASE PullBind(p)
  <2>1. Moved(p, "bound") /\ proc'[p].etag = proc[p].etag
    BY <1>1, <1>3, GotoIs DEF PullBind, Pc, Ends
  <2>2. ~Pull(p)
    BY <1>3 DEF PullBind, Pull
  <2>3. QED  BY <1>1, <1>2, <2>1, <2>2 DEF Moved
<1>4. CASE Pull(p)
  <2>1. /\ Seen("_base") \in Snapshots /\ Seen("_base").of = MyBase(p)
        /\ Seen("_base").version = base[MyBase(p)]
    BY <1>1, <1>4, RunningIs, SeenIs DEF BoundFits, Pull
  <2>2. Moved(p, "pulled") /\ proc'[p].etag = proc[p].etag /\ proc'[p].pulled = Seen("_base")
    BY <1>1, <1>4, <2>1, PullIs DEF Pull
  <2>3. ~PullBind(p)
    BY <1>4 DEF PullBind, Pull
  <2>4. QED  BY <1>1, <1>2, <2>1, <2>2, <2>3 DEF Moved
<1>5. QED  BY <1>3, <1>4

\* The first step of a command.
LEMMA StartIs ==
    ASSUME Fits, NEW p \in Procs, NEW o \in Overlays,
           CreateHead(p, o) \/ RebaseHead(p, o) \/ EvaluateMiss(p, o) \/ BaselineSha(p, o)
    PROVE  /\ p \notin Running /\ Others(p) /\ UNCHANGED <<world, overlay, files>>
           /\ proc'[p].of = o
           /\ \/ /\ proc'[p].cmd = "create" /\ proc'[p].pc = "headed"
                 /\ entry[o] = Nil /\ proc'[p].etag = base[BaseOf[o]]
              \/ /\ proc'[p].cmd = "rebase" /\ proc'[p].pc = "headed"
                 /\ entry[o] # Nil /\ entry[o] # base[BaseOf[o]]
                 /\ proc'[p].etag = base[BaseOf[o]]
              \/ proc'[p].cmd = "evaluate" /\ proc'[p].pc = "headed"
              \/ proc'[p].cmd = "baseline" /\ proc'[p].pc = "sha" /\ proc'[p].sha = trunk
<1>1. UNCHANGED <<world, overlay, files>> /\ p \notin Running /\ Others(p)
  BY DEF CreateHead, RebaseHead, EvaluateMiss, BaselineSha, Begin, Others, Fits, Shape, Running
<1>2. proc \in [Procs -> Locals]
  BY DEF Fits, Shape
<1>3. CASE CreateHead(p, o)
  <2>1. proc'[p] = [Idle EXCEPT !.cmd = "create", !.pc = "headed", !.of = o,
                                !.etag = base[BaseOf[o]]]
    BY <1>2, <1>3 DEF CreateHead, Begin
  <2>2. QED  BY <1>1, <1>3, <2>1 DEF CreateHead, Idle
<1>4. CASE RebaseHead(p, o)
  <2>1. proc'[p] = [Idle EXCEPT !.cmd = "rebase", !.pc = "headed", !.of = o,
                                !.etag = base[BaseOf[o]]]
    BY <1>2, <1>4 DEF RebaseHead, Begin
  <2>2. QED  BY <1>1, <1>4, <2>1 DEF RebaseHead, Idle
<1>5. CASE EvaluateMiss(p, o)
  <2>1. proc'[p] = [Idle EXCEPT !.cmd = "evaluate", !.pc = "headed", !.of = o]
    BY <1>2, <1>5 DEF EvaluateMiss, Begin
  <2>2. QED  BY <1>1, <2>1 DEF Idle
<1>6. CASE BaselineSha(p, o)
  <2>1. proc'[p] = [Idle EXCEPT !.cmd = "baseline", !.pc = "sha", !.of = o, !.sha = trunk]
    BY <1>2, <1>6 DEF BaselineSha, Begin
  <2>2. QED  BY <1>1, <2>1 DEF Idle
<1>7. QED  BY <1>3, <1>4, <1>5, <1>6

\* A step of trunk_baseline leaves the rest of the files and the overlays alone.
LEMMA BaselineStepIs ==
    ASSUME Fits, NEW p \in Procs, Baseline(p)
    PROVE  /\ p \in Running /\ proc[p].cmd = "baseline"
           /\ Others(p) /\ UNCHANGED <<world, overlay, cache>> /\ bound'["_base"] = bound["_base"]
           /\ \/ proc'[p].pc = "done"
              \/ /\ proc'[p].pc \in {"etag"} \cup HasDir \cup HasFound
                 /\ proc'[p].cmd = "baseline" /\ proc'[p].of = proc[p].of
<1>1. Shape /\ p \in Running /\ proc[p].cmd = "baseline" /\ UNCHANGED <<world, overlay, cache>>
  BY DEF Baseline, BaselineHead, BaselineHit, BaselineMiss, ExportFound, ExportCommit,
         ExportRepository, ExportCheckoutAround, ExportClear, ExportClone, ExportOrigin,
         ExportCheckout, ExportMark, ExportPrune, TrunkBind, TrunkPlan, BaselineOpen,
         BaselineWrite, At, Running, Fits, files
<1>2. proc[p].pc \in {"sha", "etag"} \cup HasDir \cup HasFound
  BY <1>1, RunningIs DEF CommandFits, IsStepOf
<1>3. bound'["_base"] = bound["_base"]
  <2>1. CASE UNCHANGED bound
    BY <2>1
  <2>2. CASE TrunkBind(p)
    BY <1>1, <2>2 DEF TrunkBind, Bind, Shape, DataDirs
  <2>3. TrunkBind(p) \/ UNCHANGED bound
    BY DEF Baseline, BaselineHead, BaselineHit, BaselineMiss, ExportFound, ExportCommit,
           ExportRepository, ExportCheckoutAround, ExportClear, ExportClone, ExportOrigin,
           ExportCheckout, ExportMark, ExportPrune, TrunkPlan, BaselineOpen, BaselineWrite, files
  <2>4. QED  BY <2>1, <2>2, <2>3
<1>4. ASSUME NEW pc \in {"etag"} \cup HasDir \cup HasFound, Moved(p, pc)
      PROVE  /\ Others(p) /\ proc'[p].pc \in {"etag"} \cup HasDir \cup HasFound
             /\ proc'[p].cmd = "baseline" /\ proc'[p].of = proc[p].of
  BY <1>1, <1>4 DEF Moved
<1>5. CASE BaselineHead(p)
  <2>1. base[MyBase(p)] \in Versions
    BY <1>1, RunningIs DEF Shape
  <2>2. Moved(p, "etag")
    BY <1>1, <1>5, <2>1, HeadIs DEF BaselineHead
  <2>3. QED  BY <1>1, <1>3, <1>4, <2>2
<1>6. CASE BaselineMiss(p)
  <2>1. Moved(p, "miss")
    BY <1>1, <1>6, MissIs DEF BaselineMiss, Shape
  <2>2. QED  BY <1>1, <1>3, <1>4, <2>1 DEF HasDir
<1>7. CASE ExportCommit(p)
  <2>1. Moved(p, "commit")
    BY <1>1, <1>7, CommitIs DEF ExportCommit, Shape
  <2>2. QED  BY <1>1, <1>3, <1>4, <2>1 DEF HasDir
<1>8. CASE TrunkPlan(p)
  <2>1. Moved(p, "planned")
    BY <1>8, FoundIs
  <2>2. QED  BY <1>1, <1>3, <1>4, <2>1 DEF HasFound
<1>9. CASE BaselineHit(p) \/ BaselineWrite(p)
  <2>1. Ended(p)
    BY <1>1, <1>9, EndIs DEF BaselineHit, BaselineWrite
  <2>2. QED  BY <1>1, <1>3, <2>1 DEF Ended
<1>10. CASE UNCHANGED proc /\ (ExportClear(p) \/ ExportCheckout(p) \/ ExportPrune(p))
  <2>1. proc[p].pc \in HasDir
    BY <1>10 DEF ExportClear, ExportCheckout, ExportPrune, At, HasDir
  <2>2. QED  BY <1>1, <1>3, <1>10, <2>1 DEF Others
<1>11. CASE \E pc \in HasDir \cup HasFound : Goto(p, pc)
  <2>1. PICK pc \in HasDir \cup HasFound : Goto(p, pc)
    BY <1>11
  <2>2. Moved(p, pc)
    BY <1>1, <2>1, GotoIs DEF Pc, Ends
  <2>3. QED  BY <1>1, <1>3, <1>4, <2>2
<1>12. \/ BaselineHead(p) \/ BaselineMiss(p) \/ ExportCommit(p) \/ TrunkPlan(p)
       \/ BaselineHit(p) \/ BaselineWrite(p)
       \/ UNCHANGED proc /\ (ExportClear(p) \/ ExportCheckout(p) \/ ExportPrune(p))
       \/ \E pc \in HasDir \cup HasFound : Goto(p, pc)
  BY DEF Baseline, ExportFound, ExportRepository, ExportCheckoutAround, ExportClear, ExportClone,
         ExportOrigin, ExportCheckout, ExportMark, ExportPrune, TrunkBind, BaselineOpen,
         HasDir, HasFound
<1>13. QED  BY <1>5, <1>6, <1>7, <1>8, <1>9, <1>10, <1>11, <1>12

LEMMA NextPulls ==
    ASSUME Fits, Pulling, [Next]_vars
    PROVE  Pulling'
<1>1. CASE UNCHANGED <<object, proc>>
  BY <1>1 DEF Pulling, PulledFits, ForksAreOfTheirBase, MyBase
<1>2. ASSUME NEW p \in Procs, Others(p), UNCHANGED object, proc'[p].pc \notin HasPulled
      PROVE  Pulling'
  <2>1. ForksAreOfTheirBase' /\ PulledFits(p)'
    BY <1>2 DEF Pulling, ForksAreOfTheirBase, PulledFits
  <2>2. QED  BY <1>2, <2>1, PullingStays
<1>3. ASSUME NEW p \in Procs, NEW o \in Overlays,
             CreateHead(p, o) \/ RebaseHead(p, o) \/ EvaluateMiss(p, o) \/ BaselineSha(p, o)
      PROVE  Pulling'
  <2>1. Others(p) /\ UNCHANGED object /\ proc'[p].pc \notin HasPulled
    BY <1>3, StartIs DEF overlay, HasPulled
  <2>2. QED  BY <1>2, <2>1
<1>4. ASSUME NEW p \in Procs, Baseline(p)
      PROVE  Pulling'
  <2>1. Others(p) /\ UNCHANGED object /\ proc'[p].pc \notin HasPulled
    BY <1>4, BaselineStepIs DEF overlay, HasPulled, HasDir, HasCommit, HasFound
  <2>2. QED  BY <1>2, <2>1
<1>5. ASSUME NEW p \in Procs, PullBind(p) \/ Record(p) \/ Stop(p)
      PROVE  Pulling'
  <2>1. CASE PullBind(p)
    BY <1>2, <2>1, PullStepIs DEF PullBind, overlay, HasPulled
  <2>2. CASE Record(p) \/ Stop(p)
    BY <1>2, <2>2, EndIs DEF Record, Stop, Ended, overlay, HasPulled, Fits
  <2>3. QED  BY <1>5, <2>1, <2>2
<1>6. ASSUME NEW p \in Procs, Pull(p)
      PROVE  Pulling'
  <2>1. Others(p) /\ PulledFits(p)'
    BY <1>6, PullStepIs DEF PulledFits, MyBase
  <2>2. ForksAreOfTheirBase'
    BY <1>6 DEF Pull, overlay, Pulling, ForksAreOfTheirBase
  <2>3. QED  BY <2>1, <2>2, PullingStays
<1>7. ASSUME NEW p \in Procs,
             \/ CreateCache(p) \/ RebaseCache(p) \/ EvaluateCache(p) \/ CacheWrite(p)
             \/ CreatePush(p) \/ RebasePush(p)
      PROVE  Pulling'
  <2>1. /\ p \in Running /\ Others(p) /\ proc[p].pc \in HasPulled
        /\ proc'[p].of = proc[p].of /\ proc'[p].pulled = proc[p].pulled
    BY <1>7, CacheStepIs
  <2>2. proc[p].pulled.of = MyBase(p) /\ proc[p].of \in Overlays
    BY <2>1, RunningIs DEF Pulling, PulledFits
  <2>3. PulledFits(p)'
    BY <2>1, <2>2 DEF PulledFits, MyBase
  <2>4. \/ UNCHANGED object
        \/ object' = [object EXCEPT ![proc[p].of] = proc[p].pulled]
    BY <1>7 DEF CreateCache, RebaseCache, EvaluateCache, CacheWrite, CreatePush, RebasePush,
                CacheOpen, Push, overlay
  <2>5. ForksAreOfTheirBase'
    BY <2>2, <2>4 DEF Pulling, ForksAreOfTheirBase, MyBase, Fits, Shape
  <2>6. QED  BY <2>1, <2>3, <2>5, PullingStays
<1>8. CASE Fetch \/ \E k \in Bases : BaseMoves(k)
  BY <1>1, <1>8 DEF Fetch, BaseMoves, overlay
<1>9. QED  BY <1>1, <1>3, <1>4, <1>5, <1>6, <1>7, <1>8 DEF Next, vars, overlay

------------------------------------------------------------------------------
(* The export of the current commit is whole once it is marked; a baseline   *)
(* was planned from the commit it is stored under, or from a later one.      *)

OfTree(b) ==
    /\ b.sha <= b.tree /\ b.tree <= trunk
    /\ b.sha = trunk /\ ~torn => b.complete /\ b.tree = trunk

TreeFits(s) ==
    /\ s > trunk => export[s] = NoExport
    /\ export[s].tree # Nil => s <= export[s].tree /\ export[s].tree <= trunk

\* The directory and the commit are read after the sha, in this order; in the
\* directory of the current commit the steps that were taken have had effect.
ExportFits(p) ==
    p \in Running /\ proc[p].cmd = "baseline" =>
        /\ proc[p].pc \in {"sha", "etag"} => proc[p].sha <= trunk
        /\ proc[p].pc \in HasDir => proc[p].sha <= proc[p].dir /\ proc[p].dir <= trunk
        /\ proc[p].pc \in HasCommit => proc[p].dir <= proc[p].commit /\ proc[p].commit <= trunk
        /\ proc[p].pc \in HasGit /\ proc[p].dir = trunk /\ ~torn => export[trunk].git
        /\ proc[p].pc \in HasWhole /\ proc[p].dir = trunk /\ ~torn =>
              export[trunk].whole /\ export[trunk].tree = trunk
        /\ proc[p].pc \in HasFound => OfTree(proc[p].found)

Exporting ==
    /\ MarkedIsComplete
    /\ baseline # Nil => OfTree(baseline)
    /\ \A s \in Commits : TreeFits(s)
    /\ \A p \in Procs : ExportFits(p)

\* A step that takes nothing from the export of the current commit, or tears it.
KeepsExport ==
    /\ trunk' = trunk /\ (torn => torn')
    /\ ~torn' /\ export[trunk].git => export'[trunk].git
    /\ ~torn' /\ export[trunk].git /\ export[trunk].whole /\ export[trunk].tree = trunk =>
          export'[trunk].whole /\ export'[trunk].tree = trunk

LEMMA ExportingStays ==
    ASSUME Fits, Exporting, NEW p \in Procs, Others(p), KeepsExport,
           MarkedIsComplete', baseline' = baseline \/ (baseline' # Nil => OfTree(baseline)'),
           \A s \in Commits : TreeFits(s)', ExportFits(p)'
    PROVE  Exporting'
<1>1. ASSUME NEW q \in Procs, q # p  PROVE ExportFits(q)'
  <2>1. proc'[q] = proc[q] /\ ExportFits(q) /\ (q \in Running' <=> q \in Running)
    BY <1>1 DEF Others, Exporting, Running
  <2>2. proc[q].pc \in HasFound /\ OfTree(proc[q].found) => OfTree(proc[q].found)'
    BY <2>1 DEF OfTree, KeepsExport
  <2>3. QED  BY <2>1, <2>2 DEF ExportFits, KeepsExport, HasWhole, HasGit
<1>2. baseline' # Nil => OfTree(baseline)'
  <2>1. baseline' = baseline /\ baseline # Nil => OfTree(baseline)'
    BY DEF Exporting, OfTree, KeepsExport
  <2>2. QED  BY <2>1
<1>3. QED  BY <1>1, <1>2 DEF Exporting

LEMMA UnchangedExport ==
    ASSUME Exporting, UNCHANGED <<trunk, export, torn>>
    PROVE  KeepsExport /\ MarkedIsComplete' /\ \A s \in Commits : TreeFits(s)'
BY DEF KeepsExport, Exporting, MarkedIsComplete, Finished, TreeFits

\* What trunk_baseline has read is of commits.
LEMMA ReadIs ==
    ASSUME Fits, NEW p \in Running, proc[p].cmd = "baseline"
    PROVE  /\ trunk \in Commits /\ trunk \in Int
           /\ \A s \in Commits : s \in Int /\ export[s] \in Exports
           /\ proc[p].pc \in {"sha", "etag"} \cup HasDir => proc[p].sha \in Commits
           /\ proc[p].pc \in HasDir => proc[p].dir \in Commits
           /\ proc[p].pc \in HasCommit => proc[p].commit \in Commits
BY RunningIs DEF Fits, Shape, CommandFits, Commits

\* A step of an export that keeps what was read.
LEMMA GotoExports ==
    ASSUME Fits, Exporting, NEW p \in Running, proc[p].cmd = "baseline",
           NEW pc \in HasDir, Goto(p, pc), proc[p].pc \in HasDir, KeepsExport,
           pc \in HasCommit => proc[p].pc \in HasCommit,
           pc \in HasGit /\ proc[p].dir = trunk /\ ~torn' => export'[trunk].git,
           pc \in HasWhole /\ proc[p].dir = trunk /\ ~torn' =>
               export'[trunk].whole /\ export'[trunk].tree = trunk
    PROVE  p \in Procs /\ Others(p) /\ ExportFits(p)'
<1>1. /\ Others(p) /\ proc'[p].pc = pc /\ proc'[p].sha = proc[p].sha
      /\ proc'[p].dir = proc[p].dir /\ proc'[p].commit = proc[p].commit /\ p \in Procs
  BY GotoIs DEF Fits, Pc, Ends, Moved, Running
<1>2. ExportFits(p) /\ trunk' = trunk
  BY <1>1 DEF Exporting, KeepsExport
<1>3. pc \notin {"sha", "etag"} /\ pc \notin HasFound
  BY DEF HasDir, HasFound
<1>4. ExportFits(p)'
  BY <1>1, <1>2, <1>3 DEF ExportFits
<1>5. QED  BY <1>1, <1>4

\* The steps that change a directory.
LEMMA EffectExports ==
    ASSUME Fits, Exporting, NEW p \in Running, proc[p].cmd = "baseline",
           proc[p].pc \in HasDir, trunk' = trunk,
           NEW s \in Commits, NEW e \in Exports, EffectOf(p, s, e)
    PROVE  /\ KeepsExport /\ MarkedIsComplete' /\ \A t \in Commits : TreeFits(t)'
           /\ s = trunk => export'[trunk] = e
<1>1. /\ export'[s] = e /\ \A t \in Commits \ {s} : export'[t] = export[t]
      /\ trunk \in Commits /\ trunk \in Int /\ s \in Int /\ proc[p].dir \in Commits
      /\ proc[p].dir \in Int /\ (proc[p].pc \in HasCommit => proc[p].commit \in Int)
      /\ torn \in BOOLEAN
  BY ReadIs DEF EffectOf, Fits, Shape
<1>2. /\ ExportFits(p) /\ MarkedIsComplete /\ TreeFits(s)
      /\ proc[p].dir <= trunk
      /\ proc[p].pc \in HasCommit => proc[p].dir <= proc[p].commit /\ proc[p].commit <= trunk
  BY DEF Exporting, ExportFits, Running
<1>3. torn => torn'
  BY DEF EffectOf, ExportClear, ExportClone, ExportOrigin, ExportCheckout, ExportMark
<1>4. s > trunk => e = NoExport
  <2>1. s = proc[p].dir \/ Emptied(s, e)
    BY DEF EffectOf
  <2>2. CASE s = proc[p].dir
    BY <1>1, <1>2, <2>2
  <2>3. CASE Emptied(s, e)
    BY <1>2, <2>3 DEF Emptied, TreeFits
  <2>4. QED  BY <2>1, <2>2, <2>3
<1>5. e.tree # Nil => s <= e.tree /\ e.tree <= trunk
  <2>1. CASE ExportCheckout(p) /\ s = proc[p].dir /\ e.tree = proc[p].commit
    BY <1>2, <2>1 DEF ExportCheckout, At, HasCommit
  <2>2. CASE e.tree \in {export[s].tree, Nil}
    BY <1>2, <2>2 DEF TreeFits
  <2>3. QED  BY <2>1, <2>2 DEF EffectOf, Emptied, SameFiles, NoExport
<1>6. \A t \in Commits : TreeFits(t)'
  BY <1>1, <1>4, <1>5 DEF Exporting, TreeFits
<1>7. CASE s # trunk
  BY <1>1, <1>2, <1>3, <1>6, <1>7 DEF KeepsExport, MarkedIsComplete, Finished
<1>8. CASE s = trunk
  <2>1. ASSUME ~torn', export[trunk].git  PROVE e.git
    BY <1>8, <2>1 DEF EffectOf, SameFiles, ExportClear, NoExport
  <2>2. ASSUME ~torn', export[trunk].git, export[trunk].whole, export[trunk].tree = trunk
        PROVE  e.whole /\ e.tree = trunk
    <3>1. ~ExportClear(p) /\ ~(torn' = (torn \/ s = trunk))
      BY <1>8, <2>2 DEF EffectOf, ExportClear
    <3>2. CASE ExportCheckout(p) /\ s = proc[p].dir /\ e.tree = proc[p].commit
      <4>1. e.tree = trunk
        <5>1. proc[p].pc \in HasCommit
          BY <3>2 DEF ExportCheckout, At, HasCommit
        <5>2. QED  BY <1>1, <1>2, <1>8, <3>2, <5>1
      <4>2. QED  BY <1>8, <2>2, <3>1, <4>1 DEF EffectOf, SameFiles, NoExport
    <3>3. QED  BY <1>8, <2>2, <3>1, <3>2 DEF EffectOf, SameFiles, NoExport
  <2>3. ASSUME ~torn', e.git, e.marker  PROVE e.whole /\ e.tree = trunk
    <3>1. ~torn
      BY <1>3, <2>3
    <3>2. CASE ExportMark(p) /\ s = proc[p].dir /\ SameFiles(s, e)
      BY <1>2, <1>8, <3>1, <3>2 DEF ExportMark, At, ExportFits, HasWhole, SameFiles
    <3>3. CASE e.marker = export[s].marker /\ e.git = export[s].git
      <4>1. export[trunk].whole /\ export[trunk].tree = trunk /\ export[trunk].git
        BY <1>2, <1>8, <2>3, <3>1, <3>3 DEF MarkedIsComplete, Finished
      <4>2. QED  BY <2>2, <2>3, <4>1
    <3>4. CASE e = [NoExport EXCEPT !.git = TRUE]
      BY <2>3, <3>4 DEF NoExport
    <3>5. CASE Emptied(s, e) /\ ((ExportClear(p) /\ s = proc[p].dir) \/ torn' = (torn \/ s = trunk))
      BY <1>8, <2>3, <3>5 DEF Emptied, ExportClear
    <3>6. QED  BY <3>2, <3>3, <3>4, <3>5 DEF EffectOf, SameFiles
  <2>4. MarkedIsComplete'
    BY <1>1, <1>8, <2>3 DEF MarkedIsComplete, Finished
  <2>5. KeepsExport
    BY <1>1, <1>3, <1>8, <2>1, <2>2 DEF KeepsExport
  <2>6. QED  BY <1>1, <1>6, <1>8, <2>4, <2>5
<1>9. QED  BY <1>7, <1>8

LEMMA ExportStepExports ==
    ASSUME Fits, Exporting, NEW p \in Procs,
           \/ ExportClear(p) \/ ExportClone(p) \/ ExportOrigin(p)
           \/ ExportCheckout(p) \/ ExportMark(p) \/ ExportPrune(p)
    PROVE  Exporting'
<1>1. /\ p \in Running /\ proc[p].cmd = "baseline" /\ proc[p].pc \in HasDir
      /\ proc[p].dir \in Commits
      /\ trunk' = trunk /\ UNCHANGED baseline
      /\ \E s \in Commits, e \in Exports : EffectOf(p, s, e)
      /\ \/ UNCHANGED proc
         \/ \E pc \in HasDir \ {"miss", "commit", "trunk bound"} :
               Goto(p, pc) /\ (pc \in HasCommit => proc[p].pc \in HasCommit)
  BY ExportStepIs DEF world
<1>2. PICK s \in Commits, e \in Exports : EffectOf(p, s, e)
  BY <1>1
<1>3. /\ KeepsExport /\ MarkedIsComplete' /\ \A t \in Commits : TreeFits(t)'
      /\ s = trunk => export'[trunk] = e
  BY <1>1, <1>2, EffectExports
<1>4. /\ ExportFits(p) /\ (torn => torn') /\ trunk \in Int /\ proc[p].dir \in Int
      /\ proc[p].pc \in HasCommit =>
            /\ proc[p].commit \in Int /\ proc[p].dir <= proc[p].commit /\ proc[p].commit <= trunk
  BY <1>1, <1>3, ReadIs DEF Exporting, KeepsExport, ExportFits
<1>5. CASE UNCHANGED proc
  <2>1. ExportFits(p)'
    <3>1. proc'[p].pc \notin {"sha", "etag"} /\ proc'[p].pc \notin HasFound
      BY <1>1, <1>5 DEF HasDir, HasFound
    <3>2. QED  BY <1>1, <1>3, <1>4, <1>5, <3>1 DEF ExportFits, KeepsExport, HasWhole, HasGit, Running
  <2>2. Others(p)
    BY <1>5 DEF Others
  <2>3. QED  BY <1>1, <1>3, <2>1, <2>2, ExportingStays
<1>6. ASSUME NEW pc \in HasDir, Goto(p, pc), pc \in HasCommit => proc[p].pc \in HasCommit,
             pc \in HasGit /\ proc[p].dir = trunk /\ ~torn' => export'[trunk].git,
             pc \in HasWhole /\ proc[p].dir = trunk /\ ~torn' =>
                 export'[trunk].whole /\ export'[trunk].tree = trunk
      PROVE  Exporting'
  <2>1. Others(p) /\ ExportFits(p)'
    BY <1>1, <1>3, <1>6, GotoExports
  <2>2. QED  BY <1>1, <1>3, <2>1, ExportingStays
<1>7. CASE ExportClone(p)
  <2>1. Goto(p, "copied") /\ proc[p].pc = "clear" /\ s = proc[p].dir /\ e.git
    BY <1>2, <1>7 DEF ExportClone, At, EffectOf, ExportClear, ExportPrune, ExportOrigin, ExportMark,
                      ExportCheckout, NoExport
  <2>2. QED  BY <1>3, <1>6, <2>1 DEF HasDir, HasCommit, HasGit, HasWhole
<1>8. CASE ExportOrigin(p)
  <2>1. Goto(p, "cloned") /\ proc[p].pc = "copied"
    BY <1>8 DEF ExportOrigin, At
  <2>2. proc[p].dir = trunk /\ ~torn' => export'[trunk].git
    BY <1>3, <1>4, <2>1, <1>1 DEF ExportFits, HasGit, KeepsExport
  <2>3. QED  BY <1>6, <2>1, <2>2 DEF HasDir, HasCommit, HasWhole
<1>9. CASE ExportCheckout(p) /\ ~UNCHANGED proc
  <2>1. Goto(p, "checked out") /\ proc[p].pc = "cloned"
    BY <1>9 DEF ExportCheckout, At
  <2>2. /\ s = proc[p].dir /\ e.tree = proc[p].commit /\ e.whole
        /\ proc[p].dir <= proc[p].commit /\ proc[p].commit <= trunk /\ proc[p].commit \in Int
    BY <1>2, <1>4, <1>9, <2>1
       DEF EffectOf, ExportClear, ExportPrune, ExportClone, ExportOrigin, ExportMark, At, HasCommit
  <2>3. proc[p].dir = trunk => export'[trunk].whole /\ export'[trunk].tree = trunk
    BY <1>3, <1>4, <2>2
  <2>4. proc[p].dir = trunk /\ ~torn' => export'[trunk].git
    BY <1>3, <1>4, <2>1, <1>1 DEF ExportFits, HasGit, KeepsExport
  <2>5. QED  BY <1>6, <2>1, <2>3, <2>4 DEF HasDir, HasCommit
<1>10. CASE ExportMark(p)
  <2>1. Goto(p, "exported") /\ proc[p].pc = "checked out"
    BY <1>10 DEF ExportMark, At
  <2>2. proc[p].dir = trunk /\ ~torn' =>
            export'[trunk].git /\ export'[trunk].whole /\ export'[trunk].tree = trunk
    BY <1>3, <1>4, <2>1, <1>1 DEF ExportFits, HasGit, HasWhole, KeepsExport
  <2>3. QED  BY <1>6, <2>1, <2>2 DEF HasDir, HasCommit
<1>11. CASE ExportClear(p) \/ ExportPrune(p)
  BY <1>5, <1>11 DEF ExportClear, ExportPrune
<1>12. QED  BY <1>5, <1>7, <1>8, <1>9, <1>10, <1>11

LEMMA NextExports ==
    ASSUME Fits, Exporting, [Next]_vars
    PROVE  Exporting'
<1>0. Shape
  BY DEF Fits
<1>1. CASE UNCHANGED <<trunk, export, torn, baseline, proc>>
  <2>1. MarkedIsComplete' /\ \A s \in Commits : TreeFits(s)'
    BY <1>1, UnchangedExport
  <2>2. baseline' # Nil => OfTree(baseline)'
    BY <1>1 DEF Exporting, OfTree
  <2>3. ASSUME NEW q \in Procs  PROVE ExportFits(q)'
    BY <1>1 DEF Exporting, ExportFits, OfTree, Running
  <2>4. QED  BY <2>1, <2>2, <2>3 DEF Exporting
<1>2. ASSUME NEW p \in Procs, Others(p), UNCHANGED <<trunk, export, torn>>,
             baseline' = baseline \/ (baseline' # Nil => OfTree(baseline)'),
             ExportFits(p)'
      PROVE  Exporting'
  BY <1>2, UnchangedExport, ExportingStays
<1>3. ASSUME NEW p \in Procs, NEW o \in Overlays,
             CreateHead(p, o) \/ RebaseHead(p, o) \/ EvaluateMiss(p, o) \/ BaselineSha(p, o)
      PROVE  Exporting'
  <2>1. Others(p) /\ UNCHANGED <<trunk, export, torn, baseline>>
    BY <1>3, StartIs DEF world, files, exports
  <2>2. \/ proc'[p].cmd # "baseline"
        \/ proc'[p].pc = "sha" /\ proc'[p].sha = trunk
    BY <1>3, StartIs
  <2>3. trunk <= trunk
    BY <1>0 DEF Shape, Commits
  <2>4. ExportFits(p)'
    BY <2>1, <2>2, <2>3 DEF ExportFits, HasDir, HasCommit, HasGit, HasWhole, HasFound
  <2>5. QED  BY <1>2, <2>1, <2>4
<1>4. ASSUME NEW p \in Procs, BaselineHit(p) \/ BaselineWrite(p) \/ Stop(p) \/ Record(p)
      PROVE  Exporting'
  <2>1. Ended(p) /\ UNCHANGED <<trunk, export, torn>>
    BY <1>0, <1>4, EndIs DEF BaselineHit, BaselineWrite, Stop, Record, world, files, exports
  <2>2. baseline' = baseline \/ (baseline' # Nil => OfTree(baseline)')
    <3>1. CASE BaselineWrite(p)
      <4>1. /\ p \in Running /\ proc[p].cmd = "baseline" /\ proc[p].pc = "writing"
            /\ baseline' = proc[p].found
        BY <3>1 DEF BaselineWrite, At, Running
      <4>2. OfTree(proc[p].found)
        BY <4>1 DEF Exporting, ExportFits, HasFound
      <4>3. QED  BY <2>1, <4>1, <4>2 DEF OfTree
    <3>2. CASE ~BaselineWrite(p)
      BY <1>4, <3>2 DEF BaselineHit, Stop, Record, files
    <3>3. QED  BY <3>1, <3>2
  <2>3. ExportFits(p)'
    BY <2>1 DEF Ended, ExportFits, Running
  <2>4. QED  BY <1>2, <2>1, <2>2, <2>3 DEF Ended
<1>5. ASSUME NEW p \in Procs,
             \/ PullBind(p) \/ Pull(p)
             \/ CreateCache(p) \/ RebaseCache(p) \/ EvaluateCache(p) \/ CacheWrite(p)
             \/ CreatePush(p) \/ RebasePush(p)
      PROVE  Exporting'
  <2>1. UNCHANGED <<trunk, export, torn, baseline>>
    BY <1>5 DEF PullBind, Pull, CreateCache, RebaseCache, EvaluateCache, CacheWrite,
                CreatePush, RebasePush, CacheOpen, Push, world, files, exports
  <2>2. Others(p) /\ proc'[p].cmd # "baseline"
    BY <1>5, PullStepIs, CacheStepIs
  <2>3. QED  BY <1>2, <2>1, <2>2 DEF ExportFits
<1>6. ASSUME NEW p \in Procs,
             BaselineHead(p) \/ BaselineMiss(p) \/ ExportCommit(p) \/ TrunkPlan(p)
      PROVE  Exporting'
  <2>1. /\ p \in Running /\ proc[p].cmd = "baseline"
        /\ UNCHANGED <<trunk, export, torn, baseline>> /\ ExportFits(p)
    BY <1>6 DEF BaselineHead, BaselineMiss, ExportCommit, TrunkPlan, At, Running, world, files,
                exports, Exporting
  <2>2. /\ trunk \in Commits /\ trunk \in Int
        /\ \A s \in Commits : s \in Int /\ export[s] \in Exports
        /\ proc[p].pc \in {"sha", "etag"} \cup HasDir => proc[p].sha \in Commits
        /\ proc[p].pc \in HasDir => proc[p].dir \in Commits
    BY <2>1, ReadIs
  <2>3. Others(p) /\ ExportFits(p)'
    <3>1. CASE BaselineHead(p)
      <4>1. proc[p].pc = "sha" /\ base[MyBase(p)] \in Versions
        BY <1>0, <2>1, <3>1, RunningIs DEF BaselineHead, At, Shape
      <4>2. Moved(p, "etag") /\ proc'[p].sha = proc[p].sha
        BY <1>0, <3>1, <4>1, HeadIs DEF BaselineHead
      <4>3. QED
        BY <2>1, <4>1, <4>2
           DEF Moved, ExportFits, HasDir, HasCommit, HasGit, HasWhole, HasFound
    <3>2. CASE BaselineMiss(p)
      <4>1. proc[p].pc = "etag"
        BY <3>2 DEF BaselineMiss, At
      <4>2. Moved(p, "miss") /\ proc'[p].sha = proc[p].sha /\ proc'[p].dir = trunk
        BY <1>0, <2>2, <3>2, MissIs DEF BaselineMiss
      <4>3. proc[p].sha <= trunk /\ trunk <= trunk
        BY <2>1, <2>2, <4>1 DEF ExportFits
      <4>4. QED
        BY <2>1, <4>2, <4>3
           DEF Moved, ExportFits, HasDir, HasCommit, HasGit, HasWhole, HasFound
    <3>3. CASE ExportCommit(p)
      <4>1. proc[p].pc = "miss"
        BY <3>3 DEF ExportCommit, At
      <4>2. /\ Moved(p, "commit") /\ proc'[p].sha = proc[p].sha /\ proc'[p].dir = proc[p].dir
            /\ proc'[p].commit = trunk
        BY <1>0, <2>2, <3>3, CommitIs DEF ExportCommit
      <4>3. proc[p].sha <= proc[p].dir /\ proc[p].dir <= trunk /\ trunk <= trunk
        BY <2>1, <2>2, <4>1 DEF ExportFits, HasDir
      <4>4. QED
        BY <2>1, <4>2, <4>3
           DEF Moved, ExportFits, HasDir, HasCommit, HasGit, HasWhole, HasFound
    <3>4. CASE TrunkPlan(p)
      <4>1. /\ proc[p].pc = "trunk bound" /\ Moved(p, "planned")
            /\ proc'[p].found = FoundBy(p) /\ FoundBy(p).sha = proc[p].sha
            /\ FoundBy(p).tree = export[proc[p].dir].tree
            /\ FoundBy(p).complete = export[proc[p].dir].whole
            /\ export[proc[p].dir].tree # Nil
        BY <3>4, FoundIs DEF TrunkPlan
      <4>2. /\ proc[p].sha \in Int /\ proc[p].dir \in Commits /\ proc[p].dir \in Int
            /\ export[proc[p].dir].tree \in Int
            /\ proc[p].sha <= proc[p].dir /\ proc[p].dir <= trunk
        BY <2>1, <2>2, <4>1 DEF ExportFits, HasDir, Exports
      <4>3. proc[p].dir <= export[proc[p].dir].tree /\ export[proc[p].dir].tree <= trunk
        BY <4>1, <4>2 DEF Exporting, TreeFits
      <4>4. proc[p].sha = trunk /\ ~torn => FoundBy(p).complete /\ FoundBy(p).tree = trunk
        <5>1. proc[p].sha = trunk => proc[p].dir = trunk
          BY <2>2, <4>2
        <5>2. QED  BY <2>1, <4>1, <5>1 DEF ExportFits, HasWhole
      <4>5. OfTree(FoundBy(p))
        <5>1. FoundBy(p).sha <= FoundBy(p).tree /\ FoundBy(p).tree <= trunk
          <6>1. \A a, b, c \in Int : a <= b /\ b <= c => a <= c
            OBVIOUS
          <6>2. proc[p].sha <= export[proc[p].dir].tree
            BY <4>2, <4>3, <6>1
          <6>3. QED  BY <4>1, <4>3, <6>2
        <5>2. FoundBy(p).sha = trunk /\ ~torn => FoundBy(p).complete /\ FoundBy(p).tree = trunk
          BY <4>1, <4>4
        <5>3. QED  BY <5>1, <5>2 DEF OfTree
      <4>6. OfTree(proc[p].found)'
        BY <2>1, <4>1, <4>5 DEF OfTree
      <4>7. QED
        BY <4>1, <4>6 DEF Moved, ExportFits, HasDir, HasCommit, HasGit, HasWhole, HasFound
    <3>5. QED  BY <1>6, <3>1, <3>2, <3>3, <3>4
  <2>4. QED  BY <1>2, <2>1, <2>3
<1>7. ASSUME NEW p \in Procs,
             ExportFound(p) \/ ExportRepository(p) \/ ExportCheckoutAround(p) \/ TrunkBind(p)
      PROVE  Exporting'
  <2>1. /\ p \in Running /\ proc[p].cmd = "baseline" /\ proc[p].pc \in HasDir
        /\ UNCHANGED <<trunk, export, torn, baseline>> /\ ExportFits(p) /\ MarkedIsComplete
    BY <1>7 DEF ExportFound, ExportRepository, ExportCheckoutAround, TrunkBind, At, Running, world,
                files, exports, Exporting, HasDir
  <2>2. KeepsExport
    BY <2>1, UnchangedExport
  <2>3. ASSUME NEW pc \in HasDir, Goto(p, pc), pc \in HasCommit => proc[p].pc \in HasCommit,
               pc \in HasGit /\ proc[p].dir = trunk /\ ~torn => export[trunk].git,
               pc \in HasWhole /\ proc[p].dir = trunk /\ ~torn =>
                   export[trunk].whole /\ export[trunk].tree = trunk
        PROVE  Exporting'
    <3>1. Others(p) /\ ExportFits(p)'
      BY <2>1, <2>2, <2>3, GotoExports
    <3>2. QED  BY <1>2, <2>1, <3>1
  <2>4. CASE ExportFound(p)
    <3>1. Goto(p, "exported") /\ Finished(export[proc[p].dir])
      BY <2>4 DEF ExportFound
    <3>2. QED
      BY <2>1, <2>3, <3>1 DEF MarkedIsComplete, Finished, HasDir, HasCommit
  <2>5. CASE ExportRepository(p)
    <3>1. proc[p].pc = "commit" /\ Goto(p, IF export[proc[p].dir].git THEN "cloned" ELSE "clear")
      BY <2>5 DEF ExportRepository, At
    <3>2. CASE export[proc[p].dir].git
      BY <2>3, <3>1, <3>2 DEF HasDir, HasCommit, HasWhole
    <3>3. CASE ~export[proc[p].dir].git
      BY <2>3, <3>1, <3>3 DEF HasDir, HasCommit, HasGit, HasWhole
    <3>4. QED  BY <3>2, <3>3
  <2>6. CASE ExportCheckoutAround(p)
    <3>1. /\ proc[p].pc = "cloned" /\ Goto(p, "checked out") /\ ~export[proc[p].dir].git
      BY <2>6 DEF ExportCheckoutAround, At
    <3>2. ~(proc[p].dir = trunk /\ ~torn)
      BY <2>1, <3>1 DEF ExportFits, HasGit
    <3>3. QED  BY <2>3, <3>1, <3>2 DEF HasDir, HasCommit
  <2>7. CASE TrunkBind(p)
    <3>1. Goto(p, "trunk bound") /\ proc[p].pc = "exported"
      BY <2>7 DEF TrunkBind, At
    <3>2. QED
      BY <2>1, <2>3, <3>1 DEF ExportFits, HasDir, HasCommit, HasGit, HasWhole
  <2>8. QED  BY <1>7, <2>4, <2>5, <2>6, <2>7
<1>8. ASSUME NEW p \in Procs, BaselineOpen(p)  PROVE Exporting'
  <2>1. /\ p \in Running /\ proc[p].cmd = "baseline" /\ proc[p].pc = "planned"
        /\ UNCHANGED <<trunk, export, torn>> /\ baseline' = Nil /\ Goto(p, "writing")
    BY <1>8 DEF BaselineOpen, At, Running, world, exports
  <2>2. Moved(p, "writing") /\ proc'[p].found = proc[p].found
    BY <1>0, <2>1, GotoIs DEF Pc, Ends, HasFound
  <2>3. OfTree(proc[p].found)
    BY <2>1 DEF Exporting, ExportFits, HasFound
  <2>4. OfTree(proc[p].found)'
    BY <2>1, <2>2, <2>3 DEF OfTree
  <2>5. ExportFits(p)'
    BY <2>2, <2>4 DEF Moved, ExportFits, HasDir, HasCommit, HasGit, HasWhole, HasFound
  <2>6. QED  BY <1>2, <2>1, <2>2, <2>5 DEF Moved
<1>9. CASE Fetch
  <2>1. /\ trunk' = trunk + 1 /\ UNCHANGED <<export, baseline, proc>>
        /\ trunk \in Int /\ trunk + 1 \in Commits
    BY <1>0, <1>9, CheckoutAssumption DEF Fetch, Shape, Commits
  <2>2. export[trunk + 1] = NoExport
    BY <2>1 DEF Exporting, TreeFits
  <2>3. MarkedIsComplete'
    BY <2>1, <2>2 DEF MarkedIsComplete, Finished, NoExport
  <2>4. ASSUME NEW s \in Commits  PROVE TreeFits(s)'
    <3>1. s \in Int /\ TreeFits(s) /\ export[s] \in Exports
      BY <1>0 DEF Exporting, Commits, Shape
    <3>2. export[s].tree # Nil => export[s].tree \in Int
      BY <3>1 DEF Exports, Commits
    <3>3. QED  BY <2>1, <3>1, <3>2 DEF TreeFits
  <2>5. ASSUME NEW b \in Baselines, OfTree(b)  PROVE OfTree(b)'
    BY <2>1, <2>5 DEF OfTree, Baselines, Commits
  <2>6. baseline' # Nil => OfTree(baseline)'
    <3>1. CASE baseline # Nil
      <4>1. PICK b \in Baselines : b = baseline
        BY <1>0, <3>1 DEF Shape
      <4>2. OfTree(b)'
        BY <2>5, <3>1, <4>1 DEF Exporting
      <4>3. QED  BY <2>1, <4>1, <4>2
    <3>2. QED  BY <2>1, <3>1
  <2>7. ASSUME NEW q \in Procs  PROVE ExportFits(q)'
    <3> SUFFICES ASSUME q \in Running, proc[q].cmd = "baseline"
                 PROVE  ExportFits(q)'
      BY <2>1 DEF ExportFits, Running
    <3>1. /\ CommandFits(q) /\ ExportFits(q)
          /\ proc[q].pc \in {"sha", "etag"} \cup HasDir => proc[q].sha \in Int
          /\ proc[q].pc \in HasDir => proc[q].dir \in Int
          /\ proc[q].pc \in HasCommit => proc[q].commit \in Int
      BY RunningIs DEF Exporting, CommandFits, Commits
    <3>2. proc[q].pc \in HasDir => proc[q].dir # trunk + 1
      BY <2>1, <3>1 DEF ExportFits
    <3>3. proc[q].pc \in HasFound => OfTree(proc[q].found)'
      <4>1. CASE proc[q].pc \in HasFound
        <5>1. PICK b \in Baselines : b = proc[q].found
          BY <3>1, <4>1 DEF CommandFits
        <5>2. OfTree(b)'
          BY <2>5, <3>1, <4>1, <5>1 DEF ExportFits
        <5>3. QED  BY <2>1, <5>1, <5>2
      <4>2. QED  BY <4>1
    <3>4. /\ proc[q].pc \in {"sha", "etag"} => proc[q].sha <= trunk + 1
          /\ proc[q].pc \in HasDir => proc[q].sha <= proc[q].dir /\ proc[q].dir <= trunk + 1
          /\ proc[q].pc \in HasCommit =>
                proc[q].dir <= proc[q].commit /\ proc[q].commit <= trunk + 1
      <4>1. /\ proc[q].pc \in {"sha", "etag"} => proc[q].sha <= trunk
            /\ proc[q].pc \in HasDir => proc[q].sha <= proc[q].dir /\ proc[q].dir <= trunk
            /\ proc[q].pc \in HasCommit =>
                  proc[q].dir <= proc[q].commit /\ proc[q].commit <= trunk
        BY <3>1 DEF ExportFits
      <4>2. \A a \in Int : a <= trunk => a <= trunk + 1
        BY <2>1
      <4>3. QED  BY <3>1, <4>1, <4>2
    <3>5. proc[q].pc \in HasGit \/ proc[q].pc \in HasWhole => proc[q].dir # trunk + 1
      BY <3>2 DEF HasGit, HasWhole, HasDir
    <3>6. QED  BY <2>1, <3>3, <3>4, <3>5 DEF ExportFits
  <2>8. QED  BY <2>3, <2>4, <2>6, <2>7 DEF Exporting
<1>10. ASSUME NEW k \in Bases, BaseMoves(k)  PROVE Exporting'
  BY <1>1, <1>10 DEF BaseMoves, files, exports
<1>11. ASSUME NEW p \in Procs,
              \/ ExportClear(p) \/ ExportClone(p) \/ ExportOrigin(p)
              \/ ExportCheckout(p) \/ ExportMark(p) \/ ExportPrune(p)
       PROVE  Exporting'
  BY <1>11, ExportStepExports
<1>12. CASE UNCHANGED vars
  BY <1>1, <1>12 DEF vars, world, files, exports
<1>13. QED
  BY <1>3, <1>4, <1>5, <1>6, <1>7, <1>8, <1>9, <1>10, <1>11, <1>12 DEF Next, Baseline

------------------------------------------------------------------------------
(* Cached baselines are planned on the base they are stored under, or on a   *)
(* later state of it.                                                        *)

Planned(b) ==
    /\ b.on.of = b.etag.of
    /\ b.etag.version <= b.on.version /\ b.on.version <= base[b.on.of]

BaselineFits(p) ==
    p \in Running /\ proc[p].cmd = "baseline" =>
        /\ proc[p].pc \in {"etag"} \cup HasDir => proc[p].etag <= base[MyBase(p)]
        /\ proc[p].pc \in HasFound => Planned(proc[p].found)

Baselining == (baseline # Nil => Planned(baseline)) /\ \A p \in Procs : BaselineFits(p)

BaseGrew == \A k \in Bases : base[k] <= base'[k]

LEMMA NextBase ==
    ASSUME Fits, [Next]_vars
    PROVE  BaseGrew /\ Fits' /\ ((\A k \in Bases : ~BaseMoves(k)) => UNCHANGED base)
<1>1. Shape /\ Fits'
  BY NextFits DEF Fits
<1>2. CASE UNCHANGED base
  BY <1>1, <1>2 DEF Shape, BaseGrew, Versions
<1>3. ASSUME NEW k \in Bases, BaseMoves(k)  PROVE BaseGrew
  BY <1>1, <1>3 DEF Shape, BaseGrew, Versions, BaseMoves
<1>4. CASE Fetch \/ UNCHANGED vars
  BY <1>2, <1>4, <1>1 DEF Fetch, vars, world
<1>5. ASSUME NEW p \in Procs, NEW o \in Overlays,
             CreateHead(p, o) \/ RebaseHead(p, o) \/ EvaluateMiss(p, o) \/ BaselineSha(p, o)
      PROVE  UNCHANGED base
  BY <1>5, StartIs DEF world
<1>6. ASSUME NEW p \in Procs,
             \/ PullBind(p) \/ Pull(p)
             \/ CreateCache(p) \/ RebaseCache(p) \/ EvaluateCache(p) \/ CacheWrite(p)
             \/ CreatePush(p) \/ RebasePush(p) \/ Record(p) \/ Stop(p)
      PROVE  UNCHANGED base
  BY <1>6 DEF PullBind, Pull, CreateCache, RebaseCache, EvaluateCache, CacheWrite, CreatePush,
              RebasePush, CacheOpen, Push, Record, Stop, world
<1>7. ASSUME NEW p \in Procs, Baseline(p)  PROVE UNCHANGED base
  BY <1>7, BaselineStepIs DEF world
<1>8. QED  BY <1>1, <1>2, <1>3, <1>4, <1>5, <1>6, <1>7 DEF Next

LEMMA PlannedStays ==
    ASSUME Fits, BaseGrew, Fits', NEW b \in Baselines, Planned(b)
    PROVE  Planned(b)'
BY DEF Planned, BaseGrew, Fits, Shape, Baselines, Snapshots, Versions

LEMMA BaselineFitsStays ==
    ASSUME Fits, BaseGrew, Fits', NEW q \in Procs, proc'[q] = proc[q], BaselineFits(q)
    PROVE  BaselineFits(q)'
<1> SUFFICES ASSUME q \in Running', proc'[q].cmd = "baseline"
             PROVE  /\ proc'[q].pc \in {"etag"} \cup HasDir => proc'[q].etag <= base'[MyBase(q)']
                    /\ proc'[q].pc \in HasFound => Planned(proc[q].found)'
  BY DEF BaselineFits
<1>1. q \in Running /\ proc[q].cmd = "baseline" /\ MyBase(q)' = MyBase(q)
  BY DEF Running, MyBase
<1>2. CommandFits(q) /\ MyBase(q) \in Bases
  BY <1>1, RunningIs
<1>3. base[MyBase(q)] \in Versions /\ base'[MyBase(q)] \in Versions
      /\ base[MyBase(q)] <= base'[MyBase(q)]
  BY <1>2 DEF Fits, Shape, BaseGrew
<1>4. ASSUME proc[q].pc \in {"etag"} \cup HasDir  PROVE proc[q].etag <= base'[MyBase(q)]
  BY <1>1, <1>2, <1>3, <1>4 DEF CommandFits, BaselineFits, Versions
<1>5. ASSUME proc[q].pc \in HasFound  PROVE Planned(proc[q].found)'
  <2>1. PICK b \in Baselines : b = proc[q].found
    BY <1>1, <1>2, <1>5 DEF CommandFits
  <2>2. Planned(b)'
    BY <1>1, <1>5, <2>1, PlannedStays DEF BaselineFits
  <2>3. proc'[q].found = b
    BY <2>1
  <2>4. QED  BY <2>2, <2>3, <2>1
<1>6. QED  BY <1>1, <1>4, <1>5

LEMMA BaseliningStays ==
    ASSUME Fits, Baselining, BaseGrew, Fits', NEW p \in Procs, Others(p),
           baseline' = baseline \/ (baseline' # Nil => Planned(baseline)'),
           BaselineFits(p)'
    PROVE  Baselining'
<1>1. ASSUME NEW q \in Procs, q # p  PROVE BaselineFits(q)'
  BY <1>1, BaselineFitsStays DEF Baselining, Others
<1>2. CASE baseline' = baseline /\ baseline # Nil
  <2>1. PICK b \in Baselines : b = baseline
    BY <1>2 DEF Fits, Shape
  <2>2. Planned(b)'
    BY <1>2, <2>1, PlannedStays DEF Baselining
  <2>3. QED  BY <1>1, <1>2, <2>1, <2>2 DEF Baselining
<1>3. QED  BY <1>1, <1>2 DEF Baselining

\* A step of trunk_baseline that keeps what it has read.
LEMMA GotoBaselines ==
    ASSUME Fits, Baselining, BaseGrew, Fits', NEW p \in Procs, p \in Running,
           proc[p].cmd = "baseline", proc[p].pc \in HasDir, NEW pc \in HasDir, Goto(p, pc)
    PROVE  Others(p) /\ BaselineFits(p)'
<1>1. Moved(p, pc) /\ proc'[p].etag = proc[p].etag
  BY GotoIs DEF Fits, Pc
<1>2. CommandFits(p) /\ MyBase(p) \in Bases
  BY RunningIs
<1>3. /\ base[MyBase(p)] \in Versions /\ base'[MyBase(p)] \in Versions
      /\ base[MyBase(p)] <= base'[MyBase(p)] /\ proc[p].etag \in Versions
      /\ proc[p].etag <= base[MyBase(p)]
  BY <1>2 DEF Fits, Shape, BaseGrew, CommandFits, Baselining, BaselineFits
<1>4. proc'[p].etag <= base'[MyBase(p)']
  BY <1>1, <1>3 DEF Moved, MyBase, Versions
<1>5. pc \notin HasFound
  BY DEF HasDir, HasFound
<1>6. QED  BY <1>1, <1>4, <1>5 DEF BaselineFits, Moved

LEMMA NextBaselines ==
    ASSUME Fits, Baselining, [Next]_vars
    PROVE  Baselining'
<1>0. Shape /\ Fits' /\ BaseGrew
  BY NextBase DEF Fits
<1>1. ASSUME UNCHANGED <<baseline, proc>>  PROVE Baselining'
  <2>1. ASSUME NEW q \in Procs  PROVE BaselineFits(q)'
    BY <1>0, <1>1, BaselineFitsStays DEF Baselining
  <2>2. CASE baseline # Nil
    <3>1. PICK b \in Baselines : b = baseline
      BY <1>0, <2>2 DEF Shape
    <3>2. Planned(b)'
      BY <1>0, <2>2, <3>1, PlannedStays DEF Baselining
    <3>3. QED  BY <1>1, <2>1, <3>1, <3>2 DEF Baselining
  <2>3. QED  BY <1>1, <2>1, <2>2 DEF Baselining
<1>2. ASSUME NEW p \in Procs, Others(p), UNCHANGED baseline,
             \/ proc'[p].pc \in {"done", "sha"}
             \/ proc'[p].cmd # "baseline"
      PROVE  Baselining'
  <2>1. BaselineFits(p)'
    BY <1>2 DEF BaselineFits, HasDir, HasFound
  <2>2. QED  BY <1>0, <1>2, <2>1, BaseliningStays
<1>3. ASSUME NEW p \in Procs, NEW o \in Overlays,
             CreateHead(p, o) \/ RebaseHead(p, o) \/ EvaluateMiss(p, o) \/ BaselineSha(p, o)
      PROVE  Baselining'
  <2>1. UNCHANGED files /\ Others(p)
    BY <1>3, StartIs
  <2>2. proc'[p].cmd # "baseline" \/ proc'[p].pc = "sha"
    BY <1>3, StartIs
  <2>3. QED  BY <1>2, <2>1, <2>2 DEF files, exports
<1>4. ASSUME NEW p \in Procs, BaselineHit(p) \/ Stop(p) \/ Record(p)
      PROVE  Baselining'
  BY <1>0, <1>2, <1>4, EndIs DEF BaselineHit, Stop, Record, Ended, files, exports
<1>5. ASSUME NEW p \in Procs,
             \/ PullBind(p) \/ Pull(p)
             \/ CreateCache(p) \/ RebaseCache(p) \/ EvaluateCache(p) \/ CacheWrite(p)
             \/ CreatePush(p) \/ RebasePush(p)
      PROVE  Baselining'
  <2>1. Others(p) /\ proc'[p].cmd # "baseline"
    BY <1>5, PullStepIs, CacheStepIs
  <2>2. UNCHANGED baseline
    BY <1>5 DEF PullBind, Pull, CreateCache, RebaseCache, EvaluateCache, CacheWrite,
                CreatePush, RebasePush, CacheOpen, Push, files, exports
  <2>3. QED  BY <1>2, <2>1, <2>2
<1>6. ASSUME NEW p \in Procs, BaselineHead(p)  PROVE Baselining'
  <2>1. p \in Running /\ proc[p].cmd = "baseline" /\ UNCHANGED <<base, baseline>>
    BY <1>6 DEF BaselineHead, At, Running, world, files, exports
  <2>2. MyBase(p) \in Bases /\ base[MyBase(p)] \in Versions
    BY <1>0, <2>1, RunningIs DEF Shape
  <2>3. proc' = [proc EXCEPT ![p].pc = "etag", ![p].etag = base[MyBase(p)]]
    BY <1>6 DEF BaselineHead
  <2>4. Moved(p, "etag") /\ proc'[p].etag = base[MyBase(p)]
    BY <1>0, <2>2, <2>3, HeadIs
  <2>5. BaselineFits(p)'
    BY <2>1, <2>2, <2>4 DEF BaselineFits, Moved, MyBase, Versions, HasFound
  <2>6. QED  BY <1>0, <2>1, <2>4, <2>5, BaseliningStays DEF Moved
<1>7. ASSUME NEW p \in Procs, BaselineMiss(p) \/ ExportCommit(p)  PROVE Baselining'
  <2>1. /\ p \in Running /\ proc[p].cmd = "baseline" /\ proc[p].pc \in {"etag", "miss"}
        /\ UNCHANGED <<base, baseline>>
    BY <1>7 DEF BaselineMiss, ExportCommit, At, Running, world, files, exports
  <2>2. proc[p].etag <= base[MyBase(p)]
    BY <2>1 DEF Baselining, BaselineFits, HasDir
  <2>3. \E pc \in HasDir : Moved(p, pc) /\ proc'[p].etag = proc[p].etag
    BY <1>0, <1>7, MissIs, CommitIs DEF BaselineMiss, ExportCommit, Shape, HasDir
  <2>4. BaselineFits(p)'
    BY <2>1, <2>2, <2>3 DEF BaselineFits, Moved, MyBase, HasDir, HasFound
  <2>5. QED  BY <1>0, <2>1, <2>3, <2>4, BaseliningStays DEF Moved
<1>8. ASSUME NEW p \in Procs, TrunkPlan(p)  PROVE Baselining'
  <2>1. UNCHANGED <<base, baseline>>
    BY <1>8 DEF TrunkPlan, world, files
  <2>2. /\ p \in Running /\ proc[p].cmd = "baseline" /\ proc[p].pc = "trunk bound"
        /\ FoundBy(p) \in Baselines
        /\ FoundBy(p).on.of = MyBase(p) /\ FoundBy(p).on.version = base[MyBase(p)]
        /\ FoundBy(p).etag.of = MyBase(p) /\ FoundBy(p).etag.version = proc[p].etag
        /\ Moved(p, "planned") /\ proc'[p].found = FoundBy(p)
    BY <1>8, FoundIs
  <2>3. proc[p].etag <= base[MyBase(p)] /\ base[MyBase(p)] \in Int
    <3>1. MyBase(p) \in Bases
      BY <2>2, RunningIs
    <3>2. base[MyBase(p)] \in Int
      BY <1>0, <3>1 DEF Shape, Versions
    <3>3. proc[p].etag <= base[MyBase(p)]
      BY <2>2 DEF Baselining, BaselineFits, HasDir
    <3>4. QED  BY <3>2, <3>3
  <2>4. PICK b \in Baselines : b = FoundBy(p)
    BY <2>2
  <2>5. Planned(b)
    <3>1. b.on.of = b.etag.of /\ base[b.on.of] = base[MyBase(p)]
      BY <2>2, <2>4
    <3>2. b.etag.version <= b.on.version
      BY <2>2, <2>3, <2>4
    <3>3. base[MyBase(p)] <= base[MyBase(p)]
      BY <2>3
    <3>4. b.on.version <= base[b.on.of]
      BY <2>2, <2>4, <3>1, <3>3
    <3>5. QED  BY <3>1, <3>2, <3>4 DEF Planned
  <2>6. Planned(b)'
    BY <1>0, <2>5, PlannedStays
  <2>7. BaselineFits(p)'
    <3>1. Planned(proc[p].found)'
      BY <2>2, <2>4, <2>6
    <3>2. QED  BY <2>2, <3>1 DEF Moved, BaselineFits, HasDir
  <2>8. QED  BY <1>0, <2>1, <2>2, <2>7, BaseliningStays DEF Moved
<1>9. ASSUME NEW p \in Procs,
             \/ ExportFound(p) \/ ExportRepository(p) \/ ExportClear(p) \/ ExportClone(p)
             \/ ExportOrigin(p) \/ ExportCheckout(p) \/ ExportCheckoutAround(p)
             \/ ExportMark(p) \/ ExportPrune(p) \/ TrunkBind(p)
      PROVE  Baselining'
  <2>1. /\ p \in Running /\ proc[p].cmd = "baseline" /\ UNCHANGED baseline
        /\ proc[p].pc \in HasDir
    BY <1>9 DEF ExportFound, ExportRepository, ExportClear, ExportClone, ExportOrigin,
                ExportCheckout, ExportCheckoutAround, ExportMark, ExportPrune, TrunkBind, At,
                Running, files, HasDir
  <2>2. UNCHANGED proc \/ \E pc \in HasDir : Goto(p, pc)
    BY <1>9 DEF ExportFound, ExportRepository, ExportClear, ExportClone, ExportOrigin,
                ExportCheckout, ExportCheckoutAround, ExportMark, ExportPrune, TrunkBind, HasDir
  <2>3. CASE UNCHANGED proc
    BY <1>1, <2>1, <2>3
  <2>4. ASSUME NEW pc \in HasDir, Goto(p, pc)  PROVE Baselining'
    <3>1. Others(p) /\ BaselineFits(p)'
      BY <1>0, <2>1, <2>4, GotoBaselines
    <3>2. QED  BY <1>0, <2>1, <3>1, BaseliningStays
  <2>5. QED  BY <2>2, <2>3, <2>4
<1>10. ASSUME NEW p \in Procs, BaselineOpen(p)  PROVE Baselining'
  <2>1. /\ p \in Running /\ proc[p].cmd = "baseline" /\ proc[p].pc = "planned"
        /\ baseline' = Nil /\ Goto(p, "writing")
    BY <1>10 DEF BaselineOpen, At, Running
  <2>2. Moved(p, "writing") /\ proc'[p].found = proc[p].found
    BY <1>0, <2>1, GotoIs DEF Pc, HasFound
  <2>3. PICK b \in Baselines : b = proc[p].found /\ Planned(b)
    BY <2>1, RunningIs DEF CommandFits, Baselining, BaselineFits, HasFound
  <2>4. Planned(b)'
    BY <1>0, <2>3, PlannedStays
  <2>5. Planned(proc[p].found)'
    BY <2>2, <2>3, <2>4
  <2>6. BaselineFits(p)'
    BY <2>2, <2>5 DEF BaselineFits, Moved, HasDir
  <2>7. QED  BY <1>0, <2>1, <2>2, <2>6, BaseliningStays DEF Moved
<1>11. ASSUME NEW p \in Procs, BaselineWrite(p)  PROVE Baselining'
  <2>1. /\ p \in Running /\ proc[p].cmd = "baseline" /\ proc[p].pc = "writing"
        /\ baseline' = proc[p].found
    BY <1>11 DEF BaselineWrite, At, Running
  <2>2. Ended(p)
    BY <1>0, <1>11, EndIs DEF BaselineWrite
  <2>3. PICK b \in Baselines : b = proc[p].found /\ Planned(b)
    BY <2>1, RunningIs DEF CommandFits, Baselining, BaselineFits, HasFound
  <2>4. Planned(b)'
    BY <1>0, <2>3, PlannedStays
  <2>5. Planned(baseline)'
    BY <2>1, <2>3, <2>4
  <2>6. BaselineFits(p)'
    BY <2>2 DEF Ended, BaselineFits, Running
  <2>7. QED  BY <1>0, <2>2, <2>5, <2>6, BaseliningStays DEF Ended
<1>12. CASE Fetch \/ (\E k \in Bases : BaseMoves(k)) \/ UNCHANGED vars
  BY <1>1, <1>12 DEF Fetch, BaseMoves, vars, files, exports
<1>13. QED
  BY <1>3, <1>4, <1>5, <1>6, <1>7, <1>8, <1>9, <1>10, <1>11, <1>12 DEF Next, Baseline

------------------------------------------------------------------------------
(* The cached addresses cover the state of every fresh overlay. *)

\* What a command has pulled is a state of its base now or before, as late as
\* the ETag it started with and as that of any overlay of the base.
CoverFits(p) ==
    /\ p \in Running /\ proc[p].cmd = "create" =>
          entry[proc[p].of] = Nil /\ proc[p].etag <= base[MyBase(p)]
    /\ p \in Running /\ proc[p].cmd = "rebase" =>
          /\ entry[proc[p].of] # Nil /\ entry[proc[p].of] < proc[p].etag
          /\ proc[p].etag <= base[MyBase(p)]
    /\ proc[p].pc \in HasPulled =>
          /\ proc[p].pulled.version <= base[MyBase(p)]
          /\ proc[p].cmd \in {"create", "rebase"} => proc[p].etag <= proc[p].pulled.version
          /\ \A o \in Overlays :
                BaseOf[o] = MyBase(p) /\ entry[o] # Nil => entry[o] <= proc[p].pulled.version
    /\ proc[p].cmd = "create" /\ proc[p].pc \in {"cached", "forked"} => cache = proc[p].pulled
    /\ proc[p].cmd = "create" /\ proc[p].pc = "forked" => object[proc[p].of] = proc[p].pulled
    /\ proc[p].cmd = "rebase" /\ proc[p].pc \in {"pushed", "opened", "cached"} =>
          object[proc[p].of] = proc[p].pulled
    /\ proc[p].cmd = "rebase" /\ proc[p].pc = "cached" => cache = proc[p].pulled

\* An entry is of a state that was made, of the base as it was.
EntryFits(o) ==
    entry[o] # Nil =>
        /\ object[o] \in Snapshots
        /\ entry[o] <= base[BaseOf[o]] /\ object[o].version <= base[BaseOf[o]]

Covering ==
    /\ CacheCoversForks
    /\ \A o \in Overlays : EntryFits(o)
    /\ \A p \in Procs : CoverFits(p)

LEMMA CoverTypes ==
    ASSUME Fits, NEW q \in Running
    PROVE  /\ base[MyBase(q)] \in Int
           /\ proc[q].cmd \in {"create", "rebase"} => proc[q].etag \in Int
           /\ proc[q].pc \in HasPulled => proc[q].pulled \in Snapshots /\ proc[q].pulled.version \in Int
           /\ \A o \in Overlays : entry[o] # Nil => entry[o] \in Int
<1>1. CommandFits(q) /\ MyBase(q) \in Bases
  BY RunningIs
<1>2. base[MyBase(q)] \in Int /\ \A o \in Overlays : entry[o] # Nil => entry[o] \in Int
  BY <1>1 DEF Fits, Shape, Versions
<1>3. QED  BY <1>1, <1>2 DEF CommandFits, Snapshots, Versions

LEMMA CoverFitsStays ==
    ASSUME Fits, Fits', BaseGrew, NEW q \in Procs, proc'[q] = proc[q], CoverFits(q),
           UNCHANGED entry,
           proc[q].cmd \in {"create", "rebase"} /\ q \in Running => UNCHANGED <<object, cache>>
    PROVE  CoverFits(q)'
<1>1. CASE q \notin Running
  <2>1. q \notin Running' /\ proc'[q].pc \in Ends
    BY <1>1 DEF Running, Ends
  <2>2. QED  BY <2>1 DEF CoverFits, HasPulled, Ends
<1>2. CASE q \in Running
  <2>1. /\ base[MyBase(q)] \in Int /\ base'[MyBase(q)] \in Int
        /\ base[MyBase(q)] <= base'[MyBase(q)] /\ MyBase(q)' = MyBase(q)
    BY <1>2, RunningIs DEF Fits, Shape, BaseGrew, MyBase, Versions
  <2>2. /\ proc[q].cmd \in {"create", "rebase"} => proc[q].etag \in Int
        /\ proc[q].pc \in HasPulled => proc[q].pulled.version \in Int
    BY <1>2, CoverTypes
  <2>3. QED  BY <1>2, <2>1, <2>2 DEF CoverFits, HasPulled
<1>3. QED  BY <1>1, <1>2

LEMMA EntryFitsStays ==
    ASSUME Fits, Fits', BaseGrew, NEW o \in Overlays, EntryFits(o),
           entry'[o] = entry[o], entry[o] # Nil => object'[o] = object[o]
    PROVE  EntryFits(o)'
<1>1. /\ base[BaseOf[o]] \in Int /\ base'[BaseOf[o]] \in Int
      /\ base[BaseOf[o]] <= base'[BaseOf[o]]
      /\ entry[o] # Nil => entry[o] \in Int
  BY CheckoutAssumption DEF Fits, Shape, BaseGrew, Versions
<1>2. object[o] \in Snapshots => object[o].version \in Int
  BY DEF Snapshots, Versions
<1>3. QED  BY <1>1, <1>2 DEF EntryFits

\* create and rebase run alone.
LEMMA Alone ==
    ASSUME Fits, NEW p \in Running, NEW q \in Running, p # q
    PROVE  proc[q].cmd \notin {"create", "rebase"}
BY DEF Fits, Together, Overlapping

LEMMA CoveringStays ==
    ASSUME Fits, Covering, BaseGrew, Fits', NEW p \in Procs, Others(p), UNCHANGED entry,
           UNCHANGED object \/ (p \in Running /\ proc[p].cmd \in {"create", "rebase"}),
           UNCHANGED cache \/ p \in Running,
           \A o \in Overlays : EntryFits(o)',
           CacheCoversForks', CoverFits(p)'
    PROVE  Covering'
<1>1. ASSUME NEW q \in Procs, q # p  PROVE CoverFits(q)'
  <2>1. proc'[q] = proc[q] /\ CoverFits(q)
    BY <1>1 DEF Others, Covering
  <2>2. ASSUME proc[q].cmd \in {"create", "rebase"}, q \in Running
        PROVE  UNCHANGED <<object, cache>>
    BY <1>1, <2>2, Alone
  <2>3. QED  BY <2>1, <2>2, CoverFitsStays
<1>2. QED  BY <1>1 DEF Covering

\* A cache that was, or that a step wrote, or none: a move of the base only
\* makes overlays stale.
LEMMA CoverStays ==
    ASSUME Fits, Fits', Covering, BaseGrew, UNCHANGED <<entry, object, cache>>
    PROVE  CacheCoversForks' /\ \A o \in Overlays : EntryFits(o)'
<1>1. ASSUME NEW o \in Overlays  PROVE EntryFits(o)'
  BY <1>1, EntryFitsStays DEF Covering
<1>2. ASSUME NEW o \in Overlays, entry[o] # Nil, entry[o] = base'[BaseOf[o]],
             cache # Nil, cache.of = BaseOf[o]
      PROVE  cache.version >= object[o].version
  <2>1. /\ base[BaseOf[o]] \in Int /\ base'[BaseOf[o]] \in Int
        /\ base[BaseOf[o]] <= base'[BaseOf[o]]
    BY CheckoutAssumption DEF Fits, Shape, BaseGrew, Versions
  <2>2. entry[o] = base[BaseOf[o]]
    BY <1>2, <2>1 DEF Covering, EntryFits
  <2>3. QED  BY <1>2, <2>2 DEF Covering, CacheCoversForks
<1>3. CacheCoversForks'
  BY <1>2 DEF CacheCoversForks
<1>4. QED  BY <1>1, <1>3

LEMMA StartCovers ==
    ASSUME Fits, Fits', Covering, BaseGrew, NEW p \in Procs, NEW o \in Overlays,
           CreateHead(p, o) \/ RebaseHead(p, o) \/ EvaluateMiss(p, o) \/ BaselineSha(p, o)
    PROVE  Covering'
<1>1. /\ Others(p) /\ UNCHANGED <<base, entry, object, cache>>
      /\ proc'[p].of = o /\ proc'[p].pc \in {"headed", "sha"}
  BY StartIs DEF world, overlay, files, exports
<1>2. \/ /\ proc'[p].cmd = "create" /\ entry[o] = Nil /\ proc'[p].etag = base[BaseOf[o]]
      \/ /\ proc'[p].cmd = "rebase" /\ entry[o] # Nil /\ entry[o] # base[BaseOf[o]]
         /\ proc'[p].etag = base[BaseOf[o]]
      \/ proc'[p].cmd \in {"evaluate", "baseline"}
  BY StartIs
<1>3. base[BaseOf[o]] \in Int /\ (entry[o] # Nil => entry[o] \in Int)
  BY CheckoutAssumption DEF Fits, Shape, Versions
<1>4. entry[o] # Nil => entry[o] <= base[BaseOf[o]]
  BY DEF Covering, EntryFits
<1>5. MyBase(p)' = BaseOf[o]
  BY <1>1 DEF MyBase
<1>6. CoverFits(p)'
  BY <1>1, <1>2, <1>3, <1>4, <1>5 DEF CoverFits, HasPulled
<1>7. QED  BY <1>1, <1>6, CoverStays, CoveringStays

LEMMA PullCovers ==
    ASSUME Fits, Fits', Covering, BaseGrew, NEW p \in Procs, PullBind(p) \/ Pull(p)
    PROVE  Covering'
<1>1. UNCHANGED <<base, entry, object, cache>>
  BY DEF PullBind, Pull, world, overlay, files, exports
<1>2. /\ p \in Running /\ Others(p) /\ proc[p].cmd \in {"create", "rebase", "evaluate"}
      /\ proc'[p].of = proc[p].of /\ proc'[p].cmd = proc[p].cmd /\ proc'[p].etag = proc[p].etag
      /\ proc'[p].pc \in {"bound", "pulled"}
      /\ proc'[p].pc = "pulled" => proc'[p].pulled.version = base[MyBase(p)]
  <2>1. CASE PullBind(p)
    BY <2>1, PullStepIs
  <2>2. CASE Pull(p)
    BY <2>2, PullStepIs
  <2>3. QED  BY <2>1, <2>2
<1>3. MyBase(p)' = MyBase(p) /\ CoverFits(p) /\ base[MyBase(p)] \in Int
  BY <1>2, CoverTypes DEF MyBase, Covering
<1>4. \A o \in Overlays : BaseOf[o] = MyBase(p) /\ entry[o] # Nil => entry[o] <= base[MyBase(p)]
  BY DEF Covering, EntryFits
<1>5. CoverFits(p)'
  <2>1. CASE proc'[p].pc = "bound"
    BY <1>1, <1>2, <1>3, <2>1 DEF CoverFits, HasPulled
  <2>2. CASE proc'[p].pc = "pulled"
    <3>1. /\ proc[p].cmd \in {"create", "rebase"} => proc[p].etag <= base[MyBase(p)]
      BY <1>2, <1>3 DEF CoverFits
    <3>2. base[MyBase(p)] <= base[MyBase(p)]
      BY <1>3
    <3>3. QED  BY <1>1, <1>2, <1>3, <1>4, <2>2, <3>1, <3>2 DEF CoverFits, HasPulled
  <2>3. QED  BY <1>2, <2>1, <2>2
<1>6. QED  BY <1>1, <1>2, <1>5, CoverStays, CoveringStays

\* CoverFits of a command that goes on to cache or to push.
LEMMA GotoCovers ==
    ASSUME Fits, Covering, NEW p \in Running, UNCHANGED <<base, entry>>,
           proc[p].pc \in HasPulled, proc'[p].pc \in HasPulled,
           proc'[p].of = proc[p].of, proc'[p].cmd = proc[p].cmd,
           proc'[p].pulled = proc[p].pulled, proc'[p].etag = proc[p].etag,
           proc[p].cmd = "create" /\ proc'[p].pc \in {"cached", "forked"} => cache' = proc[p].pulled,
           proc[p].cmd = "create" /\ proc'[p].pc = "forked" => object'[proc[p].of] = proc[p].pulled,
           proc[p].cmd = "rebase" /\ proc'[p].pc \in {"pushed", "opened", "cached"} =>
               object'[proc[p].of] = proc[p].pulled,
           proc[p].cmd = "rebase" /\ proc'[p].pc = "cached" => cache' = proc[p].pulled
    PROVE  CoverFits(p)'
<1>1. CoverFits(p) /\ p \in Procs /\ MyBase(p)' = MyBase(p)
  BY DEF Covering, Running, MyBase
<1>2. QED  BY <1>1 DEF CoverFits

LEMMA CacheCovers ==
    ASSUME Fits, Fits', Pulling, Covering, BaseGrew, NEW p \in Procs,
           CreateCache(p) \/ RebaseCache(p) \/ EvaluateCache(p) \/ CacheWrite(p)
    PROVE  Covering'
<1>1. UNCHANGED <<base, entry, object>>
  BY DEF CreateCache, RebaseCache, EvaluateCache, CacheOpen, CacheWrite, world, overlay
<1>2. /\ p \in Running /\ Others(p) /\ proc[p].pc \in HasPulled /\ proc'[p].pc \in HasPulled
      /\ proc'[p].of = proc[p].of /\ proc'[p].cmd = proc[p].cmd
      /\ proc'[p].pulled = proc[p].pulled /\ proc'[p].etag = proc[p].etag
  BY CacheStepIs
<1>3. \A o \in Overlays : EntryFits(o)'
  BY <1>1, EntryFitsStays DEF Covering
<1>4. CoverFits(p) /\ proc \in [Procs -> Locals]
  BY DEF Covering, Fits, Shape
<1>5. CASE CreateCache(p) \/ RebaseCache(p) \/ EvaluateCache(p)
  <2>1. cache' = Nil /\ Goto(p, "opened") /\ (proc[p].cmd = "rebase" => proc[p].pc = "pushed")
    BY <1>5 DEF CreateCache, RebaseCache, EvaluateCache, CacheOpen
  <2>2. proc'[p].pc = "opened"
    BY <2>1, GotoIs DEF Moved, Pc, Ends, HasPulled, Fits
  <2>3. CacheCoversForks'
    BY <2>1 DEF CacheCoversForks
  <2>4. CoverFits(p)'
    BY <1>1, <1>2, <1>4, <2>1, <2>2, GotoCovers DEF CoverFits
  <2>5. QED  BY <1>1, <1>2, <1>3, <2>3, <2>4, CoveringStays
<1>6. CASE CacheWrite(p)
  <2>1. cache' = proc[p].pulled /\ Goto(p, "cached") /\ proc[p].pc = "opened"
    BY <1>6 DEF CacheWrite
  <2>2. proc'[p].pc = "cached"
    BY <2>1, GotoIs DEF Moved, Pc, Ends, HasPulled, Fits
  <2>3. ASSUME NEW o \in Overlays, entry[o] # Nil, entry[o] = base[BaseOf[o]],
               proc[p].pulled.of = BaseOf[o]
        PROVE  proc[p].pulled.version >= object[o].version
    <3>1. BaseOf[o] = MyBase(p)
      BY <1>2, <2>3 DEF Pulling, PulledFits
    <3>2. entry[o] <= proc[p].pulled.version
      BY <1>2, <1>4, <2>3, <3>1 DEF CoverFits
    <3>3. object[o] \in Snapshots /\ object[o].version <= base[BaseOf[o]]
      BY <2>3 DEF Covering, EntryFits
    <3>4. object[o].version \in Int /\ proc[p].pulled.version \in Int /\ entry[o] \in Int
      BY <1>2, <2>3, <3>3, CoverTypes DEF Snapshots, Versions
    <3>5. QED  BY <2>3, <3>2, <3>3, <3>4
  <2>4. CacheCoversForks'
    BY <1>1, <2>1, <2>3 DEF CacheCoversForks
  <2>5. CoverFits(p)'
    BY <1>1, <1>2, <1>4, <2>1, <2>2, GotoCovers DEF CoverFits
  <2>6. QED  BY <1>1, <1>2, <1>3, <2>4, <2>5, CoveringStays
<1>7. QED  BY <1>5, <1>6

LEMMA PushCovers ==
    ASSUME Fits, Fits', Covering, BaseGrew, NEW p \in Procs, CreatePush(p) \/ RebasePush(p)
    PROVE  Covering'
<1>1. /\ UNCHANGED <<base, entry, cache>>
      /\ object' = [object EXCEPT ![proc[p].of] = proc[p].pulled]
      /\ \/ proc[p].cmd = "create" /\ proc[p].pc = "cached" /\ Goto(p, "forked")
         \/ proc[p].cmd = "rebase" /\ proc[p].pc = "pulled" /\ Goto(p, "pushed")
  BY DEF CreatePush, RebasePush, Push, world, files, exports
<1>2. /\ p \in Running /\ Others(p) /\ proc[p].pc \in HasPulled /\ proc'[p].pc \in HasPulled
      /\ proc'[p].of = proc[p].of /\ proc'[p].cmd = proc[p].cmd
      /\ proc'[p].pulled = proc[p].pulled /\ proc'[p].etag = proc[p].etag
  BY CacheStepIs
<1>3. proc'[p].pc = IF proc[p].cmd = "create" THEN "forked" ELSE "pushed"
  <2>1. CASE Goto(p, "forked") /\ proc[p].cmd = "create"
    BY <2>1, GotoIs DEF Moved, Pc, Ends, HasPulled, Fits
  <2>2. CASE Goto(p, "pushed") /\ proc[p].cmd = "rebase"
    BY <2>2, GotoIs DEF Moved, Pc, Ends, HasPulled, Fits
  <2>3. QED  BY <1>1, <2>1, <2>2
<1>4. /\ CoverFits(p) /\ proc[p].of \in Overlays /\ object'[proc[p].of] = proc[p].pulled
      /\ \A o \in Overlays : o # proc[p].of => object'[o] = object[o]
      /\ proc[p].pulled \in Snapshots
  BY <1>1, <1>2, RunningIs, CoverTypes DEF Covering, Fits, Shape
<1>5. /\ entry[proc[p].of] # Nil => /\ entry[proc[p].of] \in Int /\ proc[p].etag \in Int
                                    /\ base[MyBase(p)] \in Int
                                    /\ entry[proc[p].of] < proc[p].etag
                                    /\ proc[p].etag <= base[MyBase(p)]
      /\ proc[p].pulled.version <= base[MyBase(p)]
  BY <1>1, <1>2, <1>4, CoverTypes DEF CoverFits
<1>6. ASSUME NEW o \in Overlays  PROVE EntryFits(o)'
  <2>1. CASE o # proc[p].of
    BY <1>1, <1>4, <2>1, EntryFitsStays DEF Covering
  <2>2. CASE o = proc[p].of
    BY <1>1, <1>4, <1>5, <2>2 DEF EntryFits, MyBase
  <2>3. QED  BY <2>1, <2>2
<1>7. CacheCoversForks'
  <2>1. ASSUME NEW o \in Overlays, entry[o] # Nil, entry[o] = base[BaseOf[o]],
               cache # Nil, cache.of = BaseOf[o]
        PROVE  cache.version >= object'[o].version
    <3>1. o # proc[p].of
      BY <1>5, <2>1 DEF MyBase
    <3>2. QED  BY <1>4, <2>1, <3>1 DEF Covering, CacheCoversForks
  <2>2. QED  BY <1>1, <2>1 DEF CacheCoversForks
<1>8. CoverFits(p)'
  BY <1>1, <1>2, <1>3, <1>4, GotoCovers DEF CoverFits
<1>9. QED  BY <1>1, <1>2, <1>6, <1>7, <1>8, CoveringStays

LEMMA RecordCovers ==
    ASSUME Fits, Fits', Covering, BaseGrew, NEW p \in Procs, Record(p)
    PROVE  Covering'
<1>1. /\ p \in Running /\ UNCHANGED <<base, object, cache>>
      /\ entry' = [entry EXCEPT ![proc[p].of] = proc[p].etag]
      /\ \/ proc[p].cmd = "create" /\ proc[p].pc = "forked"
         \/ proc[p].cmd = "rebase" /\ proc[p].pc = "cached"
  BY DEF Record, At, Running, world, files, exports
<1>2. Ended(p)
  BY EndIs DEF Record, Fits
<1>3. /\ CoverFits(p) /\ proc[p].of \in Overlays /\ proc[p].pulled \in Snapshots
      /\ base[MyBase(p)] \in Int /\ proc[p].etag \in Int /\ proc[p].pulled.version \in Int
  BY <1>1, RunningIs, CoverTypes DEF Covering, HasPulled
<1>4. /\ cache = proc[p].pulled /\ object[proc[p].of] = proc[p].pulled
      /\ proc[p].etag <= base[MyBase(p)] /\ proc[p].pulled.version <= base[MyBase(p)]
  BY <1>1, <1>3 DEF CoverFits, HasPulled
<1>5. /\ entry'[proc[p].of] = proc[p].etag
      /\ \A o \in Overlays : o # proc[p].of => entry'[o] = entry[o]
  BY <1>1, <1>3 DEF Fits, Shape
<1>6. ASSUME NEW o \in Overlays  PROVE EntryFits(o)'
  <2>1. CASE o # proc[p].of
    BY <1>1, <1>5, <2>1, EntryFitsStays DEF Covering
  <2>2. CASE o = proc[p].of
    BY <1>1, <1>3, <1>4, <1>5, <2>2 DEF EntryFits, MyBase
  <2>3. QED  BY <2>1, <2>2
<1>7. CacheCoversForks'
  <2>1. ASSUME NEW o \in Overlays, entry'[o] # Nil, entry'[o] = base[BaseOf[o]],
               cache # Nil, cache.of = BaseOf[o]
        PROVE  cache.version >= object[o].version
    <3>1. CASE o # proc[p].of
      BY <1>5, <2>1, <3>1 DEF Covering, CacheCoversForks
    <3>2. CASE o = proc[p].of
      BY <1>3, <1>4, <3>2
    <3>3. QED  BY <3>1, <3>2
  <2>2. QED  BY <1>1, <2>1 DEF CacheCoversForks
<1>8. ASSUME NEW q \in Procs  PROVE CoverFits(q)'
  <2>1. q \notin Running' /\ proc'[q].pc \in Ends
    <3>1. CASE q = p
      BY <1>2, <3>1 DEF Ended, Running, Ends
    <3>2. CASE q # p
      <4>1. q \notin Running
        BY <1>1, <3>2, Alone
      <4>2. QED  BY <1>2, <3>2, <4>1 DEF Ended, Others, Running, Ends
    <3>3. QED  BY <3>1, <3>2
  <2>2. QED  BY <2>1 DEF CoverFits, HasPulled, Ends
<1>9. QED  BY <1>6, <1>7, <1>8 DEF Covering

LEMMA NextCovers ==
    ASSUME Fits, Pulling, Covering, [Next]_vars
    PROVE  Covering'
<1>0. Shape /\ Fits' /\ BaseGrew
  BY NextBase DEF Fits
<1>1. ASSUME UNCHANGED <<entry, object, cache, proc>>  PROVE Covering'
  <2>1. ASSUME NEW p \in Procs  PROVE CoverFits(p)'
    BY <1>0, <1>1, CoverFitsStays DEF Covering
  <2>2. QED  BY <1>0, <1>1, <2>1, CoverStays DEF Covering
<1>2. ASSUME NEW p \in Procs, Others(p), UNCHANGED <<entry, object, cache>>,
             proc'[p].pc \notin HasPulled, proc'[p].pc = "done" \/ proc'[p].cmd = "baseline"
      PROVE  Covering'
  <2>1. CoverFits(p)'
    BY <1>2 DEF CoverFits, Running, HasPulled
  <2>2. QED  BY <1>0, <1>2, <2>1, CoverStays, CoveringStays
<1>3. ASSUME NEW p \in Procs, Baseline(p)  PROVE Covering'
  <2>1. Others(p) /\ UNCHANGED <<entry, object, cache>>
    BY <1>3, BaselineStepIs DEF overlay
  <2>2. /\ proc'[p].pc \notin HasPulled
        /\ proc'[p].pc = "done" \/ proc'[p].cmd = "baseline"
    BY <1>3, BaselineStepIs DEF HasPulled, HasDir, HasCommit, HasFound
  <2>3. QED  BY <1>2, <2>1, <2>2
<1>4. ASSUME NEW p \in Procs, Stop(p)  PROVE Covering'
  BY <1>0, <1>2, <1>4, EndIs DEF Stop, Ended, overlay, files, exports, HasPulled
<1>5. CASE Fetch \/ (\E k \in Bases : BaseMoves(k)) \/ UNCHANGED vars
  BY <1>1, <1>5 DEF Fetch, BaseMoves, vars, overlay, files, exports
<1>6. ASSUME NEW p \in Procs, NEW o \in Overlays,
             CreateHead(p, o) \/ RebaseHead(p, o) \/ EvaluateMiss(p, o) \/ BaselineSha(p, o)
      PROVE  Covering'
  BY <1>0, <1>6, StartCovers
<1>7. ASSUME NEW p \in Procs,
             \/ PullBind(p) \/ Pull(p)
             \/ CreateCache(p) \/ RebaseCache(p) \/ EvaluateCache(p) \/ CacheWrite(p)
             \/ CreatePush(p) \/ RebasePush(p) \/ Record(p)
      PROVE  Covering'
  BY <1>0, <1>7, PullCovers, CacheCovers, PushCovers, RecordCovers
<1>8. QED  BY <1>3, <1>4, <1>5, <1>6, <1>7 DEF Next

------------------------------------------------------------------------------
(* The theorems. *)

IInv == Fits /\ Pulling /\ Exporting /\ Baselining /\ Covering

LEMMA InitIInv == Init => IInv
<1> SUFFICES ASSUME Init  PROVE IInv
  OBVIOUS
<1>1. Fits
  BY InitFits
<1>2. \A p \in Procs : proc[p] = Idle
  BY DEF Init
<1>3. Idle.pc = "idle" /\ Idle.cmd = Nil
  BY DEF Idle
<1>4. Pulling
  BY <1>2, <1>3 DEF Pulling, PulledFits, ForksAreOfTheirBase, HasPulled, Init
<1>5. Exporting
  <2>1. MarkedIsComplete /\ \A s \in Commits : TreeFits(s)
    BY CheckoutAssumption DEF MarkedIsComplete, TreeFits, Finished, Init, NoExport, Commits
  <2>2. baseline = Nil /\ \A p \in Procs : ExportFits(p)
    BY <1>2, <1>3 DEF ExportFits, Init, Running
  <2>3. QED  BY <2>1, <2>2 DEF Exporting
<1>6. Baselining
  BY <1>2, <1>3 DEF Baselining, BaselineFits, Init, Running
<1>7. Covering
  <2>1. ASSUME NEW p \in Procs  PROVE CoverFits(p)
    <3>1. p \notin Running /\ proc[p].pc = "idle"
      BY <1>2, <1>3 DEF Running
    <3>2. QED  BY <3>1 DEF CoverFits, HasPulled
  <2>2. CacheCoversForks /\ \A o \in Overlays : EntryFits(o)
    BY DEF CacheCoversForks, EntryFits, Init
  <2>3. QED  BY <2>1, <2>2 DEF Covering
<1>8. QED  BY <1>1, <1>4, <1>5, <1>6, <1>7 DEF IInv

LEMMA NextIInv == IInv /\ [Next]_vars => IInv'
BY NextFits, NextPulls, NextExports, NextBaselines, NextCovers DEF IInv

\* No step corrupts a file of the working copy or the state of an overlay, and
\* an overlay in the registry always has a state.
THEOREM TypeCorrect == Spec => []TypeOK
<1>1. IInv => TypeOK
  <2>1. Fits /\ Covering => \A o \in Overlays : entry[o] # Nil => object[o] # Nil
    BY NilAssumption DEF Covering, EntryFits
  <2>2. QED  BY <2>1 DEF IInv, Fits, Shape, TypeOK
<1>2. QED  BY InitIInv, NextIInv, <1>1, PTL DEF Spec

\* Overlay states are made from the base of their overlay, although the data
\* directory that the base is pulled through serves every base.
THEOREM ForksStayOnTheirBase == Spec => []ForksAreOfTheirBase
<1>1. IInv => ForksAreOfTheirBase
  BY DEF IInv, Pulling
<1>2. QED  BY InitIInv, NextIInv, <1>1, PTL DEF Spec

\* The cached addresses are never older than the base that a fresh overlay was
\* made from, wherever create and rebase stop.
THEOREM CacheIsNotOlderThanForks == Spec => []CacheCoversForks
<1>1. IInv => CacheCoversForks
  BY DEF IInv, Covering
<1>2. QED  BY InitIInv, NextIInv, <1>1, PTL DEF Spec

\* The export of the current commit, once it is marked, is the whole tree of that
\* commit, wherever exports stopped or overlapped and whenever the trunk was
\* fetched, as long as no other command has torn it.
THEOREM MarkedExportsAreComplete == Spec => []MarkedIsComplete
<1>1. IInv => MarkedIsComplete
  BY DEF IInv, Exporting
<1>2. QED  BY InitIInv, NextIInv, <1>1, PTL DEF Spec

\* A baseline that is found in the cache was planned on the base it is looked up
\* with and from the commit it is looked up with, or on later ones of them; on and
\* from these exactly, and from the whole tree, as long as they are current and
\* no other command has torn the export.
THEOREM BaselinesAreOfTheirKey == Spec => []BaselineIsOfItsKey
<1>1. IInv => BaselineIsOfItsKey
  <2> SUFFICES ASSUME IInv, NEW p \in Procs, At(p, "baseline", "etag"), Cached(Key(p))
               PROVE  /\ baseline.on.of = MyBase(p)
                      /\ baseline.on.version >= proc[p].etag
                      /\ base[MyBase(p)] = proc[p].etag => baseline.on.version = proc[p].etag
                      /\ baseline.tree >= proc[p].sha
                      /\ (trunk = proc[p].sha /\ ~torn) =>
                             baseline.complete /\ baseline.tree = trunk
    BY DEF BaselineIsOfItsKey
  <2>1. /\ p \in Running /\ Fits /\ Planned(baseline) /\ OfTree(baseline)
        /\ baseline \in Baselines
    BY DEF At, Running, IInv, Baselining, Exporting, Cached, Fits, Shape
  <2>2. baseline.sha = proc[p].sha /\ baseline.etag = Snapshot(MyBase(p), proc[p].etag)
    BY DEF Cached, Key
  <2>3. baseline.etag.of = MyBase(p) /\ baseline.etag.version = proc[p].etag
    BY <2>2 DEF Snapshot
  <2>4. baseline.on.version \in Int /\ baseline.etag.version \in Int
    BY <2>1 DEF Baselines, Snapshots, Versions
  <2>5. MyBase(p) \in Bases /\ base[MyBase(p)] \in Int
    BY <2>1, RunningIs DEF Fits, Shape, Versions
  <2>6. /\ baseline.on.of = MyBase(p) /\ baseline.on.version >= proc[p].etag
        /\ base[MyBase(p)] = proc[p].etag => baseline.on.version = proc[p].etag
    BY <2>1, <2>3, <2>4, <2>5 DEF Planned
  <2>7. baseline.sha \in Int /\ baseline.tree \in Int
    BY <2>1 DEF Baselines, Commits
  <2>8. baseline.tree >= proc[p].sha
    BY <2>1, <2>2, <2>7 DEF OfTree
  <2>9. trunk = proc[p].sha /\ ~torn => baseline.complete /\ baseline.tree = trunk
    BY <2>1, <2>2 DEF OfTree
  <2>10. QED  BY <2>6, <2>8, <2>9
<1>2. QED  BY InitIInv, NextIInv, <1>1, PTL DEF Spec

==============================================================================
