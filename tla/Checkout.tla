------------------------------ MODULE Checkout -------------------------------
(***************************************************************************)
(* The files of one working copy, .tofu-overlay/ in an environment         *)
(* directory, and the commands that read and write them:                   *)
(*                                                                         *)
(*   _base/base_addresses.json  addresses of the base, written by create   *)
(*                              and rebase, read by every policy check     *)
(*   _base/trunk_baseline.json  what a plan of the trunk would change,     *)
(*                              under the trunk commit and the base ETag   *)
(*   _trunk/<sha>/              the exported tree of the trunk             *)
(*   _base/, _trunk-data/       data directories of tofu, each bound to    *)
(*                              the backend key it was initialised for     *)
(*                                                                         *)
(* A command is a process of several steps, and may crash at any of them.  *)
(* Files are written in place, so a crash or another command can meet a    *)
(* file that is cut short; it is then read as if it were not there.        *)
(*                                                                         *)
(* The bases (the directory may serve several, chosen with --key or        *)
(* --backend-config) and origin/<trunk> are external: they move at any     *)
(* time, forward.  The version of a base is its ETag and its content.      *)
(***************************************************************************)
EXTENDS Integers, FiniteSets

CONSTANTS
    Bases,        \* keys of the base states worked on from this directory
    Overlays,     \* overlays worked on from this directory
    BaseOf,       \* the base of each overlay
    Procs,        \* bound: commands that are run
    Concurrent,   \* bound: commands that run at a time
    Moving,       \* bound: the bases that change
    MaxVersion,   \* bound: versions of a base
    MaxTrunk,     \* bound: commits of the trunk
    Nil

ASSUME CheckoutAssumption ==
    /\ BaseOf \in [Overlays -> Bases]
    /\ Moving \subseteq Bases
    /\ MaxVersion \in Nat /\ MaxTrunk \in Nat
    /\ Concurrent \in Nat
    /\ Nil \notin Bases \cup Int

VARIABLES
    base,      \* version of each base
    trunk,     \* the commit of origin/<trunk> as last fetched
    entry,     \* ETag of the base in the registry entry of each overlay, or Nil
    object,    \* the base state each overlay state was made from, or Nil
    cache,     \* the cached addresses: those of which base state, or Nil
    baseline,  \* the cached baseline, or Nil
    export,    \* what there is in the directory of each commit
    torn,      \* history: a command has taken files from the export of the current
               \* commit that another had made
    bound,     \* the backend key each data directory is initialised for, or Nil
    proc       \* locals and program counter of each command

world == <<base, trunk>>
overlay == <<entry, object>>
exports == <<export, torn>>
files == <<cache, baseline, exports, bound>>
vars == <<world, overlay, files, proc>>

------------------------------------------------------------------------------

Versions == 0..MaxVersion
Commits == 0..MaxTrunk

\* A base state: which base, at which version.
Snapshot(k, v) == [of |-> k, version |-> v]
Snapshots == [of: Bases, version: Versions]

ASSUME NilAssumption == Nil \notin Snapshots

\* An export: a repository, its origin set to the URL of the real one, files of
\* a commit (Nil: no files), all of them or some, and the marker.
Exports == [git: BOOLEAN, origin: BOOLEAN, tree: Commits \cup {Nil}, whole: BOOLEAN,
            marker: BOOLEAN]
NoExport == [git |-> FALSE, origin |-> FALSE, tree |-> Nil, whole |-> FALSE, marker |-> FALSE]

\* A baseline is stored under sha and etag; it was planned from a tree, which
\* may be incomplete, on a base state.
Baselines == [sha: Commits, etag: Snapshots, tree: Commits, complete: BOOLEAN, on: Snapshots]

Idle == [cmd |-> Nil, pc |-> "idle", of |-> Nil, etag |-> Nil, pulled |-> Nil,
         sha |-> Nil, dir |-> Nil, commit |-> Nil, found |-> Nil]

DataDirs == {"_base", "_trunk-data"}

TypeOK ==
    /\ base \in [Bases -> Versions] /\ trunk \in Commits
    /\ entry \in [Overlays -> Versions \cup {Nil}]
    /\ object \in [Overlays -> Snapshots \cup {Nil}]
    /\ cache \in Snapshots \cup {Nil}
    /\ baseline \in Baselines \cup {Nil}
    /\ export \in [Commits -> Exports] /\ torn \in BOOLEAN
    /\ bound \in [DataDirs -> Bases \cup {Nil}]
    /\ \A o \in Overlays : entry[o] # Nil => object[o] # Nil
    /\ DOMAIN proc = Procs

Init ==
    /\ base = [k \in Bases |-> 0] /\ trunk = 0
    /\ entry = [o \in Overlays |-> Nil] /\ object = [o \in Overlays |-> Nil]
    /\ cache = Nil /\ baseline = Nil
    /\ export = [s \in Commits |-> NoExport] /\ torn = FALSE
    /\ bound = [d \in DataDirs |-> Nil]
    /\ proc = [p \in Procs |-> Idle]

------------------------------------------------------------------------------

\* Restriction: what may run while another command does.  create and rebase run
\* alone.
Overlapping == {"evaluate", "baseline"}

Running == {p \in Procs : proc[p].pc \notin {"idle", "done"}}

MyBase(p) == BaseOf[proc[p].of]

\* Commands that overlap are of the kinds in Overlapping, and of one base.
Begin(p, cmd, o, locals) ==
    /\ proc[p].pc = "idle" /\ Cardinality(Running) < Concurrent
    /\ \A q \in Running :
          {cmd, proc[q].cmd} \subseteq Overlapping /\ MyBase(q) = BaseOf[o]
    /\ proc' = [proc EXCEPT ![p] = locals]

At(p, cmd, pc) == proc[p].cmd = cmd /\ proc[p].pc = pc

Goto(p, pc) == proc' = [proc EXCEPT ![p].pc = pc]

\* A process runs one command.
Return(p) == proc' = [proc EXCEPT ![p] = [Idle EXCEPT !.pc = "done"]]

\* The command returns, fails or crashes.
Stop(p) ==
    /\ p \in Running
    /\ Return(p)
    /\ UNCHANGED <<world, overlay, files>>

\* Mutant: any initialised data directory will do.
NeedsInit_AnyKey(dir, k) == bound[dir] = Nil

NeedsInit(dir, k) == bound[dir] # k

\* _base_runner and _trunk_runner: init unless the directory is bound to the
\* key of the base.
Bind(p, dir) == bound' = [bound EXCEPT ![dir] = IF NeedsInit(dir, MyBase(p)) THEN MyBase(p) ELSE @]

\* What tofu reads is what the data directory is bound to.
Seen(dir) == Snapshot(bound[dir], base[bound[dir]])

------------------------------------------------------------------------------
(* create and rebase *)

CreateHead(p, o) ==
    /\ entry[o] = Nil
    /\ Begin(p, "create", o, [Idle EXCEPT !.cmd = "create", !.pc = "headed", !.of = o,
                                          !.etag = base[BaseOf[o]]])
    /\ UNCHANGED <<world, overlay, files>>

RebaseHead(p, o) ==
    /\ entry[o] # Nil /\ entry[o] # base[BaseOf[o]]
    /\ Begin(p, "rebase", o, [Idle EXCEPT !.cmd = "rebase", !.pc = "headed", !.of = o,
                                          !.etag = base[BaseOf[o]]])
    /\ UNCHANGED <<world, overlay, files>>

\* _pull_base, in every command: the data directory, then the state.
PullBind(p) ==
    /\ proc[p].pc = "headed"
    /\ Bind(p, "_base")
    /\ Goto(p, "bound")
    /\ UNCHANGED <<world, overlay, cache, baseline, exports>>

Pull(p) ==
    /\ proc[p].pc = "bound"
    /\ proc' = [proc EXCEPT ![p].pc = "pulled", ![p].pulled = Seen("_base")]
    /\ UNCHANGED <<world, overlay, files>>

\* _write_base_cache: the file is opened, then written.
CacheOpen(p, from) ==
    /\ proc[p].pc = from
    /\ cache' = Nil
    /\ Goto(p, "opened")
    /\ UNCHANGED <<world, overlay, baseline, exports, bound>>

CacheWrite(p) ==
    /\ proc[p].pc = "opened"
    /\ cache' = proc[p].pulled
    /\ Goto(p, "cached")
    /\ UNCHANGED <<world, overlay, baseline, exports, bound>>

Push(p, from, to) ==
    /\ proc[p].pc = from
    /\ object' = [object EXCEPT ![proc[p].of] = proc[p].pulled]
    /\ Goto(p, to)
    /\ UNCHANGED <<world, entry, files>>

\* create caches, then pushes; rebase pushes, then caches.
CreateCache(p) == proc[p].cmd = "create" /\ CacheOpen(p, "pulled")
CreatePush(p)  == proc[p].cmd = "create" /\ Push(p, "cached", "forked")
RebasePush(p)  == proc[p].cmd = "rebase" /\ Push(p, "pulled", "pushed")
RebaseCache(p) == proc[p].cmd = "rebase" /\ CacheOpen(p, "pushed")

\* Mutant: the entry is written before the cache.
Record_BeforeCache(p) ==
    /\ At(p, "create", "forked") \/ At(p, "rebase", "pushed")
    /\ entry' = [entry EXCEPT ![proc[p].of] = proc[p].etag]
    /\ Return(p)
    /\ UNCHANGED <<world, object, files>>

\* Mutant: create records before it pushes.
Record_BeforePush(p) ==
    /\ At(p, "create", "cached") \/ At(p, "rebase", "cached")
    /\ entry' = [entry EXCEPT ![proc[p].of] = proc[p].etag]
    /\ Return(p)
    /\ UNCHANGED <<world, object, files>>

\* The registry entry, with the ETag read at first.
Record(p) ==
    /\ At(p, "create", "forked") \/ At(p, "rebase", "cached")
    /\ entry' = [entry EXCEPT ![proc[p].of] = proc[p].etag]
    /\ Return(p)
    /\ UNCHANGED <<world, object, files>>

------------------------------------------------------------------------------
(* The policy check of plan, apply, merge: _base_addresses *)

\* What is cached is used, whatever it is, and nothing changes.  If nothing is
\* cached the base is pulled as above; the ETag is only written, never compared.
EvaluateMiss(p, o) ==
    /\ entry[o] # Nil /\ cache = Nil
    /\ Begin(p, "evaluate", o, [Idle EXCEPT !.cmd = "evaluate", !.pc = "headed", !.of = o])
    /\ UNCHANGED <<world, overlay, files>>

EvaluateCache(p) == proc[p].cmd = "evaluate" /\ CacheOpen(p, "pulled")

------------------------------------------------------------------------------
(* trunk_baseline *)

BaselineSha(p, o) ==
    /\ Begin(p, "baseline", o, [Idle EXCEPT !.cmd = "baseline", !.pc = "sha", !.of = o,
                                            !.sha = trunk])
    /\ UNCHANGED <<world, overlay, files>>

BaselineHead(p) ==
    /\ At(p, "baseline", "sha")
    /\ proc' = [proc EXCEPT ![p].pc = "etag", ![p].etag = base[MyBase(p)]]
    /\ UNCHANGED <<world, overlay, files>>

Key(p) == <<proc[p].sha, Snapshot(MyBase(p), proc[p].etag)>>

Cached(key) == baseline # Nil /\ <<baseline.sha, baseline.etag>> = key

\* What is cached under the key is the result.
BaselineHit(p) ==
    /\ At(p, "baseline", "etag") /\ Cached(Key(p))
    /\ Return(p)
    /\ UNCHANGED <<world, overlay, files>>

\* ensure_trunk_export reads the commit again: the directory of the export.
BaselineMiss(p) ==
    /\ At(p, "baseline", "etag") /\ ~Cached(Key(p))
    /\ proc' = [proc EXCEPT ![p].pc = "miss", ![p].dir = trunk]
    /\ UNCHANGED <<world, overlay, files>>

\* Mutant: a repository is taken for a finished export.
Finished_Unmarked(e) == e.git

Finished(e) == e.git /\ e.marker

ExportFound(p) ==
    /\ At(p, "baseline", "miss") /\ Finished(export[proc[p].dir])
    /\ Goto(p, "exported")
    /\ UNCHANGED <<world, overlay, files>>

\* export_trunk_tree reads it once more: the commit that is checked out.
ExportCommit(p) ==
    /\ At(p, "baseline", "miss") /\ ~Finished(export[proc[p].dir])
    /\ proc' = [proc EXCEPT ![p].pc = "commit", ![p].commit = trunk]
    /\ UNCHANGED <<world, overlay, files>>

\* An export that was removed, or of which a part is left: the removal is under
\* way or was interrupted, or an error was ignored.
Removed(e) ==
    {left \in Exports :
        \/ left = NoExport
        \/ /\ left.tree = e.tree /\ ~left.whole
           /\ (left.git => e.git) /\ left.origin = (left.git /\ e.origin)
           /\ (left.marker => e.marker)}

\* A repository is taken as it is.
ExportRepository(p) ==
    /\ At(p, "baseline", "commit")
    /\ Goto(p, IF export[proc[p].dir].git THEN "cloned" ELSE "clear")
    /\ UNCHANGED <<world, overlay, files>>

\* Anything else is removed.  By then it may be the repository of another command.
ExportClear(p) ==
    LET d == proc[p].dir
    IN  /\ At(p, "baseline", "clear") /\ export[d] # NoExport
        /\ \E left \in Removed(export[d]) : export' = [export EXCEPT ![d] = left]
        /\ torn' = (torn \/ (d = trunk /\ export[d].git))
        /\ UNCHANGED <<world, overlay, cache, baseline, bound, proc>>

\* A clone without files, whose origin is this working copy; git wants no files
\* in its place.
ExportClone(p) ==
    LET d == proc[p].dir
    IN  /\ At(p, "baseline", "clear") /\ export[d] = NoExport
        /\ export' = [export EXCEPT ![d].git = TRUE]
        /\ Goto(p, "copied")
        /\ UNCHANGED <<world, overlay, cache, baseline, torn, bound>>

\* remote set-url, of a new clone only.  Where the repository was removed since,
\* git takes the one around it, this working copy, whose URL stays as it is.
ExportOrigin(p) ==
    LET d == proc[p].dir
    IN  /\ At(p, "baseline", "copied") /\ export[d] # NoExport
        /\ export' = [export EXCEPT ![d].origin = export[d].git]
        /\ Goto(p, "cloned")
        /\ UNCHANGED <<world, overlay, cache, baseline, torn, bound>>

\* checkout --force: files appear one after the other; those there stay if they
\* are of the same commit.
ExportCheckout(p) ==
    LET d == proc[p].dir
        c == proc[p].commit
    IN  /\ At(p, "baseline", "cloned") /\ export[d].git
        /\ \/ export' = [export EXCEPT ![d].tree = c, ![d].whole = @ /\ export[d].tree = c]
              /\ UNCHANGED proc
           \/ export' = [export EXCEPT ![d].tree = c, ![d].whole = TRUE]
              /\ Goto(p, "checked out")
        /\ UNCHANGED <<world, overlay, cache, baseline, torn, bound>>

\* Where the repository was removed since, it is the working copy around it that
\* is checked out.
ExportCheckoutAround(p) ==
    LET e == export[proc[p].dir]
    IN  /\ At(p, "baseline", "cloned") /\ ~e.git /\ e # NoExport
        /\ Goto(p, "checked out")
        /\ UNCHANGED <<world, overlay, files>>

ExportMark(p) ==
    LET d == proc[p].dir
    IN  /\ At(p, "baseline", "checked out") /\ export[d] # NoExport
        /\ export' = [export EXCEPT ![d].marker = TRUE]
        /\ Goto(p, "exported")
        /\ UNCHANGED <<world, overlay, cache, baseline, torn, bound>>

\* _prune keeps the directory of one commit.
Stale(d) == Commits \ {d}

ExportPrune(p) ==
    /\ At(p, "baseline", "exported")
    /\ \E s \in Stale(proc[p].dir) :
          /\ export[s] # NoExport
          /\ \E left \in Removed(export[s]) : export' = [export EXCEPT ![s] = left]
          /\ torn' = (torn \/ s = trunk)
    /\ UNCHANGED <<world, overlay, cache, baseline, bound, proc>>

\* The directory of the environment has to be there.
TrunkBind(p) ==
    /\ At(p, "baseline", "exported") /\ export[proc[p].dir].tree # Nil
    /\ Bind(p, "_trunk-data")
    /\ Goto(p, "trunk bound")
    /\ UNCHANGED <<world, overlay, cache, baseline, exports>>

TrunkPlan(p) ==
    /\ At(p, "baseline", "trunk bound") /\ export[proc[p].dir].tree # Nil
    /\ proc' = [proc EXCEPT ![p] =
          [Idle EXCEPT
              !.cmd = "baseline", !.pc = "planned", !.of = proc[p].of,
              !.found = [sha |-> proc[p].sha, etag |-> Snapshot(MyBase(p), proc[p].etag),
                         tree |-> export[proc[p].dir].tree,
                         complete |-> export[proc[p].dir].whole,
                         on |-> Seen("_trunk-data")]]]
    /\ UNCHANGED <<world, overlay, files>>

BaselineOpen(p) ==
    /\ At(p, "baseline", "planned")
    /\ baseline' = Nil
    /\ Goto(p, "writing")
    /\ UNCHANGED <<world, overlay, cache, exports, bound>>

\* Mutant: the cache is keyed by what is current when it is written.
BaselineWrite_KeyNow(p) ==
    /\ At(p, "baseline", "writing")
    /\ baseline' = [proc[p].found EXCEPT !.etag = Snapshot(MyBase(p), base[MyBase(p)])]
    /\ Return(p)
    /\ UNCHANGED <<world, overlay, cache, exports, bound>>

BaselineWrite(p) ==
    /\ At(p, "baseline", "writing")
    /\ baseline' = proc[p].found
    /\ Return(p)
    /\ UNCHANGED <<world, overlay, cache, exports, bound>>

Baseline(p) ==
    \/ BaselineHead(p) \/ BaselineHit(p) \/ BaselineMiss(p)
    \/ ExportFound(p) \/ ExportCommit(p)
    \/ ExportRepository(p) \/ ExportClear(p) \/ ExportClone(p) \/ ExportOrigin(p)
    \/ ExportCheckout(p) \/ ExportCheckoutAround(p) \/ ExportMark(p) \/ ExportPrune(p)
    \/ TrunkBind(p) \/ TrunkPlan(p) \/ BaselineOpen(p) \/ BaselineWrite(p)

------------------------------------------------------------------------------

BaseMoves(k) ==
    /\ k \in Moving /\ base[k] < MaxVersion
    /\ base' = [base EXCEPT ![k] = @ + 1]
    /\ UNCHANGED <<trunk, overlay, files, proc>>

\* git fetch, by anybody at any time.
Fetch ==
    /\ trunk < MaxTrunk
    /\ trunk' = trunk + 1 /\ torn' = FALSE
    /\ UNCHANGED <<base, overlay, cache, baseline, export, bound, proc>>

Next ==
    \/ \E p \in Procs :
        \/ \E o \in Overlays :
              \/ CreateHead(p, o) \/ RebaseHead(p, o)
              \/ EvaluateMiss(p, o) \/ BaselineSha(p, o)
        \/ PullBind(p) \/ Pull(p) \/ CacheWrite(p)
        \/ CreateCache(p) \/ CreatePush(p) \/ RebasePush(p) \/ RebaseCache(p) \/ Record(p)
        \/ EvaluateCache(p) \/ Baseline(p) \/ Stop(p)
    \/ \E k \in Bases : BaseMoves(k)
    \/ Fetch

Spec == Init /\ [][Next]_vars

------------------------------------------------------------------------------

\* An overlay state is made from the base of its overlay, although the data
\* directory it was pulled through is shared between bases (needs_init,
\* ensure_backend_key).
ForksAreOfTheirBase == \A o \in Overlays : object[o] # Nil => object[o].of = BaseOf[o]

\* The addresses by which the plan of a fresh overlay is judged are not older
\* than the base its state was made from: else what is in the base would pass
\* for a resource of its own (create and rebase cache before they record).
CacheCoversForks ==
    \A o \in Overlays :
        (entry[o] # Nil /\ entry[o] = base[BaseOf[o]] /\ cache # Nil /\ cache.of = BaseOf[o])
            => cache.version >= object[o].version

\* A baseline found in the cache was planned on the base of the ETag it is looked
\* up with, or on a later state of that base, and from the commit it is looked up
\* with or a later one: the exact ones, and from the whole tree, as long as those
\* are current.  The commit is read three times on the way, the trunk and the base
\* move in between, plans and exports overlap and stop at any step.  An export torn
\* by another command is left out (README, known behaviours).
BaselineIsOfItsKey ==
    \A p \in Procs :
        (At(p, "baseline", "etag") /\ Cached(Key(p))) =>
            /\ baseline.on.of = MyBase(p)
            /\ baseline.on.version >= proc[p].etag
            /\ base[MyBase(p)] = proc[p].etag => baseline.on.version = proc[p].etag
            /\ baseline.tree >= proc[p].sha
            /\ (trunk = proc[p].sha /\ ~torn) => baseline.complete /\ baseline.tree = trunk

\* The export of the current commit, once it is marked, is the whole tree of that
\* commit: wherever an export stopped, whoever made one at the same time, and
\* whenever the trunk was fetched, as long as no other command has torn it.
MarkedIsComplete ==
    (Finished(export[trunk]) /\ ~torn) => export[trunk].whole /\ export[trunk].tree = trunk

==============================================================================
