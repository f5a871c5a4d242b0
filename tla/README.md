# Verification of tofu-overlay

tofu-overlay lets a branch work on a *fork* of an OpenTofu state: an overlay is a copy of
the base state under a key of its own, plus an entry in a registry document that says which
resources the overlay creates or changes. Several people and CI jobs run its commands at
the same time, against an object store that only offers conditional writes, around a tool
(OpenTofu) with locks and serials of its own, while the trunk pipeline moves the base.

This directory holds TLA+ models of that core, the TLC runs that check them and TLAPS
proofs about them. `PROJECT.json` maps every definition to the lines it models.

## Inventory

| Component | State | Operations | Interacts with |
|---|---|---|---|
| Registry (`registry.py`) | one JSON document: entries (status, run, base ETag, claims), tombstones | `load`, `update` (CAS loop) and the callbacks `acquire_claims`, `finish_apply`, `set_status`, `release_overlay`, and create's two | every command; the store |
| Object store (`store.py`, `s3state.py`) | objects, ETags, digest items, lock markers | `get_json`, `put_json`, `head`, `copy`, `delete` | registry, archive, freshness |
| Overlay commands (`overlay.py`) | locals between steps | `create`, `plan`, `apply`, `rebase`, `abandon`, `finalize`; read-only `status`, `list`, `check`, `doctor`; `gc` | registry, tofu, store |
| Import merge (`merge.py`) | the imports file of the worktree | `merge`, `merge --undo`, `verify`, `guard` | registry, tofu, trunk |
| Plan policy (`plan.py`, `identity.py`) | working set of one evaluation | `evaluate`, `gate_targeted_plan`, `verify_import_plan`, `guard_trunk_plan` | `plan`, `apply`, `merge`, `guard` |
| State documents (`state.py`) | none (pure) | `fork`, `inject_instances`, `bump_serial`, `remove_addresses` | `create`, `rebase` |
| Base cache, trunk baseline (`overlay.py`, `trunk.py`) | cache files keyed by ETag and sha, a checkout of the trunk | refresh, plan the trunk | `plan`, `merge` |
| Remote state links (`overlay.py`) | none | find overlays of sibling stacks | tofu environment, `finalize` |
| Tofu runner (`tofu.py`) | data directories | `plan`, `apply`, `state pull/push/rm` | everything that touches a state |
| Backend, configuration, command line (`backend.py`, `config.py`, `cli.py`, `output.py`) | none that outlives a command | parsing, formatting | |

What makes each correct:

* Registry: live overlays never claim the same address, nor start an apply with the same
  known identity; claims last until the overlay is finalized or abandoned; only the current
  run reports; the CAS loop is as good as an atomic mutation and ends.
* Commands: no cloud object is lost, none the trunk owns is destroyed, a frozen overlay
  stays frozen, a fresh overlay is built on the current base, the entry and the object
  agree on the lineage, at any interleaving and after a crash at any step.
* Policy: overlays are additive whatever plans pass; what an overlay created or changed is
  under a claim; the base does not turn against live claims while the trunk is guarded; a
  verified merge adopts every create claim and takes nothing away.
* State documents: forks keep every instance, a rebuilt state holds base plus own.
* Caches: what is read under a key is what was computed for it.
* Remote links: a run reads overlays that are there; a finalize takes no input away.

The hard behaviours are the races between two commands of one overlay (each gates on the
status once, then works for minutes), applies that outlive their timeout, lost answers of
conditional writes, crashes between the writes of one command, and the order of ETag reads
and pulls. `PROJECT.json` lists them as hazards, each at its line.

## Modules

* `RegistryDoc`: the document and every mutation callback as operators, each with an
  `XxxRefused` (the callback raises) and an `Xxx` (the document it returns). No variables.
  Shared by the three state machines below, so that all of them run the same callbacks.
* `ClaimRegistry`: the abstract registry. Every mutation is one atomic step, and *no
  assumption* is made on which commands run together: any mutation may come at any time.
  `calls` holds the locals of `_apply_planned` between `acquire_claims` and `finish_apply`.
* `RegistryCas`: `Registry.update` in detail. Per client: load, callback, conditional PUT,
  conflict, retry, last look (`_already_applied`). The store may refuse for no reason (409),
  or land a write and lose its answer. `UpdatesAreAtomic` is the refinement of
  `ClaimRegistry` (`doc` and `expired` map to themselves, `calls` to what its clients carry;
  a landing PUT is the atomic step, everything else stutters).
* `OverlayLifecycle`: all mutating commands of one overlay as processes, with the state
  object, its lock, the base, the cloud and the imports file. The registry updates are
  atomic here, which `RegistryCas` justifies; several overlays are `ClaimRegistry`'s business.
* `PlanPolicy`: `evaluate`, `_classify_drift`, `gate_targeted_plan`, `verify_import_plan` and
  `guard_trunk_plan` as operators on plans. A change keeps what the policy looks at; an
  evaluation is a fold over the plan in its order, with the working set of `_Evaluation`.
* `PolicedApply` EXTENDS it: what the policy lets through is carried out. One overlay with
  its claims and its state (addresses of the fork, addresses there now, deposed objects),
  the base, what the trunk has committed and not applied (`lag`), and a cache of the base
  addresses per checkout. A plan is any consistent set of at most `MaxChanges` changes tofu
  could propose, besides the deposed objects every plan has; tofu carries out all of it or a
  part. The base moves between plan and run, and between a
  merge and the trunk pipeline that carries it out.
* `StateDoc` EXTENDS `PlanPolicy`: the documents themselves. Resources with a provider,
  current and deposed instances with a schema version, each standing for an object outside.
  `fork`, `inject_instances` with its three refusals, `_build_rebased`, `tofu state rm` and
  the destroy plan of abandon, while tofu writes both documents, replaces with interruptions
  and upgrades schemas. What `apply` lets through is `Evaluate`'s business.
* `Checkout`: the files of one working copy: cached base addresses, cached trunk baseline,
  exported trunk trees with marker and pruning, and the tofu data directories with the
  backend key they are bound to. `create`, `rebase`, `plan` (the address cache) and
  `trunk_baseline` step by step, over several bases worked on from one directory. Files are
  truncated when opened, so a crash or a second command meets half a file. `trunk_baseline`
  reads the commit of the trunk three times, for the key of the cache (`BaselineSha`), for
  the directory of the export (`BaselineMiss`) and for the checkout (`ExportCommit`), and a
  `git fetch` falls anywhere between (`Fetch`). An export is a clone, its origin, its files,
  which appear and vanish in parts, and the marker, each a step of its own. `torn` records
  that a command has taken files from the export of the current commit.
* `RemoteLinks`: the overlays of one name on several stacks that read each other's states:
  `TF_VAR_tofu_overlay_keys` as a run computes it, what a run has read, and what `finalize`
  reports to the stacks that read the one it finalizes.
* `ClaimRegistryProofs`, `RegistryCasProofs`, `CheckoutProofs`, `RemoteLinksProofs`,
  `OverlayLifecycleProofs`, `PlanPolicyProofs`, `PolicedApplyProofs`, `StateDocProofs`: the
  theorems.
* `MCxxx` gives the constants of a module their values, with the symmetry that is sound.

How the models read:

* A document stands for its own ETag; a write of the same content is no write, as in
  `update`. `tool_version`, owners, commits, summaries and dates are left out; that two
  dates differ only matters to the second in `expect_entry`, whose comparison is on the
  whole entry here as well.
* `id` stands for the pair `id`/`import_id`, learned and kept together by `_merge_claim`.
* `expired` replaces the clock: an apply in progress may get older than
  `apply_timeout_min` at any time (`Timeout`).
* In `OverlayLifecycle` the id of a cloud object is the apply that created it, a lineage
  the create that pushed it, and the version of the base is both its ETag and its serial.
  The base is never empty, so `state rm` always has something to remove, and a fork without
  its base content (version 0) cannot be planned on. The trunk pipeline passes over import
  blocks of addresses it already has.
* A command that refuses, fails, is declined, or crashes does nothing more: `Stop`. The
  guards of the other actions are the conditions under which the code goes on. Only what
  the code does on failure is modelled apart: `finish_apply` after a failed tofu apply, a
  destroy that stops half way. Two reads with no effect between them are one step where
  only one of them can be contradicted later (`RebaseRead`, `AbandonCheck`).
* Only `create` claims exist in `OverlayLifecycle`: an `update` claim changes no object of
  the overlay's own. `ClaimRegistry`, `PolicedApply` and `StateDoc` have both kinds or pass
  over updates.
* In `PolicedApply` and `StateDoc` a command is one step (the interleavings are
  `OverlayLifecycle`'s). In `PolicedApply` a plan is matched with a baseline that is what
  the trunk would update, or nothing, as when the trunk cannot be exported. Left out there:
  `--allow-stale`, abandon, other overlays and identities (`ClaimRegistry`), claims acquired
  between the guard and the apply of the trunk, and moves in trunk plans. A pure rename of an
  own resource is never applied by the code (`_has_changes` counts no moves) nor by the model.
  `--accept-recreate` is modelled in `PolicedApply`, not in `OverlayLifecycle`: finalize
  names the overlay's own copy as orphaned then (overlay.py:1562) and leaves it to the operator.
* In `Checkout` a `create` or `rebase` does not overlap with another command of the same
  directory; `plan` and `trunk_baseline` overlap with each other in every order as long as
  they are of one base, since they would bind the data directory under each other. A `git
  fetch` falls anywhere. The trunk only moves forward, the repository has an `origin`, and
  left out are git's own lock files, a clone that stops half way, and untracked files that an
  interrupted checkout of another commit leaves.
* Three pairs of steps of the code are one step here, where the properties cannot tell them
  apart: `CreateRegister` looks for the object of the overlay and registers the entry
  (overlay.py:859-861; only two creators could fall between, and the runs have one);
  `ApplyPlan` makes the reads of overlay.py:992-1005; the imports file appears with the
  freeze in `MergeFreeze`, although it is written before the verification (merge.py:219).
* In `RemoteLinks` one command at a time runs on a stack, every name is used once, resources
  are only added, and the registries of other stacks can be read.
* `_check_base_lineage` (status `needs_review`) is not modelled: a base replaced by one of
  another lineage stops every command.

## Runs

| Run | Shows | Bounds |
|---|---|---|
| `registry_addresses` | claims stay disjoint, live until released; runs accounted for; superseded runs silent | 2 overlays, 2 addresses, 2 applies, both kinds |
| `registry_identities` | no apply starts with a create identity in use; what a claim learned is kept | 2 overlays, 2 addresses, 2 applies, one identity, so that overlays collide |
| `cas_refinement` | the CAS loop implements the atomic registry, ends, and register, flip, acquire and release converge after a lost answer | 1 apply, 1 process running any commands, 2 attempts, 1 lost answer |
| `lifecycle_sequential` | crash safety: nothing lost, nothing of the trunk destroyed, no state without an entry, lineage right; freshness means built on that base or later | 5 commands of any kind, one at a time, 3 base versions, the base moving at any step |
| `lifecycle_takeover` | late applies are harmless | 4 commands, 3 at a time, 2 base versions |
| `policy` | the policy keeps overlays additive and everything claimed; verified merges pass the guard and adopt | 1 base and 2 other addresses, plans of 2 changes, deposed objects, 3 base versions |
| `state_doc` | no object is lost, none of the base is destroyed, a rebuild is base plus claimed instances and readable | 1 base address, 2 of the branch (one in the resource of the base, one in its own), 2 providers, 2 schema versions, base serial 2, overlay serial 3 |
| `checkout` | forks are of their base, caches not older than forks, baselines of their key, marked exports whole | 2 bases, 2 overlays, 3 commands, 2 at a time, base and trunk move once, at any time |
| `remote_links` | runs fall back to the base, a finalize keeps or reports what consumers read | 2 stacks reading each other, one also its own base, 2 outputs |

Two overlays and two addresses are enough for a conflict and for a claim that is not in
conflict; two applies for a takeover, since a third would meet an entry in one of the
states the second met. Two attempts of `update` give a retry, a last look and every
interleaving between; more attempts only repeat rounds from a fresh load. Five commands
are the longest scenario known to matter (create, apply, merge, undo, and one to follow).
In `policy`, two addresses next to the base allow a rename, and a create beside a delete;
two changes are the smallest plan in which one is looked at after the other or carried out
without it. In `state_doc`, the resource of the base has a second instance the branch adds,
and a resource of the same type and provider has a third, which is what the provider and
schema checks tell apart; overlay serial 3 lets an interrupted replacement, its retry and a
rebase follow each other. In `checkout`, two bases are what needs the shared data directory
to be bound again, and one move of base or trunk what makes a cache old; a third command is
what finds what the two before it, overlapping or one after the other, have left. In `remote_links`,
each stack is producer and consumer, and two outputs tell a base that has adopted everything
from one that has adopted a part. Sizes: 76,000 to 2 million states.

`CHECK_DEADLOCK FALSE` is set where the system stops: in `OverlayLifecycle` and `Checkout`
each process runs one command; in `PolicedApply` and `StateDoc` an overlay whose apply
failed and whose base moved is refused by apply (stale) and by rebase (not active), until
`--allow-stale` or abandon, and the serials are bounded; in `RemoteLinks` names are used
once.

Fairness is assumed in `cas_refinement` alone: `update` is a bounded loop in one thread,
so a client that has started one keeps taking steps. Nothing is assumed about the store
answering favourably.

Runs that end in a violation, each a disagreement between the code and what the
repository says of it (details in `PROJECT.json`, findings):

| Run | What happens |
|---|---|
| `release_races` | abandon releases an overlay whose apply started after its gate; in the same way abandon misses a merge, and finalize a `merge --undo` |
| `rebase_races_apply` | rebase drops the instances of an apply it overlapped with, or overwrites the state of an overlay frozen meanwhile |
| `stale_cache` | after a rebase in another checkout a resource new in the base is updated without a claim |

The passing runs leave out exactly the combinations these name: in `lifecycle_takeover`
abandon, finalize and rebase, in `policy` a second checkout.

### Known behaviours without a run

Met while modelling, and kept out of the passing runs by the constant or guard named:

* A guarded `set_status`, or `finish_apply`, refuses its own result after a PUT that landed
  and whose answer was lost; registry.py:7 and DESIGN.md:89 promise convergence.
  `IdempotentUpdatesConverge` is about the four callbacks that have it.
* An apply with an empty plan returns before `finish_apply` (overlay.py:1212): a dirty
  overlay with nothing left to change stays dirty; DESIGN.md:85 says "yes (retry)".
* What a merge accepts for recreation is refused by the guard of the trunk pipeline
  (plan.py:688); LIMITS.md:132 says the trunk will create its own copy.
  `VerifiedMergesPassTheGuard` is about merges without an accepted recreation.
* The cached base addresses are not keyed by the base (overlay.py:639): a directory that
  serves two bases judges plans on one by the addresses of the other. `CacheCoversForks`
  asks for a cache of the right base.
* An old object the base keeps *alone* at an address the branch creates is destroyed by the
  apply of the overlay. In `state_doc` the base keeps such objects only at its own address
  (`Strays`).
* After an interrupted replacement `apply --only-claims` sets the overlay active with the
  old object still in its state, and the next rebase drops that object's record
  (overlay.py:1178, plan.py:339; LIMITS.md:310). `OnlyClaims` is FALSE in `state_doc`.
* Two creates of one name may push and flip in different orders (overlay.py:956), so that
  recorded and stored lineage differ and every command refuses. `Creators` holds one
  execution where commands overlap.
* An overlay whose apply failed and whose base moved: rebase wants it active
  (overlay.py:1406), apply wants it fresh.
* After a stop between archive and release the entry is live, its object gone, and no
  command of the tool leads out; `ObjectsAreRegistered` says it is never the other way round.
* A fetch between the reads of the trunk commit (overlay.py:730, trunk.py:143, trunk.py:75,
  whose result is dropped at overlay.py:741) stores the baseline of the newer commit under the
  older sha, and puts the files of the newer commit into the directory of the older. Only a
  command that has read the older sha itself, before that fetch, meets them, so
  `BaselineIsOfItsKey` asks for the commit of the key or a later one, and for exactly that of
  the key while it is the current one. `MarkedIsComplete` is about the current commit.
* `_prune` of a run that read an older sha (trunk.py:154) removes the export of the current
  commit that another run has made, and `rmtree(ignore_errors=True)` may leave `.git` and
  marker of it with a part of the files; so may a run that saw no `.git` and comes to
  `rmtree` when another has cloned (trunk.py:80-82). What is left passes for a finished
  export, and its baseline is planned from a part of the tree. Both properties of exports
  leave this out by `~torn`; without it TLC finds the counterexamples, after 23,000 states for
  `MarkedIsComplete` and 141,000 for `BaselineIsOfItsKey`.
* After a stop between `git clone` and `git remote set-url` (trunk.py:84-94), or for a second
  run that meets the clone at that point, the repository is taken as it is and set-url is
  never made up for: the export is marked and used with this working copy as its `origin`,
  although trunk.py:11 says the URL "is copied from the repository so a git provider sees the
  same remote as the real checkout". That a finished export has its origin is no invariant
  of `Checkout` (`origin` in `Exports`).
* Where another run has removed `.git` of an export under a command, but not the directory,
  `git remote set-url` and `git checkout --force --detach` act on the repository around it,
  the working copy itself (`ExportOrigin`, `ExportCheckoutAround`): its branch is left and
  uncommitted changes of tracked files are lost.
* A base of the same key in another bucket passes `needs_init` and `ensure_backend_key`.
* `abandon --keep-resources` prints the id the registry has, which may be none.

## Proofs

All theorems hold for any values of the constants that satisfy the named assumptions
(None and Nil are not among the values they stand beside, nor is Nil a document or an entry;
kinds are create and update;
bounds are numbers; a command is not a run; stacks refer to stacks; the addresses of
`PlanPolicy` are finitely many, since a plan is a document). Crash safety assumes
`Concurrent = 1` besides, the safety of adopted objects `~AllowStale` as well, the harmless
overlaps which commands overlap, what the policy guarantees one checkout, and two theorems
about state documents `Strays \cap Branch = {}` and one `~OnlyClaims`, each for the reason
given below.

`ClaimRegistryProofs`, for any overlays, addresses, kinds, identities, ids, runs and ETags.
It begins with lemmas about the callbacks: each yields a document, and what each does to the
entry it is about and to the others; `OverlayLifecycleProofs` takes them over by `Reg`.


* `TypeCorrect`: the document keeps its shape.
* `ClaimsNeverOverlap`, `RunsAreAccountedFor`, `CurrentRunsHoldTheirClaims`: the inductive
  invariant is `IInv`, the conjunction of `TypeOK`, `AddressesDisjoint`, `RunsAccountedFor`
  and `CurrentRunHoldsItsClaims`. Disjointness alone is not inductive: `finish_apply` and
  `merge` write claims with no conflict check. What saves them is that they only write
  addresses the entry still claims, which holds because a run is the current one only
  while nobody released or shrank its entry; that is the other two conjuncts.
* `SupersededRunsAreSilent`, `ClaimsLive`: action properties, from `IInv` and the type.
* `NothingLearnedIsForgotten`: whatever a later apply or merge writes over a claim that stays
  live, the id and the identity a run learned are only ever replaced by newer ones; shown
  callback by callback from what each does to the claims of an entry.
* `IdentitiesAreChecked`: only an acquisition makes a run the current one, and its identity
  check is made on the document the claims are written to, so no other live overlay has a
  create identity the plan knows. Identities learned after the apply are not covered:
  `finish_apply` checks nothing.

`RegistryCasProofs`, for any number of clients, attempts and lost answers:

* `UpdatesRefineTheRegistry`: `Spec => UpdatesAreAtomic`, every step of the loop is a step of
  `ClaimRegistry` or a stutter. The invariant `CasInv` says for each client which mutation
  it carries, that what it is about to PUT is the result of its callback on the document it
  loaded, and that the callback did not refuse that document; a conditional PUT that lands
  finds that very document, so the step is the atomic mutation. It includes `IInv` of the
  abstract registry, since a finishing run writes what is under its claims.
* `CasTypeCorrect`; `ConcurrentUpdatesKeepClaimsApart` and `ConcurrentUpdatesKeepClaims`:
  the theorems about the atomic registry carried over to clients in the loop.

`CheckoutProofs`, for any number of bases, overlays and concurrent commands:
`TypeCorrect`, `ForksStayOnTheirBase`, `CacheIsNotOlderThanForks`, `MarkedExportsAreComplete`,
`BaselinesAreOfTheirKey`. `IInv == Fits /\ Pulling /\ Exporting /\ Baselining /\ Covering`:
what a command has in its locals after each step, and that create and rebase are alone
(`Fits`); that what was pulled is of the base the command is for, as long as the data
directory stays bound (`Pulling`); that the three reads of the trunk come in the order sha,
directory, commit, so that files in a directory are of its commit or a later one and there is
none of a commit not fetched, and that in the directory of the current commit, unless torn,
what a command has done there still stands (`Exporting`, which has `MarkedIsComplete`; a fetch
keeps it because the directory of the new commit is empty); that a baseline under way is
planned on the base it is for, as of the ETag the command looked up or later
(`Baselining`); that the cache is written before the entry records
what it is to cover (`Covering`).

`RemoteLinksProofs`, for any stacks, references and outputs: `CommandsFitTheState` (the
inductive `Fits`, one command per stack, an object only under a live entry), `TypeCorrect`,
`RunsFallBack`, and `FinalizesKeepInputs` by the invariant `AllKept`: between the check of
finalize and its release, a live consumer was applied with what the base has by then or
is in `warned`.

`OverlayLifecycleProofs`: `TypeCorrect`, for any number of commands that overlap in any
way. `Typed` adds to `TypeOK` what each command has in its locals for its next step
(`LocalsFit`), without which the next step could not be typed.

The same module on crash safety, for any number of commands that run one after the other,
each stopping at any step, with the base moving at any step, over any number of base versions, with or
without `--allow-stale`: `RegisteredBeforePushed`, `LineageRecorded`, `NothingIsOrphaned`,
`WhatItHoldsIsClaimed`, `FreshIsCurrent`. Two inductive invariants, one lemma per command:

* `Sequential`: at most one command works (`Alone`); what it leaves behind if it stops
  here is consistent (`Consistent`); and its locals still agree with entry, object and
  cloud (`CommandFits`, one part per command). `NoOrphans` alone is not inductive: rebase
  rebuilds the object from the instances under claims, so nothing is lost only because
  the object's own instances are claimed, and the push is of the object the pull saw only
  because nobody wrote it in between. `Consistent` ties claims, instances and lineages
  together, `CommandFits` says what a command read is still so.
* `Fresh`: the recorded ETag is that of a version the object is built on, or an older one
  (`Built`), since create and rebase read the ETag before they pull the base (`Knows`).

Next, `AdoptedAreSpared`: no overlay destroys an object the trunk has adopted. Commands run
one after the other and may stop at any step; the trunk may adopt at any of them. Two more
invariants:

* `Numbered`: a physical id that is known anywhere, in a state, in the imports file, under a
  claim, in the locals of a command, is that of an apply that has written (`Seen`,
  `HasWritten`). So the ids of an apply under way are new to everybody, and what it
  makes cannot be something the trunk has already. This part holds for commands that
  overlap in any way.
* `Sparing`: an overlay that is not frozen holds nothing the imports file names (`Settled`),
  and one that shares an object with the base has an ETag the base has left behind
  (`Spares`). The trunk's adoption gives the base a new ETag, so a fresh overlay shares
  nothing, which the freshness check asks of every apply; rebase and abandon refuse while
  the base has an object of the claims.

`~AllowStale` is needed: with `--allow-stale` TLC finds an undo overtaken by the trunk, which
adopts what the imports file still announced, and an apply that then destroys the adopted
object in the belief that it is its own. TLC checked both invariants on the bounds of
`lifecycle_sequential` before they were proved.

`Concurrent = 1` is needed in these: the runs `rebase_races_apply` and `release_races` show
how instances are lost and overlays released when the wrong commands overlap. Conversely,
`ReleasesAreGated` and `RebasesKeepInstances` prove the two properties these runs violate for
commands that do not overlap, so that a lock around each command would be a remedy. The
invariant `Gated` says that what a releasing command found at its gate is still so.

Last, the overlaps that are harmless: `OverlapsOrphanNothing`, `OverlapsHoldWhatIsClaimed`,
`OverlapsKeepTheState` and the action property `MergingStaysFrozen`, for `create`, `apply`,
`merge` and `merge --undo`, any number of them at a time, applies timing out and being taken
over while they still are in tofu, fresh or stale. The inductive invariant `Late` keeps
`Consistent` and replaces `Alone` by what overlapping applies know of each other:

* the state is that of the plan of an apply, or a later one, and then tofu refuses
  (`Outdated`); who is in tofu has the lock and the current state, so a write outdates every
  other apply;
* an apply that is not outdated has what it is going to leave in place under claims of the
  entry. Only finishing a run drops claims, and only if it is the current one and carried
  out its plan (`Done`); by then nobody else can write (`Last`);
* so nobody can write either once the overlay is `active` again, and freezing it is safe.

Two hypotheses on the constants: the commands are those four (`Commands \subseteq Together`;
with rebase, abandon or finalize the two runs above are counterexamples), and one execution
runs `create` (`OneCreator`; two that overlap push and flip in different orders, see the
hazards). TLC checked `Late` on the bounds of `lifecycle_takeover` before it was proved.

`PlanPolicyProofs`: what `evaluate` answers for a plan of any length, in any order of its
changes. `Evaluate` is a fold, and the library's induction theorems cannot be used by the
installed provers, so induction over a finite set of numbers is derived first, from the
least element such a set has (`LeastNumber`, `BoundedInduction`); `FoldIsRun` then turns the
fold into a run, a sequence of working sets of which each is the `Visit` of the one before.
Along a run

* a working set stays sound (`RunIsSound`): own resources are the create claims, none is in
  the base, and update claims are of base resources;
* a violation, once found, stays found, so an accepted plan had none at any visit
  (`RunIsClean`); a change that passed is no import, destroys and moves nothing of the base,
  and each thing it creates or changes is under a claim that no later visit drops, unless
  the plan destroys it (`OwnStays`).

`PlanAccepted` says this of the answer, for the sequence in which the plan happens to list
its changes.

`PolicedApplyProofs`: the life of an overlay under that policy, for any addresses, any
number of changes in a plan and of versions of the base.

* `TypeCorrect`, for any number of checkouts.
* `BaseIsNeverLost`, `OwnIsAlwaysClaimed`, `BaseUpdatesAreAlwaysClaimed`,
  `ClaimsAlwaysFitTheBase`, `VerifiedPassTheGuard` and the action property
  `VerifiedMergesAreAdopted`, for commands run from one checkout. With two, `stale_cache`
  shows that a policy run on an outdated cache claims too little.
* The inductive invariant `IInv` adds three things to the properties. `Founded`: the
  addresses the policy looks at are those of the fork, the fork of a fresh overlay is the
  base, and the claims fit it; without it nothing said about the policy's base would be
  about the real one. `Checked`: the plan that waits for its run does to the overlay only
  what the claims it is going to acquire cover; the base may move between plan and run,
  the fork may not. `VerifiedFor`: the merged plan was verified for the claims of
  the entry, as long as the base has not moved; this is what makes the guard accept it and
  the trunk's apply an adoption. Every run applies all or a part of a plan, so `Checked` is
  a statement about each change and not about the plan.

TLC checked `IInv` as an invariant on the bounds of `policy` before it was proved.

`StateDocProofs`: the documents, for any resources, types, providers, addresses, schema
versions and serials, and any plan of the branch that the policy accepts.

* `TypeCorrect` and `Merging` (`RebaseMerges`), without a further hypothesis.
* `BaseSpared` (`BaseObjectsSurvive`) and `NothingLost` (`NothingIsLost`) for overlays that
  add nothing where the base may keep an old object alone (`Strays \cap Branch = {}`), the
  second without `apply --only-claims`. Both hypotheses are needed and are what `state_doc`
  sets: without them the code does lose an object, or destroys one of the base (known
  behaviours, above).

The inductive invariant is `IInv == TypeOK /\ Finite /\ Straying /\ Claiming /\ Apart`:

* `Finite`: documents and objects are finite, so that there is an id nobody has (`FreshIs`,
  by the pigeonhole principle) and a document can be listed.
* `Straying`: the base has an old object alone only in `Strays`, the bound of the model on
  what interrupted trunk applies leave. Abandon works by address: it refuses while the base
  has a claimed address, which says nothing of old objects there.
* `Claiming`: what the overlay claims it creates, outside the base of its last fork or
  rebase, whose addresses it knows exactly while the serial is still the recorded one.
  Without it what the policy promises of *its* base would say nothing of the document.
* `Apart`: a current instance of the overlay under a claim is no object of the base, old or
  current. A rebuild needs it to be a document in which every object is recorded once.

`NothingLost` adds `Accounted`: every instance of the overlay is `Inherited` (at an address of
the base it was made from, its object recorded by the base as long as it exists) or `Owned`
(under a create claim, and deposed only while the overlay is dirty). So what a rebuild leaves
behind is recorded elsewhere: own instances are injected, and an active overlay has no own
old object, which is why rebase asks for `active`.

Two things stand between the document and these statements. `inject_instances` is a fold that
may refuse at any address; it is unrolled over the sorted addresses, by the induction of
`PlanPolicyProofs`, into a statement about every address injected: no instance of the
destination is lost, no provider changes, nothing is above the schema the destination had.
And what tofu makes of a plan is tied to what `evaluate` accepted of it: `PlainPlanAccepted`
derives from `PlanAccepted` that the changes of an accepted plan create, replace and destroy
only at addresses of create claims, in whichever order the plan lists them.

TLC checked the parts of `IInv` and `Accounted` as invariants on the bounds of `state_doc`
before they were proved, and `IInv` on a part of the states with `--only-claims` and old
objects alone at an address of the branch.

Only model-checked:

* convergence and termination of `update` (liveness and ENABLED are out of the prover's
  reach). Every other property of a passing run is a theorem.

## Plan

1. Registry, atomic and proved; CAS loop, proved to implement it; lifecycle of one overlay;
   plan policy, proved. Done.
2. Files of a working copy, proved; stacks that read each other, proved.
   Done.
3. State documents, proved. Done.
4. What could follow: claims and identities of the base at acquire under `--allow-stale`;
   `doctor` and `check` against the states they are to report; several overlays on
   documents with objects (today `ClaimRegistry` keeps their addresses apart and `StateDoc`
   has one).

## Not modelled

* `backend.py`, `config.py`: parsing of HCL, flags, environment and git; nothing outlives a
  command.
* `cli.py`, `output.py`: arguments, exit codes, formatting.
* `status`, `list`, `check`, `doctor` only read. `gc` reports; `gc --purge` deletes archived
  states, which nothing else reads.
* `identity.py`: extraction of identities from attributes is data; what the registry does
  with them is in `ClaimRegistry`. Identities found in the base are left out.
* The S3, DynamoDB and git calls themselves: the models have what they promise (conditional
  writes, existence, copies, a moving branch).
