-------------------------- MODULE OverlayLifecycle ---------------------------
(***************************************************************************)
(* The commands of one overlay as they run: every command is a process of  *)
(* several steps, between which the registry entry, the overlay state      *)
(* object, the base state and the cloud may move.                          *)
(*                                                                         *)
(* A step is what happens between two visible effects or reads: one read   *)
(* of a shared object, one registry update (atomic, see ClaimRegistry and  *)
(* RegistryCas), one tofu run.  A command that refuses, fails, is          *)
(* interrupted or crashes stops where it is (Stop); every other action of  *)
(* a command states the conditions under which it goes on.                 *)
(*                                                                         *)
(* OpenTofu, the object store and the trunk pipeline are external: tofu    *)
(* locks a state while it applies, refuses a saved plan made on another    *)
(* serial or lineage, and refuses to push over a state that is newer, or   *)
(* as new and different.  A physical id is named after the apply that      *)
(* created the object, a lineage after the create that pushed it, the ETag *)
(* and the serial of the base are its version.                             *)
(***************************************************************************)
EXTENDS RegistryDoc, Integers, FiniteSets

CONSTANTS
    Me,          \* the overlay
    Procs,       \* executions of commands; each runs one command
    Commands,    \* the commands that are run
    Creators,    \* the executions that may run create
    Concurrent,  \* bound: how many executions overlap
    MaxBase,     \* bound: versions of the base state
    AllowStale   \* whether apply is run with --allow-stale

ASSUME LifecycleAssumption ==
    /\ Overlays = {Me} /\ Runs = Procs /\ Ids = Procs /\ "create" \in Kinds
    /\ Creators \subseteq Procs
    /\ Concurrent \in Nat \ {0} /\ MaxBase \in Nat \ {0} /\ Etags = 1..MaxBase
    /\ AllowStale \in BOOLEAN

VARIABLES
    doc,       \* the registry document
    expired,   \* applies older than apply_timeout_min
    lineage,   \* lineage of the entry of Me
    object,    \* the overlay state object, or Nil
    lock,      \* who holds the tofu lock on it
    base,      \* the base state: version, and instances adopted from the overlay
    cloud,     \* objects created by applies of the overlay that exist: <<address, id>>
    kept,      \* those abandon --keep-resources gave up, addresses printed
    imports,   \* the imports file committed with the branch, or Nil
    proc       \* proc[p]: locals and program counter of an execution

registry == <<doc, expired, lineage>>
state == <<object, lock>>
world == <<base, cloud, kept, imports>>
vars == <<registry, state, world, proc>>

------------------------------------------------------------------------------

Instances == UNION {[S -> Ids] : S \in SUBSET Addresses}

\* version 0: the base addresses have been removed by `state rm`.
BaseState == [version: 0..MaxBase, own: Instances]

\* A state object: a copy of the base, and the overlay's own instances.
StateObject == [lineage: Procs, serial: Nat, base: BaseState, own: Instances]

ASSUME ObjectAssumption == Nil \notin StateObject

Forked(p, b) == [lineage |-> p, serial |-> 0, base |-> b, own |-> << >>]

\* Addresses of a state document.
Present(o) == DOMAIN o.own \cup DOMAIN o.base.own

\* pc is the last step done.  entry, recorded: the entry as loaded, and its
\* lineage.  want, replaced: what the plan leaves in place, and replaces.
Idle ==
    [cmd |-> Nil, pc |-> "idle", entry |-> Nil, recorded |-> Nil, etag |-> Nil, object |-> Nil,
     base |-> Nil, claims |-> << >>, released |-> {}, want |-> {}, replaced |-> {}, ok |-> FALSE]

Ended(pc) == [Idle EXCEPT !.pc = pc]

Running == {p \in Procs : proc[p].pc \notin {"idle", "returned", "stopped"}}

TypeOK ==
    /\ IsDocument(doc) /\ expired \subseteq Runs /\ lineage \in Procs \cup {Nil}
    /\ object # Nil => object \in StateObject
    /\ lock \in Procs \cup {Nil}
    /\ base \in BaseState
    /\ cloud \cup kept \subseteq Addresses \X Ids
    /\ imports # Nil => imports \in Instances
    /\ DOMAIN proc = Procs

Init ==
    /\ doc = EmptyDoc /\ expired = {} /\ lineage = Nil
    /\ object = Nil /\ lock = Nil
    /\ base = [version |-> 1, own |-> << >>]
    /\ cloud = {} /\ kept = {} /\ imports = Nil
    /\ proc = [p \in Procs |-> Idle]

------------------------------------------------------------------------------
(* What the commands share. *)

Entered == Registered(doc, Me)
TheEntry == doc.overlays[Me]

EffectiveStatus == IF StaleApplying(TheEntry, expired) THEN "dirty" ELSE TheEntry.status

\* _gate, and get_overlay before it.
Gate(allowed) == Entered /\ EffectiveStatus \in allowed

\* _validate_overlay of an entry that records lineage l.
Valid(l) == object # Nil /\ (l # Nil => object.lineage = l)

Creates(claims) == {a \in DOMAIN claims : claims[a].kind = "create"}

\* _claims_from_state, for a pulled state o.
ClaimsFromState(claims, o) ==
    [a \in DOMAIN claims |->
        IF claims[a].kind = "create" /\ a \in DOMAIN o.own
        THEN [claims[a] EXCEPT !.id = o.own[a]] ELSE claims[a]]

ObjectsOf(own) == {<<a, own[a]>> : a \in DOMAIN own}

Begin(p, cmd, locals) ==
    /\ cmd \in Commands /\ proc[p].pc = "idle" /\ Cardinality(Running) < Concurrent
    /\ proc' = [proc EXCEPT ![p] = locals]

BeginLoaded(p, cmd, pc) ==
    Begin(p, cmd, [Idle EXCEPT !.cmd = cmd, !.pc = pc, !.entry = TheEntry, !.recorded = lineage])

At(p, cmd, pc) == proc[p].cmd = cmd /\ proc[p].pc = pc

Goto(p, pc) == proc' = [proc EXCEPT ![p].pc = pc]

Return(p) == proc' = [proc EXCEPT ![p] = Ended("returned")]

\* A lock left behind is released by the operator (tofu force-unlock).
Stop(p) ==
    /\ p \in Running
    /\ proc' = [proc EXCEPT ![p] = Ended("stopped")]
    /\ lock' = IF lock = p THEN Nil ELSE lock
    /\ UNCHANGED <<registry, object, world>>

------------------------------------------------------------------------------
(* create *)

\* An entry left in creating is resumed.  A tombstoned name may be reused
\* with --force-name.
CreateLoad(p) ==
    /\ p \in Creators
    /\ Entered => TheEntry.status = "creating"
    /\ Begin(p, "create", [Idle EXCEPT !.cmd = "create", !.pc = "loaded", !.etag = base.version,
                                       !.entry = IF Entered THEN TheEntry ELSE Nil])
    /\ UNCHANGED <<registry, state, world>>

\* Not resumed: an object of that name must not exist.
CreateRegister(p) ==
    /\ At(p, "create", "loaded")
    /\ proc[p].entry = Nil => object = Nil
    /\ doc' = RegisterCreating(doc, Me)
    /\ proc' = [proc EXCEPT ![p].pc = "registered", ![p].recorded = lineage]
    /\ UNCHANGED <<expired, lineage, state, world>>

CreatePull(p) ==
    /\ At(p, "create", "registered")
    /\ proc' = [proc EXCEPT ![p].pc = "pulled", ![p].base = base]
    /\ UNCHANGED <<registry, state, world>>

\* Mutant: an object left behind is taken for the one pushed earlier.
CreatePush_KeepsLeftover(p) ==
    /\ At(p, "create", "pulled") /\ lock = Nil
    /\ IF object # Nil
       THEN Goto(p, "read back") /\ UNCHANGED object
       ELSE Goto(p, "pushed") /\ object' = Forked(p, proc[p].base)
    /\ UNCHANGED <<registry, lock, world>>

\* _push_forked: forced, unless the object is the one the entry records.
CreatePush(p) ==
    /\ At(p, "create", "pulled") /\ lock = Nil
    /\ IF object # Nil /\ proc[p].recorded # Nil /\ object.lineage = proc[p].recorded
       THEN Goto(p, "read back") /\ UNCHANGED object
       ELSE Goto(p, "pushed") /\ object' = Forked(p, proc[p].base)
    /\ UNCHANGED <<registry, lock, world>>

CreateReadBack(p) ==
    /\ At(p, "create", "pushed") /\ object # Nil
    /\ proc' = [proc EXCEPT ![p].pc = "read back", ![p].recorded = object.lineage]
    /\ UNCHANGED <<registry, state, world>>

CreateFlip(p) ==
    /\ At(p, "create", "read back") /\ ~FlipRefused(doc, Me)
    /\ doc' = Flip(doc, Me, proc[p].etag)
    /\ lineage' = proc[p].recorded
    /\ Return(p)
    /\ UNCHANGED <<expired, state, world>>

Create(p) ==
    \/ CreateLoad(p) \/ CreateRegister(p) \/ CreatePull(p)
    \/ CreatePush(p) \/ CreateReadBack(p) \/ CreateFlip(p)

------------------------------------------------------------------------------
(* apply *)

ApplyLoad(p) ==
    /\ Gate({"active", "dirty"})
    /\ BeginLoaded(p, "apply", "loaded")
    /\ UNCHANGED <<registry, state, world>>

NewClaim == [kind |-> "create", identity |-> Nil, id |-> Nil]

\* The claims evaluate builds for a plan on entry e: an own resource that
\* is planned away loses its claim, one that is planned gets one.
PlannedClaims(e, created, deleted) ==
    MergeClaims(Restrict(e.claims, DOMAIN e.claims \ deleted), [a \in created |-> NewClaim])

\* The branch wants the resources want next to those of the base; replaced
\* are own resources to create anew.  Loads the entry again.  After the
\* `state rm` of an abandon every plan creates the base again: a violation.
ApplyPlan(p) ==
    /\ At(p, "apply", "loaded")
    /\ Gate({"active", "dirty"}) /\ Valid(lineage) /\ object.base.version # 0
    /\ AllowStale \/ TheEntry.etag = base.version
    /\ \E want \in SUBSET Addresses, replaced \in SUBSET DOMAIN object.own :
          LET created == (want \ DOMAIN object.own) \cup replaced
              deleted == DOMAIN object.own \ want
          IN  /\ want \cap DOMAIN object.base.own = {}
              /\ replaced \subseteq want
              /\ deleted \cup replaced \subseteq Creates(TheEntry.claims)
              /\ proc' = [proc EXCEPT
                    ![p].pc = "planned", ![p].object = object,
                    ![p].want = want, ![p].replaced = replaced,
                    ![p].claims = PlannedClaims(TheEntry, created, deleted)]
    /\ UNCHANGED <<registry, state, world>>

Changes(p) ==
    LET own == DOMAIN proc[p].object.own
    IN  (proc[p].want \ own) \cup (own \ proc[p].want) \cup proc[p].replaced

ApplyNothing(p) ==
    /\ At(p, "apply", "planned") /\ Changes(p) = {}
    /\ Return(p)
    /\ UNCHANGED <<registry, state, world>>

\* The freshness read and acquire_claims.
ApplyAcquire(p) ==
    LET me    == proc[p]
        fresh == IF AllowStale THEN me.entry.etag ELSE base.version
        gone  == DOMAIN me.entry.claims \ DOMAIN me.claims
    IN  /\ At(p, "apply", "planned") /\ Changes(p) # {}
        /\ ~AcquireRefused(doc, Me, me.claims, p, fresh, expired)
        /\ doc' = AcquireClaims(doc, Me, me.claims, p)
        /\ proc' = [proc EXCEPT
              ![p].pc = "acquired", ![p].released = gone,
              ![p].claims = Restrict(doc'.overlays[Me].claims,
                                     DOMAIN doc'.overlays[Me].claims \ gone)]
        /\ UNCHANGED <<expired, lineage, state, world>>

\* Mutant: a saved plan is applied to whatever state there is.
ApplyStart_AnyState(p) ==
    /\ At(p, "apply", "acquired") /\ lock = Nil /\ object # Nil
    /\ lock' = p
    /\ Goto(p, "applying")
    /\ UNCHANGED <<registry, object, world>>

\* tofu takes the lock and finds that the state is the one of the plan.
ApplyStart(p) ==
    /\ At(p, "apply", "acquired") /\ lock = Nil /\ object # Nil
    /\ object.serial = proc[p].object.serial /\ object.lineage = proc[p].object.lineage
    /\ lock' = p
    /\ Goto(p, "applying")
    /\ UNCHANGED <<registry, object, world>>

\* tofu fails before it changes anything: lock, stale plan, no credentials...
ApplyFails(p) ==
    /\ At(p, "apply", "acquired")
    /\ Goto(p, "applied")
    /\ UNCHANGED <<registry, state, world>>

\* The own instances once some of the changes are made.
After(p, some) ==
    LET own == proc[p].object.own
    IN  [a \in (DOMAIN own \ some) \cup (some \cap proc[p].want) |->
            IF a \in some THEN p ELSE own[a]]

\* tofu carries out some of the changes, or all, and writes the state.
ApplyWrite(p) ==
    /\ At(p, "apply", "applying")
    /\ \E some \in SUBSET Changes(p) :
          LET own   == proc[p].object.own
              after == After(p, some)
          IN  /\ cloud' = (cloud \ ObjectsOf(Restrict(own, DOMAIN own \cap some)))
                              \cup ObjectsOf(Restrict(after, DOMAIN after \cap some))
              /\ object' = [proc[p].object EXCEPT !.own = after, !.serial = @ + 1]
              /\ proc' = [proc EXCEPT ![p].pc = "applied", ![p].ok = (some = Changes(p))]
    /\ lock' = IF lock = p THEN Nil ELSE lock
    /\ UNCHANGED <<registry, base, kept, imports>>

\* The first half of _finish_apply: claims refreshed from the pulled state,
\* if it can be pulled.
ApplyPull(p) ==
    /\ At(p, "apply", "applied")
    /\ \/ /\ object # Nil
          /\ proc' = [proc EXCEPT
                ![p].pc = "refreshed", ![p].claims = ClaimsFromState(@, object),
                ![p].released = @ \ Present(object)]
       \/ proc' = [proc EXCEPT ![p].pc = "refreshed", ![p].released = {}]
    /\ UNCHANGED <<registry, state, world>>

ApplyFinish(p) ==
    /\ At(p, "apply", "refreshed") /\ ~FinishRefused(doc, Me, p)
    /\ doc' = FinishApply(doc, Me, proc[p].ok, proc[p].claims, proc[p].released)
    /\ proc' = [proc EXCEPT ![p] = Ended(IF proc[p].ok THEN "returned" ELSE "stopped")]
    /\ UNCHANGED <<expired, lineage, state, world>>

Apply(p) ==
    \/ ApplyLoad(p) \/ ApplyPlan(p) \/ ApplyNothing(p) \/ ApplyAcquire(p) \/ ApplyStart(p)
    \/ ApplyFails(p) \/ ApplyWrite(p) \/ ApplyPull(p) \/ ApplyFinish(p)

------------------------------------------------------------------------------
(* rebase *)

RebaseLoad(p) ==
    /\ Gate({"active"})
    /\ BeginLoaded(p, "rebase", "loaded")
    /\ UNCHANGED <<registry, state, world>>

\* The freshness read, then the overlay state.
RebaseRead(p) ==
    /\ At(p, "rebase", "loaded")
    /\ base.version # proc[p].entry.etag /\ Valid(proc[p].recorded)
    /\ proc' = [proc EXCEPT ![p].pc = "read", ![p].etag = base.version, ![p].object = object]
    /\ UNCHANGED <<registry, state, world>>

\* The base may have moved again; no create claim may have appeared in it.
RebasePull(p) ==
    /\ At(p, "rebase", "read")
    /\ Creates(proc[p].entry.claims) \cap DOMAIN base.own = {}
    /\ proc' = [proc EXCEPT ![p].pc = "pulled", ![p].base = base]
    /\ UNCHANGED <<registry, state, world>>

\* _build_rebased
Rebuilt(p) ==
    LET me == proc[p]
    IN  [lineage |-> me.object.lineage,
         serial  |-> IF me.object.serial > me.base.version THEN me.object.serial + 1
                                                           ELSE me.base.version + 1,
         base    |-> me.base,
         own     |-> Restrict(me.object.own, DOMAIN me.object.own \cap Creates(me.entry.claims))]

\* What `state push` without -force accepts.
Pushable(new) ==
    /\ object # Nil /\ lock = Nil
    /\ new.lineage = object.lineage
    /\ new.serial > object.serial \/ new = object

RebasePush(p) ==
    /\ At(p, "rebase", "pulled") /\ Pushable(Rebuilt(p))
    /\ object' = Rebuilt(p)
    /\ Goto(p, "pushed")
    /\ UNCHANGED <<registry, lock, world>>

\* expect_status and expect_entry of set_status.
Unchanged(p, status) ==
    ~SetStatusRefused(doc, Me, status, proc[p].entry) /\ lineage = proc[p].recorded

\* Mutant: the ETag is read after the push.
RebaseRecord_EtagNow(p) ==
    /\ At(p, "rebase", "pushed") /\ Unchanged(p, "active")
    /\ doc' = SetStatus(doc, Me, "active", base.version, << >>)
    /\ Return(p)
    /\ UNCHANGED <<expired, lineage, state, world>>

RebaseRecord(p) ==
    /\ At(p, "rebase", "pushed") /\ Unchanged(p, "active")
    /\ doc' = SetStatus(doc, Me, "active", proc[p].etag, << >>)
    /\ Return(p)
    /\ UNCHANGED <<expired, lineage, state, world>>

Rebase(p) ==
    \/ RebaseLoad(p) \/ RebaseRead(p) \/ RebasePull(p) \/ RebasePush(p) \/ RebaseRecord(p)

------------------------------------------------------------------------------
(* merge and merge --undo *)

MergeLoad(p) ==
    /\ Gate({"active"})
    /\ BeginLoaded(p, "merge", "loaded")
    /\ UNCHANGED <<registry, state, world>>

\* _refreshed_claims: every create claim has its instance.
MergeRead(p) ==
    /\ At(p, "merge", "loaded") /\ Valid(proc[p].recorded)
    /\ Creates(proc[p].entry.claims) \subseteq Present(object)
    /\ proc' = [proc EXCEPT ![p].pc = "refreshed",
                            ![p].claims = ClaimsFromState(proc[p].entry.claims, object)]
    /\ UNCHANGED <<registry, state, world>>

\* verify: the plan on the base imports every create claim.
MergeVerify(p) ==
    /\ At(p, "merge", "refreshed")
    /\ Creates(proc[p].claims) \cap DOMAIN base.own = {}
    /\ Goto(p, "verified")
    /\ UNCHANGED <<registry, state, world>>

\* The imports file, once the overlay is frozen and the file is committed.
ImportsOf(claims) ==
    [a \in {b \in Creates(claims) : claims[b].id # Nil} |-> claims[a].id]

MergeFreeze(p) ==
    /\ At(p, "merge", "verified") /\ Unchanged(p, "active")
    /\ doc' = SetStatus(doc, Me, "merging", TheEntry.etag, proc[p].claims)
    /\ imports' = ImportsOf(proc[p].claims)
    /\ Return(p)
    /\ UNCHANGED <<expired, lineage, state, base, cloud, kept>>

UndoLoad(p) ==
    /\ Entered /\ TheEntry.status = "merging"
    /\ BeginLoaded(p, "undo", "loaded")
    /\ UNCHANGED <<registry, state, world>>

UndoUnlink(p) ==
    /\ At(p, "undo", "loaded")
    /\ imports' = Nil
    /\ Goto(p, "unlinked")
    /\ UNCHANGED <<registry, state, base, cloud, kept>>

UndoThaw(p) ==
    /\ At(p, "undo", "unlinked") /\ ~SetStatusRefused(doc, Me, "merging", Nil)
    /\ doc' = SetStatus(doc, Me, "active", TheEntry.etag, << >>)
    /\ Return(p)
    /\ UNCHANGED <<expired, lineage, state, world>>

Merge(p) == MergeLoad(p) \/ MergeRead(p) \/ MergeVerify(p) \/ MergeFreeze(p)

Undo(p) == UndoLoad(p) \/ UndoUnlink(p) \/ UndoThaw(p)

------------------------------------------------------------------------------
(* abandon, with or without --keep-resources, and finalize *)

\* The statuses in which each of them is accepted.
Releasable(cmd) ==
    CASE cmd = "abandon"      -> {"creating", "active", "dirty"}
      [] cmd = "abandon keep" -> {"creating", "active", "dirty", "merging"}
      [] cmd = "finalize"     -> {"merging"}

AbandonLoad(p) ==
    \E cmd \in {"abandon", "abandon keep"} :
        /\ Gate(Releasable(cmd))
        /\ BeginLoaded(p, cmd, "loaded")
        /\ UNCHANGED <<registry, state, world>>

Abandons(p) == proc[p].cmd \in {"abandon", "abandon keep"}

\* Mutant: the base is not looked at.
AbandonCheck_NoBase(p) ==
    LET me == proc[p]
        bare == me.entry.status = "creating" /\ object = Nil
    IN  /\ Abandons(p) /\ me.pc = "loaded"
        /\ ~bare => Valid(me.recorded)
        /\ proc' = [proc EXCEPT
              ![p].object = object,
              ![p].pc = IF bare THEN "archived"
                        ELSE IF me.cmd = "abandon" THEN "checked" ELSE "destroyed"]
        /\ UNCHANGED <<registry, state, world>>

\* An entry in creating without object: registry cleanup only.
AbandonCheck(p) ==
    LET me == proc[p]
        bare == me.entry.status = "creating" /\ object = Nil
    IN  /\ Abandons(p) /\ me.pc = "loaded"
        /\ ~bare => /\ Valid(me.recorded)
                    /\ Creates(me.entry.claims) \cap DOMAIN base.own = {}
        /\ proc' = [proc EXCEPT
              ![p].object = object,
              ![p].pc = IF bare THEN "archived"
                        ELSE IF me.cmd = "abandon" THEN "checked" ELSE "destroyed"]
        /\ UNCHANGED <<registry, state, world>>

\* Mutant: the create claims leave the state with the rest.
AbandonStateRm_Everything(p) ==
    /\ At(p, "abandon", "checked") /\ lock = Nil /\ object # Nil
    /\ object' = [object EXCEPT
          !.base = [version |-> 0, own |-> << >>], !.serial = @ + 1, !.own = << >>]
    /\ Goto(p, "removed")
    /\ UNCHANGED <<registry, lock, world>>

\* Everything but the create claims leaves the state, the base first of all.
AbandonStateRm(p) ==
    /\ At(p, "abandon", "checked") /\ lock = Nil /\ object # Nil
    /\ object' = [object EXCEPT
          !.base = [version |-> 0, own |-> << >>], !.serial = @ + 1,
          !.own  = LET others == DOMAIN proc[p].object.own \ Creates(proc[p].entry.claims)
                   IN  Restrict(@, DOMAIN @ \ others)]
    /\ Goto(p, "removed")
    /\ UNCHANGED <<registry, lock, world>>

\* The destroy plan may only delete create claims.
AbandonPlan(p) ==
    /\ At(p, "abandon", "removed") /\ object # Nil
    /\ object.base.version = 0 /\ DOMAIN object.own \subseteq Creates(proc[p].entry.claims)
    /\ proc' = [proc EXCEPT ![p].pc = "planned", ![p].object = object]
    /\ UNCHANGED <<registry, state, world>>

\* tofu carries out some of the destroy plan; the command goes on after all.
AbandonDestroy(p) ==
    /\ At(p, "abandon", "planned") /\ lock = Nil /\ object # Nil
    /\ object.serial = proc[p].object.serial /\ object.lineage = proc[p].object.lineage
    /\ \E some \in SUBSET DOMAIN object.own :
          /\ cloud' = cloud \ ObjectsOf(Restrict(object.own, some))
          /\ object' = [object EXCEPT !.serial = @ + 1,
                                      !.own = Restrict(@, DOMAIN @ \ some)]
          /\ IF some = DOMAIN object.own THEN Goto(p, "emptied")
             ELSE proc' = [proc EXCEPT ![p] = Ended("stopped")]
    /\ UNCHANGED <<registry, lock, base, kept, imports>>

AbandonVerify(p) ==
    /\ At(p, "abandon", "emptied") /\ object # Nil
    /\ DOMAIN object.own \cap Creates(proc[p].entry.claims) = {}
    /\ Goto(p, "destroyed")
    /\ UNCHANGED <<registry, state, world>>

\* _archive: the object is copied away and deleted, with the lock marker.
Archive(p, from) ==
    /\ proc[p].pc = from /\ object # Nil
    /\ object' = Nil /\ lock' = Nil
    /\ Goto(p, "archived")

\* --keep-resources prints address and id of the claims as they were loaded.
Printed(p) == proc[p].entry.claims

AbandonArchive(p) ==
    /\ Abandons(p) /\ Archive(p, "destroyed")
    /\ kept' = IF proc[p].cmd = "abandon" THEN kept
               ELSE kept \cup {k \in ObjectsOf(object.own) : k[1] \in Creates(Printed(p))}
    /\ UNCHANGED <<registry, base, cloud, imports>>

\* Mutant: the entry goes before the object does.
Release_First(p) ==
    /\ proc[p].pc \in {"checked", "destroyed", "archived"} /\ ~ReleaseRefused(doc, Me)
    /\ doc' = ReleaseOverlay(doc, Me)
    /\ lineage' = Nil
    /\ IF proc[p].pc = "archived" THEN Return(p) ELSE UNCHANGED proc
    /\ UNCHANGED <<expired, state, world>>

Release(p) ==
    /\ proc[p].pc = "archived" /\ ~ReleaseRefused(doc, Me)
    /\ doc' = ReleaseOverlay(doc, Me)
    /\ lineage' = Nil
    /\ Return(p)
    /\ UNCHANGED <<expired, state, world>>

AbandonRelease(p) == Abandons(p) /\ Release(p)

Abandon(p) ==
    \/ AbandonLoad(p) \/ AbandonCheck(p) \/ AbandonStateRm(p) \/ AbandonPlan(p)
    \/ AbandonDestroy(p) \/ AbandonVerify(p) \/ AbandonArchive(p) \/ AbandonRelease(p)

FinalizeLoad(p) ==
    /\ Gate(Releasable("finalize"))
    /\ BeginLoaded(p, "finalize", "loaded")
    /\ UNCHANGED <<registry, state, world>>

\* The trunk has adopted every create claim, with the id the state has.
FinalizeCheck(p) ==
    LET claims == ClaimsFromState(proc[p].entry.claims, object)
    IN  /\ At(p, "finalize", "loaded") /\ Valid(proc[p].recorded)
        /\ \A a \in Creates(claims) :
              a \in DOMAIN base.own /\ claims[a].id \in {Nil, base.own[a]}
        /\ Goto(p, "checked")
        /\ UNCHANGED <<registry, state, world>>

FinalizeArchive(p) ==
    /\ proc[p].cmd = "finalize" /\ Archive(p, "checked")
    /\ UNCHANGED <<registry, world>>

FinalizeRelease(p) == proc[p].cmd = "finalize" /\ Release(p)

Finalize(p) == FinalizeLoad(p) \/ FinalizeCheck(p) \/ FinalizeArchive(p) \/ FinalizeRelease(p)

------------------------------------------------------------------------------
(* The world around: the trunk pipeline, and time. *)

TrunkMoves ==
    /\ base.version < MaxBase
    /\ base' = [base EXCEPT !.version = @ + 1]
    /\ UNCHANGED <<registry, state, cloud, kept, imports, proc>>

\* The trunk applies the import blocks of addresses that the base has not got:
\* every object named there exists.
TrunkAdopts ==
    /\ base.version < MaxBase
    /\ imports # Nil
    /\ ObjectsOf(Restrict(imports, DOMAIN imports \ DOMAIN base.own)) \subseteq cloud
    /\ base' = [version |-> base.version + 1,
                own |-> [a \in DOMAIN imports \cup DOMAIN base.own |->
                            IF a \in DOMAIN base.own THEN base.own[a] ELSE imports[a]]]
    /\ UNCHANGED <<registry, state, cloud, kept, imports, proc>>

Timeout ==
    /\ Entered /\ TheEntry.status = "applying"
    /\ expired' = expired \cup {TheEntry.run}
    /\ UNCHANGED <<doc, lineage, state, world, proc>>

Next ==
    \/ \E p \in Procs :
        \/ Create(p) \/ Apply(p) \/ Rebase(p) \/ Merge(p) \/ Undo(p)
        \/ Abandon(p) \/ Finalize(p) \/ Stop(p)
    \/ TrunkMoves \/ TrunkAdopts \/ Timeout

Spec == Init /\ [][Next]_vars

------------------------------------------------------------------------------

\* The overlay state of a registered overlay holds no instance of its own
\* that is not under a create claim: a rebase, which carries over only the
\* claimed ones, never drops one, and no other overlay may claim it.
OwnInstancesAreClaimed ==
    (Entered /\ object # Nil /\ object.lineage = lineage)
        => DOMAIN object.own \subseteq Creates(TheEntry.claims)

\* Every object an overlay created is still managed: by the overlay state, or
\* by the trunk that adopted it; or the operator was told its address.
NoOrphans ==
    cloud \subseteq (IF object = Nil THEN {} ELSE ObjectsOf(object.own))
                  \cup ObjectsOf(base.own) \cup kept

\* An overlay that passes the freshness check was built on that base or on a
\* later one (create and rebase read the ETag before they pull the base).
FreshMeansCurrent ==
    (Entered /\ object # Nil /\ object.lineage = lineage
     /\ TheEntry.etag # Nil /\ object.base.version # 0)
        => object.base.version >= TheEntry.etag

\* Once no create is under way, the lineage in the entry is the one behind
\* the key: "the registry must record the lineage that really sits behind the
\* key" (_push_forked).  Otherwise every command refuses the overlay.
LineageIsRecorded ==
    (Entered /\ TheEntry.status # "creating" /\ object # Nil
     /\ \A p \in Running : proc[p].cmd # "create")
        => object.lineage = lineage

\* Wherever commands stop, there is no overlay state behind the key without an
\* entry: create registers before it pushes, abandon and finalize archive
\* before they release.  doctor would call it an unregistered-object, create
\* would refuse the name, and no command could reach what it manages.
ObjectsAreRegistered == object # Nil => Entered

\* While it is merging an overlay is frozen: its state stays what the imports
\* file was made from.
MergingIsFrozen ==
    [][(Entered /\ TheEntry.status = "merging" /\ Entered' /\ TheEntry'.status = "merging")
        => object' = object \/ object' = Nil]_vars

\* An overlay never destroys an object the trunk has adopted.
AdoptedSurvive == [][ObjectsOf(base.own) \cap cloud \subseteq cloud']_vars

\* A rebase carries over every instance the overlay has created: "base content
\* + overlay's create instances".
RebaseKeepsInstances ==
    [][\A p \in Procs :
        (proc[p].cmd = "rebase" /\ proc[p].pc = "pulled" /\ proc'[p].pc = "pushed")
            => ObjectsOf(object.own) \subseteq ObjectsOf(object'.own)]_vars

\* What a command releases is still in a status the command accepts
\* ("applying: refuse", "merging: refuse", "active: refuse").
ReleasedAsGated ==
    [][\A p \in Procs :
        (proc[p].pc = "archived" /\ proc'[p].pc = "returned" /\ Entered)
            => EffectiveStatus \in Releasable(proc[p].cmd)]_vars

==============================================================================
