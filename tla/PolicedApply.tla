---------------------------- MODULE PolicedApply -----------------------------
(***************************************************************************)
(* An overlay over its life, as far as plans go: what the policy of        *)
(* PlanPolicy lets through is carried out on the overlay state, on the     *)
(* base and on the claims.  The commands are run from several checkouts,   *)
(* each with its own cache of the addresses (_base/base_addresses.json).   *)
(*                                                                         *)
(* The interleavings of the commands are the subject of OverlayLifecycle;  *)
(* here a command is one step, except that the base may move between the   *)
(* plan of an apply and its run, and between a merge and the trunk         *)
(* pipeline that carries it out.  Left out are --allow-stale, abandon, an  *)
(* acquisition of claims between the guard and the apply of the trunk,     *)
(* moves in the plans of the trunk, and moves of a resource that has the   *)
(* old object of a replacement (see StateDoc for those).                   *)
(***************************************************************************)
EXTENDS PlanPolicy, Integers

CONSTANTS
    Needs,        \* addresses that what the overlay creates depends on
    Initial,      \* addresses of the base in the beginning
    Checkouts,    \* working copies from which the commands are run
    MaxChanges,   \* bound: changes in a plan, besides those it always has
    MaxVersion    \* bound: versions of the base

ASSUME PolicedAssumption ==
    /\ Needs \cup Initial \subseteq Addresses
    /\ {MaxChanges, MaxVersion} \subseteq Nat

Entry == [version: 0..MaxVersion, status: {"active", "dirty", "merging"}, claims: Claims]

\* here: all addresses of the overlay state; base: those of its fork; deposed:
\* those with the old object of a replacement that failed.
State == [base: SUBSET Addresses, here: SUBSET Addresses, deposed: SUBSET Addresses]

Pending == [changes: SUBSET Change, claims: Claims]

Merged == [changes: SUBSET Change, accepted: SUBSET Addresses]

ASSUME NilAssumption == Nil \notin Entry \cup State \cup Pending \cup Merged

VARIABLES
    base,     \* the base state: version (ETag), addresses, and those adopted by import
    lag,      \* addresses of the base that a plan of the trunk would update
    entry,    \* the registry entry of the overlay, or Nil
    overlay,  \* the overlay state, or Nil
    cache,    \* base addresses as cached in each checkout, or Nil
    pending,  \* the saved plan of an apply with the claims to acquire, or Nil
    merged,   \* the verified plan of a merge as long as the base does not move, or Nil
    updated   \* base resources that applies of the overlay have changed

vars == <<base, lag, entry, overlay, cache, pending, merged, updated>>

------------------------------------------------------------------------------

TypeOK ==
    /\ base \in [version: 0..MaxVersion, addresses: SUBSET Addresses, adopted: SUBSET Addresses]
    /\ base.adopted \subseteq base.addresses
    /\ lag \subseteq Addresses /\ updated \subseteq Addresses
    /\ entry \in {Nil} \cup Entry /\ overlay \in {Nil} \cup State
    /\ (entry = Nil) <=> (overlay = Nil)
    /\ entry # Nil => entry.version <= base.version /\ overlay.deposed \subseteq overlay.here
    /\ cache \in [Checkouts -> {Nil} \cup SUBSET Addresses]
    /\ pending \in {Nil} \cup Pending /\ merged \in {Nil} \cup Merged
    /\ pending # Nil => entry # Nil /\ entry.status # "merging"
    /\ merged # Nil => entry # Nil /\ entry.status = "merging"

Init ==
    /\ base = [version |-> 0, addresses |-> Initial, adopted |-> {}]
    /\ lag = {} /\ entry = Nil /\ overlay = Nil
    /\ cache = [w \in Checkouts |-> Nil]
    /\ pending = Nil /\ merged = Nil /\ updated = {}

Active == entry # Nil /\ entry.status = "active"

Workable == entry # Nil /\ entry.status \in {"active", "dirty"}

Own == overlay.here \ overlay.base

------------------------------------------------------------------------------
(* Plans of tofu.  A resource of the base keeps the name of its address.   *)

To(a, action) ==
    [address |-> a, from |-> Nil, deposed |-> FALSE, importing |-> FALSE,
     action |-> action, differing |-> {}]

\* An update that only touches attributes of a kind, or others as well.
UpdatesOf(a, kind) ==
    {[To(a, "update") EXCEPT !.differing = d] : d \in {{kind}, {kind, "other"}}}

Imports(a) ==
    {[c EXCEPT !.importing = TRUE] : c \in {To(a, "no-op")} \cup UpdatesOf(a, "virtual")}

\* What a plan may do with a resource that is there, and with one that is not.
Existing(a, kind) == UpdatesOf(a, kind) \cup {To(a, "delete"), To(a, "replace")}

Absent(a) == {To(a, "create")} \cup Imports(a)

\* Moves of resources.
Moves(here) ==
    {[To(b, action) EXCEPT !.from = a] :
        a \in here, b \in Addresses \ here, action \in {"no-op", "replace"}}

\* The old objects of interrupted replacements.
Deposed(o) == {[To(a, "delete") EXCEPT !.deposed = TRUE] : a \in o.deposed}

\* At most one change per resource, and one for its deposed object.
Consistent(changes) ==
    \A c, d \in changes :
        c # d => \/ {c.address, c.from} \cap {d.address, d.from} \subseteq {Nil}
                 \/ c.deposed # d.deposed /\ {c.from, d.from} = {Nil}

PlansOf(possible) ==
    {p \in {Range(f) : f \in UNION {[1..n -> possible] : n \in 0..MaxChanges}} : Consistent(p)}

\* Plans of the branch for a state with some addresses.
PlansOfBranch ==
    [here \in SUBSET Addresses |->
        PlansOf((UNION {Existing(a, "ignored") : a \in here})
                \cup (UNION {Absent(a) : a \in Addresses \ here}) \cup Moves(here))]

\* What is left of interrupted replacements is in every plan.
OverlayPlans ==
    {p \in {q \cup Deposed(overlay) : q \in PlansOfBranch[overlay.here]} : Consistent(p)}

PlansOfTrunk ==
    [here \in SUBSET Addresses |->
        PlansOf((UNION {Existing(a, "virtual") : a \in here})
                \cup (UNION {Absent(a) : a \in Addresses \ here}))]

BasePlans == PlansOfTrunk[base.addresses]

Removed(changes) ==
    {c.address : c \in {d \in changes : d.action = "delete" /\ ~d.deposed}}
        \cup {c.from : c \in changes}

\* The addresses that are there once changes are carried out.
After(here, changes) ==
    (here \ Removed(changes))
        \cup {c.address : c \in {d \in changes :
                  d.action = "create" \/ d.from # Nil \/ d.importing}}

------------------------------------------------------------------------------
(* The overlay *)

Create(w) ==
    /\ entry = Nil
    /\ entry' = [version |-> base.version, status |-> "active", claims |-> << >>]
    /\ overlay' = [base |-> base.addresses, here |-> base.addresses, deposed |-> {}]
    /\ cache' = [cache EXCEPT ![w] = base.addresses]
    /\ UNCHANGED <<base, lag, pending, merged, updated>>

\* _base_cache: what is cached is used, whatever the base has become.
BaseAddresses(w) == IF cache[w] = Nil THEN base.addresses ELSE cache[w]

\* apply up to the confirmation: the plan passes the policy, and there is
\* no drift in it, unless drift is accepted (no baseline is looked at then) or
\* left out by a plan targeted at the claims (--only-claims).  The baseline may
\* be unavailable.
Plan(w) ==
    /\ Workable /\ pending = Nil /\ entry.version = base.version
    /\ cache' = [cache EXCEPT ![w] = BaseAddresses(w)]
    /\ \E changes \in OverlayPlans : \E order \in SetToSeqs(changes) :
       \E acceptDrift \in BOOLEAN : \E baseline \in IF acceptDrift THEN {{}} ELSE {{}, lag} :
          LET full == ClassifyDrift(entry.claims, BaseAddresses(w), baseline, order, acceptDrift)
          IN  /\ full.ok
              /\ \/ /\ full.drift = {}
                    /\ Planned(changes) # {}
                    /\ pending' = [changes |-> changes, claims |-> full.claims]
                 \/ /\ ~acceptDrift /\ full.drift \cup full.ignored # {}
                    /\ DOMAIN full.claims # {}
                    /\ \E some \in SUBSET changes : \E part \in SetToSeqs(some) :
                          LET targeted == Evaluate(entry.claims, BaseAddresses(w),
                                    IF full.drift = {} THEN {} ELSE baseline, part)
                          IN  /\ GateTargeted(some, targeted, entry.claims, full)
                              /\ Planned(some) # {}
                              /\ pending' = [changes |-> some, claims |-> targeted.claims]
    /\ UNCHANGED <<base, lag, entry, overlay, merged, updated>>

\* Mutant: what the plan deletes is released without looking at the state.
Release_Unverified(claims, released, here) == DropClaims(claims, released)

\* Only what is really gone is released.
Release(claims, released, here) == DropClaims(claims, released \ here)

\* The freshness check, acquire_claims, tofu apply and finish_apply.  tofu
\* carries out all changes or some of them, may fail all the same, and may
\* leave the old object of a replacement behind when it fails.
Run ==
    /\ pending # Nil /\ entry.version = base.version
    /\ \E some \in SUBSET pending.changes, ok \in BOOLEAN :
       LET acquired == Override(entry.claims, pending.claims)
           released == DOMAIN entry.claims \ DOMAIN pending.claims
           here     == After(overlay.here, some)
           replaced == {c.address : c \in {d \in pending.changes : d.action = "replace"}}
           gone     == {c.address : c \in {d \in some : d.deposed}}
       IN  /\ ok => some = pending.changes
           /\ \E left \in IF ok THEN {{}} ELSE {{}, replaced} :
                overlay' = [overlay EXCEPT !.here = here,
                                           !.deposed = ((@ \ gone) \cup left) \cap here]
           /\ entry' = [entry EXCEPT
                  !.status = IF ok THEN "active" ELSE "dirty",
                  !.claims = IF ok THEN Release(acquired, released, here) ELSE acquired]
           /\ updated' = updated \cup {c.address : c \in {d \in some :
                  /\ d.address \in overlay.base
                  /\ d.action = "update" /\ ~(d.differing \subseteq {"ignored"})}}
    /\ pending' = Nil
    /\ UNCHANGED <<base, lag, cache, merged>>

\* The apply is declined, or refused because the base has moved.
GiveUp ==
    /\ pending # Nil
    /\ pending' = Nil
    /\ UNCHANGED <<base, lag, entry, overlay, cache, merged, updated>>

Rebase(w) ==
    /\ Active /\ pending = Nil /\ entry.version # base.version
    /\ Creates(entry.claims) \cap base.addresses = {}
    /\ overlay' = [base |-> base.addresses, deposed |-> {},
                   here |-> base.addresses \cup (overlay.here \cap Creates(entry.claims))]
    /\ entry' = [entry EXCEPT !.version = base.version]
    /\ cache' = [cache EXCEPT ![w] = base.addresses]
    /\ UNCHANGED <<base, lag, pending, merged, updated>>

\* The claims in accepted are left out of the imports file.
Merge ==
    /\ Active /\ pending = Nil
    /\ Creates(entry.claims) \subseteq overlay.here
    /\ \E changes \in BasePlans, accepted \in SUBSET Creates(entry.claims),
          baseline \in {{}, lag}, allowUpdates \in BOOLEAN :
          /\ Verified(changes, entry.claims, accepted, baseline, allowUpdates)
          /\ merged' = [changes |-> changes, accepted |-> accepted]
    /\ entry' = [entry EXCEPT !.status = "merging"]
    /\ UNCHANGED <<base, lag, overlay, cache, pending, updated>>

\* merge --undo; the branch is not merged then.
Undo ==
    /\ entry # Nil /\ entry.status = "merging"
    /\ entry' = [entry EXCEPT !.status = "active"] /\ merged' = Nil
    /\ UNCHANGED <<base, lag, overlay, cache, pending, updated>>

\* Mutant: the entry is released and the state object stays.
Finalize_KeepsState ==
    /\ entry # Nil /\ entry.status = "merging"
    /\ Creates(entry.claims) \subseteq base.addresses
    /\ entry' = Nil /\ pending' = Nil /\ merged' = Nil /\ updated' = {}
    /\ UNCHANGED <<base, lag, overlay, cache>>

\* Every create claim is in the base (the ids are compared in OverlayLifecycle).
Finalize ==
    /\ entry # Nil /\ entry.status = "merging"
    /\ Creates(entry.claims) \subseteq base.addresses
    /\ entry' = Nil /\ overlay' = Nil /\ pending' = Nil /\ merged' = Nil /\ updated' = {}
    /\ UNCHANGED <<base, lag, cache>>

------------------------------------------------------------------------------
(* The trunk *)

TheClaims == IF entry = Nil THEN << >> ELSE entry.claims

\* The dependencies recorded in the claims of created instances.
Dependencies ==
    IF entry # Nil /\ overlay.here \cap Creates(entry.claims) # {} THEN Needs ELSE {}

Guarded(changes) == \A c \in changes : ~GuardRefuses(c, TheClaims, Dependencies)

BaseBecomes(changes) ==
    /\ base' = LET after == After(base.addresses, changes)
                   adopted == {c.address : c \in {d \in changes : d.importing}}
               IN  [version |-> base.version + 1, addresses |-> after,
                    adopted |-> (base.adopted \cup adopted) \cap after]
    /\ lag' = {} /\ merged' = Nil
    /\ UNCHANGED <<entry, overlay, cache, pending, updated>>

TrunkCommits ==
    /\ lag' \in {lag \cup {a} : a \in base.addresses \ lag}
    /\ UNCHANGED <<base, entry, overlay, cache, pending, merged, updated>>

\* The pipeline applies the trunk, with the guard between plan and apply.
TrunkApplies ==
    /\ base.version < MaxVersion
    /\ \E changes \in BasePlans :
          /\ changes # {} /\ \A c \in changes : ~c.importing
          /\ Guarded(changes)
          /\ BaseBecomes(changes)

\* The same once the branch is merged: the base is as it was verified.
TrunkMerges ==
    /\ base.version < MaxVersion
    /\ merged # Nil /\ Guarded(merged.changes)
    /\ BaseBecomes(merged.changes)

Next ==
    \/ \E w \in Checkouts : Create(w) \/ Plan(w) \/ Rebase(w)
    \/ Run \/ GiveUp \/ Merge \/ Undo \/ Finalize
    \/ TrunkCommits \/ TrunkApplies \/ TrunkMerges

Spec == Init /\ [][Next]_vars

------------------------------------------------------------------------------

\* Overlays are additive: whatever plans the policy lets through, every
\* resource of the fork stays in the overlay state.
BaseIsKept == entry # Nil => overlay.base \subseteq overlay.here

\* What an overlay created it has claimed, also after renames, replacements
\* and applies that stopped half way: else it is lost at the next rebase.
OwnIsClaimed == entry # Nil => Own \subseteq Creates(entry.claims)

\* A base resource that an apply changed in more than ignored attributes is
\* under an update claim: neither drift nor anything that a targeted plan
\* pulls in is applied behind the back of the other overlays ("on a base
\* address ... allowed with an update claim (exclusive)").
BaseUpdatesAreClaimed == entry # Nil => updated \subseteq Updates(entry.claims)

\* While the trunk pipeline is guarded, the base does not turn against the
\* claims of an overlay: what it updates stays, and nothing appears at the
\* addresses of what it creates but by adoption.
ClaimsFitTheBase ==
    entry # Nil => /\ Updates(entry.claims) \subseteq base.addresses
                   /\ Creates(entry.claims) \cap base.addresses \subseteq base.adopted

\* A merge that was verified, carried out by the trunk pipeline, adopts every
\* create claim but those accepted for recreation, and takes nothing away
\* that the trunk has.
VerifiedMergesAdopt ==
    [][TrunkMerges => /\ base.addresses \subseteq base'.addresses
                      /\ Creates(entry.claims) \ merged.accepted \subseteq base'.adopted]_vars

\* The pipeline lets a merge through that was verified: what one half of the
\* tool accepts the other does not refuse, unless something was accepted for
\* recreation (which the guard does not know of).
VerifiedMergesPassTheGuard ==
    merged # Nil /\ merged.accepted = {} => Guarded(merged.changes)

==============================================================================
