----------------------------- MODULE RegistryDoc -----------------------------
(***************************************************************************)
(* The registry document <base key>.overlays.json and the mutation         *)
(* callbacks that Registry.update applies to it, as operators on a         *)
(* document.  A callback either refuses (raises, nothing is written) or    *)
(* returns a new document: XxxRefused tells the first case, Xxx gives the  *)
(* result of the second.  The atomic specification (ClaimRegistry), the    *)
(* compare-and-swap one (RegistryCas) and the command level                *)
(* (OverlayLifecycle) all use these operators.                             *)
(*                                                                         *)
(* Data is abstracted to what tells two outcomes apart: an identity and a  *)
(* physical id are model values or Nil (unknown); id stands for the pair   *)
(* id/import_id, which are learned and kept together; a tombstone is the   *)
(* name it reserves.  Clocks are kept out of the document: applying_since  *)
(* is represented by the set of runs whose apply timeout has elapsed,      *)
(* passed as a parameter.                                                  *)
(***************************************************************************)
EXTENDS Functions

CONSTANTS
    Overlays,    \* overlay names
    Addresses,   \* resource addresses
    Kinds,       \* claim kinds that plans ask for
    Identities,  \* identity keys (type|k=v|...)
    Ids,         \* physical ids
    Runs,        \* run ids, one per apply
    Etags,       \* ETags of the base state object
    Nil          \* Python's None

ASSUME NilAssumption ==
    Nil \notin Overlays \cup Identities \cup Ids \cup Runs \cup Etags

ASSUME KindsAssumption == Kinds \subseteq {"create", "update"}

------------------------------------------------------------------------------

LiveStatuses == {"creating", "active", "applying", "dirty", "merging"}

Claim ==
    [kind: Kinds, identity: Identities \cup {Nil}, id: Ids \cup {Nil}]

ClaimMap == UNION {[S -> Claim] : S \in SUBSET Addresses}

Entry ==
    [status: LiveStatuses, run: Runs \cup {Nil}, etag: Etags \cup {Nil}, claims: ClaimMap]

IsDocument(d) ==
    /\ d = [overlays |-> d.overlays, tombstones |-> d.tombstones]
    /\ DOMAIN d.overlays \subseteq Overlays
    /\ d.overlays = [n \in DOMAIN d.overlays |-> d.overlays[n]]
    /\ \A n \in DOMAIN d.overlays : d.overlays[n] \in Entry
    /\ d.tombstones \subseteq Overlays

EmptyDoc == [overlays |-> << >>, tombstones |-> {}]

Registered(d, n) == n \in DOMAIN d.overlays

WithEntry(d, n, e) ==
    [overlays   |-> [m \in DOMAIN d.overlays \cup {n} |-> IF m = n THEN e ELSE d.overlays[m]],
     tombstones |-> d.tombstones]

------------------------------------------------------------------------------
(* Claims *)

KnownOr(new, old) == IF new = Nil THEN old ELSE new

\* Mutant: a later plan overwrites what an earlier apply learned.
MergeClaim_Forgets(existing, wanted) == wanted

\* Set-by-key merge: everything is refreshed except what would be forgotten.
MergeClaim(existing, wanted) ==
    [kind     |-> wanted.kind,
     identity |-> KnownOr(wanted.identity, existing.identity),
     id       |-> KnownOr(wanted.id, existing.id)]

MergeClaims(claims, wanted) ==
    [a \in DOMAIN claims \cup DOMAIN wanted |->
        IF a \notin DOMAIN wanted THEN claims[a]
        ELSE IF a \notin DOMAIN claims THEN wanted[a]
        ELSE MergeClaim(claims[a], wanted[a])]

CreateIdentities(claims) ==
    {claims[a].identity : a \in {b \in DOMAIN claims : claims[b].kind = "create"}} \ {Nil}

AddressConflict(claims, wanted) == DOMAIN claims \cap DOMAIN wanted # {}

IdentityConflict(claims, wanted) ==
    CreateIdentities(claims) \cap CreateIdentities(wanted) # {}

\* Mutant: an overlay whose apply failed does not count as live.
ConflictsFor_SkipsDirty(d, me, wanted) ==
    \E other \in DOMAIN d.overlays \ {me} :
        /\ d.overlays[other].status \in LiveStatuses \ {"dirty"}
        /\ \/ AddressConflict(d.overlays[other].claims, wanted)
           \/ IdentityConflict(d.overlays[other].claims, wanted)

\* Mutant: the identity half of the check is forgotten.
ConflictsFor_AddressOnly(d, me, wanted) ==
    \E other \in DOMAIN d.overlays \ {me} :
        /\ d.overlays[other].status \in LiveStatuses
        /\ AddressConflict(d.overlays[other].claims, wanted)

\* conflicts_for is non-empty: some other live overlay is in the way.
ConflictsFor(d, me, wanted) ==
    \E other \in DOMAIN d.overlays \ {me} :
        /\ d.overlays[other].status \in LiveStatuses
        /\ \/ AddressConflict(d.overlays[other].claims, wanted)
           \/ IdentityConflict(d.overlays[other].claims, wanted)

------------------------------------------------------------------------------
(* Mutation callbacks *)

StaleApplying(entry, expired) == entry.status = "applying" /\ entry.run \in expired

\* _register_creating: silently keeps an entry of that name, whatever its status.
RegisterCreating(d, n) ==
    IF Registered(d, n) THEN d
    ELSE WithEntry(d, n, [status |-> "creating", run |-> Nil, etag |-> Nil, claims |-> << >>])

\* create's flip: looks at nothing but the presence of the entry (KeyError).
FlipRefused(d, n) == ~Registered(d, n)

Flip(d, n, etag) ==
    WithEntry(d, n, [d.overlays[n] EXCEPT !.status = "active", !.etag = etag])

CanApply(entry, run, expired) ==
    \/ entry.status \in {"active", "dirty"}
    \/ entry.status = "applying" /\ entry.run = run
    \/ StaleApplying(entry, expired)

AcquireRefused(d, n, wanted, run, etag, expired) ==
    Registered(d, n) =>
        \/ ~CanApply(d.overlays[n], run, expired)
        \/ d.overlays[n].etag # etag
        \/ ConflictsFor(d, n, wanted)

\* Mutant: claims are replaced by those of the plan.
AcquireClaims_Replaces(d, n, wanted, run) ==
    WithEntry(d, n, [d.overlays[n] EXCEPT !.status = "applying", !.run = run, !.claims = wanted])

AcquireClaims(d, n, wanted, run) ==
    WithEntry(d, n, [d.overlays[n] EXCEPT !.status = "applying", !.run = run,
                                          !.claims = MergeClaims(@, wanted)])

\* Mutant: any run may report.
FinishRefused_AnyRun(d, n, run) == ~Registered(d, n)

FinishRefused(d, n, run) == Registered(d, n) => d.overlays[n].run # run

FinishClaims(claims, learned, released, dropped) ==
    LET merged == MergeClaims(claims, Restrict(learned, DOMAIN learned \ released))
    IN  Restrict(merged, DOMAIN merged \ dropped)

\* Mutant: run_id is not reset.
FinishApply_KeepsRun(d, n, ok, learned, released) ==
    WithEntry(d, n, [d.overlays[n] EXCEPT
        !.status = IF ok THEN "active" ELSE "dirty",
        !.claims = FinishClaims(@, learned, released, IF ok THEN released ELSE {})])

\* Mutant: a failed apply releases claims too.
FinishApply_ReleasesOnFailure(d, n, ok, learned, released) ==
    WithEntry(d, n, [d.overlays[n] EXCEPT
        !.status = IF ok THEN "active" ELSE "dirty",
        !.run    = Nil,
        !.claims = FinishClaims(@, learned, released, released)])

FinishApply(d, n, ok, learned, released) ==
    WithEntry(d, n, [d.overlays[n] EXCEPT
        !.status = IF ok THEN "active" ELSE "dirty",
        !.run    = Nil,
        !.claims = FinishClaims(@, learned, released, IF ok THEN released ELSE {})])

\* Mutant: neither expect_status nor expect_entry is looked at.
SetStatusRefused_Unguarded(d, n, from, loaded) == ~Registered(d, n)

\* set_status with expect_status = {from} and expect_entry = loaded.
SetStatusRefused(d, n, from, loaded) ==
    Registered(d, n) =>
        \/ d.overlays[n].status # from
        \/ loaded # Nil /\ d.overlays[n] # loaded

\* Mutant: claims are replaced, not merged.
SetStatus_Replaces(d, n, status, etag, claims) ==
    WithEntry(d, n, [d.overlays[n] EXCEPT !.status = status, !.etag = etag, !.claims = claims])

SetStatus(d, n, status, etag, claims) ==
    WithEntry(d, n, [d.overlays[n] EXCEPT !.status = status, !.etag = etag,
                                          !.claims = MergeClaims(@, claims)])

\* Mutant: an entry that is already gone is an error.
ReleaseRefused_Always(d, n) == ~Registered(d, n)

ReleaseRefused(d, n) == ~Registered(d, n) /\ n \notin d.tombstones

\* Mutant: the entry stays in overlays with its final status.
ReleaseOverlay_KeepsEntry(d, n) ==
    IF ~Registered(d, n) THEN d
    ELSE WithEntry(d, n, [d.overlays[n] EXCEPT !.status = "abandoned"])

\* Idempotent: an entry that is gone and has a tombstone is left as it is.
ReleaseOverlay(d, n) ==
    IF ~Registered(d, n) THEN d
    ELSE [overlays   |-> Restrict(d.overlays, DOMAIN d.overlays \ {n}),
          tombstones |-> d.tombstones \cup {n}]

==============================================================================
