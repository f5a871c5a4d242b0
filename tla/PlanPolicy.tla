----------------------------- MODULE PlanPolicy ------------------------------
(***************************************************************************)
(* What a tofu plan may contain: the policy an apply has to pass           *)
(* (evaluate and gate_targeted_plan), the verification of a merge          *)
(* (verify_import_plan) and the gate of the trunk pipeline                 *)
(* (guard_trunk_plan).                                                     *)
(*                                                                         *)
(* A change says what the policy looks at.  Reads and data sources are     *)
(* passed over like no-op; forget goes with delete; both orders of a       *)
(* replacement, and forget followed by create, are "replace".  The         *)
(* attributes an update changes are told apart as ignored_attributes,      *)
(* virtual_attributes and others.                                          *)
(* Of a claim only the kind is kept.  Ids, identities and the conflicts    *)
(* with other overlays (conflicts_for) are those of RegistryDoc; the       *)
(* identities of the base and of a trunk plan are left out.                *)
(***************************************************************************)
EXTENDS SequencesExt

CONSTANTS
    Addresses,  \* addresses of resource instances
    Nil

ASSUME PolicyAssumption == Nil \notin Addresses /\ IsFiniteSet(Addresses)

Actions == {"no-op", "create", "update", "delete", "replace"}

Attributes == {"ignored", "virtual", "other"}

Change ==
    [address: Addresses, from: Addresses \cup {Nil}, deposed: BOOLEAN, importing: BOOLEAN,
     action: Actions, differing: SUBSET Attributes]

Claims == UNION {[S -> {"create", "update"}] : S \in SUBSET Addresses}

\* A function with the values of another where that has some (dict.update).
Override(f, g) == [x \in DOMAIN f \cup DOMAIN g |-> IF x \in DOMAIN g THEN g[x] ELSE f[x]]

AddClaim(claims, a, kind) == Override(claims, [b \in {a} |-> kind])

DropClaims(claims, S) == Restrict(claims, DOMAIN claims \ S)

Creates(claims) == {a \in DOMAIN claims : claims[a] = "create"}
Updates(claims) == {a \in DOMAIN claims : claims[a] = "update"}

------------------------------------------------------------------------------
(* evaluate: the changes of a plan are visited one after the other.  The   *)
(* working set holds the claims, the addresses of own resources, and what  *)
(* has been found; base and baseline do not change.                        *)

Working(claims, base, baseline) ==
    [claims |-> claims, own |-> Creates(claims), base |-> base, baseline |-> baseline,
     violations |-> {}, drift |-> {}, ignored |-> {}]

IsBase(ev, a) == a \in ev.base

IsOwn(ev, a) == a \in ev.own \ ev.base

Violation(ev, c) == [ev EXCEPT !.violations = @ \cup {c.address}]

WithClaim(ev, a, kind) == [ev EXCEPT !.claims = AddClaim(@, a, kind)]

WithoutClaim(ev, a) == [ev EXCEPT !.claims = DropClaims(@, {a}), !.own = @ \ {a}]

\* The claim of an own resource follows it to its new address.
Moved(ev, c) ==
    IF c.from \in ev.own
    THEN [ev EXCEPT !.claims = AddClaim(DropClaims(@, {c.from}), c.address, @[c.from]),
                    !.own    = (@ \ {c.from}) \cup {c.address}]
    ELSE ev

VisitCreate(ev, c) ==
    IF IsBase(ev, c.address) THEN Violation(ev, c)
    ELSE [ev EXCEPT !.claims = AddClaim(@, c.address, "create"), !.own = @ \cup {c.address}]

OnlyIgnored(c) == c.differing # {} /\ c.differing \subseteq {"ignored"}

\* An update that is claimed already stays so; then noise, then trunk drift.
VisitBaseUpdate(ev, c) ==
    IF c.address \in Updates(ev.claims) THEN ev
    ELSE IF OnlyIgnored(c) THEN [ev EXCEPT !.ignored = @ \cup {c.address}]
    ELSE IF c.address \in ev.baseline THEN [ev EXCEPT !.drift = @ \cup {c.address}]
    ELSE WithClaim(ev, c.address, "update")

\* An unclaimed resource outside of the base is taken for an own one.
VisitUpdate(ev, c) == IF IsBase(ev, c.address) THEN VisitBaseUpdate(ev, c) ELSE ev

\* Mutant: whatever is claimed may be destroyed.
VisitDestructive_Claimed(ev, c) ==
    IF c.address \notin DOMAIN ev.claims THEN Violation(ev, c)
    ELSE IF c.action = "replace" THEN WithClaim(ev, c.address, "create")
    ELSE WithoutClaim(ev, c.address)

VisitDestructive(ev, c) ==
    IF ~IsOwn(ev, c.address) THEN Violation(ev, c)
    ELSE IF c.action = "replace" THEN WithClaim(ev, c.address, "create")
    ELSE WithoutClaim(ev, c.address)

VisitActions(ev, c) ==
    CASE c.action = "no-op"  -> ev
      [] c.action = "create" -> VisitCreate(ev, c)
      [] c.action = "update" -> VisitUpdate(ev, c)
      [] OTHER               -> VisitDestructive(ev, c)

Visit(ev, c) ==
    LET after == Moved(ev, c)
    IN  IF \/ c.importing
           \/ c.from # Nil /\ (IsBase(ev, c.from) \/ IsBase(ev, c.address))
           \/ c.deposed /\ ~IsOwn(after, c.address)
        THEN Violation(ev, c)
        ELSE VisitActions(after, c)

\* evaluate, for the changes in the order of the plan.
Evaluate(claims, base, baseline, changes) ==
    LET ev == FoldLeft(Visit, Working(claims, base, baseline), changes)
    IN  [ok |-> ev.violations = {},
         claims |-> ev.claims, drift |-> ev.drift, ignored |-> ev.ignored]

\* _classify_drift: the baseline is used when some update claim is new, unless
\* drift is accepted.
ClassifyDrift(claims, base, baseline, changes, acceptDrift) ==
    LET policy == Evaluate(claims, base, {}, changes)
    IN  IF acceptDrift \/ Updates(policy.claims) \subseteq DOMAIN claims THEN policy
        ELSE Evaluate(claims, base, baseline, changes)

------------------------------------------------------------------------------
(* apply --only-claims *)

Planned(changes) == {c.address : c \in {d \in changes : d.action # "no-op"}}

\* Mutant: drift that the targeted plan pulls in is not looked at.
GateTargeted_PullsDrift(changes, targeted, claims, full) == targeted.ok

\* gate_targeted_plan, of the policy targeted for a plan that was targeted
\* at the claims of the policy full.
GateTargeted(changes, targeted, claims, full) ==
    /\ targeted.ok
    /\ targeted.drift = {}
    /\ Planned(changes) \subseteq DOMAIN full.claims \cup DOMAIN claims \cup targeted.ignored

------------------------------------------------------------------------------
(* verify_import_plan *)

\* An import that changes nothing but what never round-trips.
CleanImport(c) ==
    /\ c.importing
    /\ \/ c.action = "no-op"
       \/ c.action = "update" /\ c.differing \subseteq {"virtual"}

\* Mutant: that the claim is imported is not looked at.
VerifyCreate_AnyChange(changes, a, accepted) ==
    \E c \in changes : c.address = a /\ ~c.deposed

\* A create claim is imported as it is, or was accepted for recreation.
VerifyCreate(changes, a, accepted) ==
    \E c \in changes :
        /\ c.address = a /\ ~c.deposed
        /\ IF a \in accepted THEN ~c.importing /\ c.action = "create" ELSE CleanImport(c)

\* Any other change: no-op, create, or an update that is claimed, drift, or
\* allowed.
VerifyOther(c, claims, baseline, allowUpdates) ==
    \/ c.action \in {"no-op", "create"}
    \/ /\ c.action = "update"
       /\ c.address \in Updates(claims) \cup baseline \/ allowUpdates

Verified(changes, claims, accepted, baseline, allowUpdates) ==
    /\ \A a \in Creates(claims) : VerifyCreate(changes, a, accepted)
    /\ \A c \in changes :
          c.address \in Creates(claims) \/ VerifyOther(c, claims, baseline, allowUpdates)

------------------------------------------------------------------------------
(* guard_trunk_plan *)

Destroys(c) == c.action \in {"delete", "replace"}

\* Mutant: the dependencies of creations are looked at, update claims are not.
GuardRefuses_NoUpdates(c, claims, dependencies) ==
    \/ c.action \in {"create", "replace"} /\ c.address \in Creates(claims)
    \/ Destroys(c) /\ c.address \in dependencies

\* dependencies: those recorded in the claims of what the overlay created.
GuardRefuses(c, claims, dependencies) ==
    \/ c.action \in {"create", "replace"} /\ c.address \in Creates(claims)
    \/ Destroys(c) /\ c.address \in Updates(claims) \cup dependencies

==============================================================================
