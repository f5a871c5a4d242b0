-------------------------- MODULE PolicedApplyProofs --------------------------
(***************************************************************************)
(* Theorems about the overlay of PolicedApply.  The types hold whatever    *)
(* the checkouts; the safety properties hold when all commands are run     *)
(* from one checkout, whose cache of the base cannot grow stale (with two  *)
(* they do not: see the run stale_cache).                                  *)
(***************************************************************************)
EXTENDS PolicedApply, PlanPolicyProofs

OneCheckout == \A v, w \in Checkouts : v = w

------------------------------------------------------------------------------
(* Plans. *)

LEMMA ChangeIs ==
    ASSUME NEW c \in Change
    PROVE  /\ c.address \in Addresses /\ c.address # Nil /\ c.from \in Addresses \cup {Nil}
           /\ c.deposed \in BOOLEAN /\ c.importing \in BOOLEAN /\ c.action \in Actions
BY PolicyAssumption DEF Change

LEMMA ToIs ==
    ASSUME NEW a \in Addresses, NEW action \in Actions
    PROVE  /\ To(a, action) \in Change /\ To(a, action).address = a
           /\ To(a, action).from = Nil /\ To(a, action).action = action
           /\ ~To(a, action).deposed /\ ~To(a, action).importing
BY DEF To, Change

LEMMA ExistingIs ==
    ASSUME NEW a \in Addresses, NEW kind \in Attributes, NEW c \in Existing(a, kind)
    PROVE  /\ c \in Change /\ c.address = a /\ c.from = Nil /\ ~c.deposed /\ ~c.importing
           /\ c.action \in {"update", "delete", "replace"}
<1>1. \A action \in {"update", "delete", "replace"} :
         /\ To(a, action) \in Change /\ To(a, action).address = a
         /\ To(a, action).from = Nil /\ To(a, action).action = action
         /\ ~To(a, action).deposed /\ ~To(a, action).importing
  BY ToIs DEF Actions
<1>2. CASE c \in {To(a, "delete"), To(a, "replace")}
  BY <1>1, <1>2
<1>3. CASE c \in UpdatesOf(a, kind)
  <2>1. PICK d \in SUBSET Attributes : c = [To(a, "update") EXCEPT !.differing = d]
    BY <1>3 DEF UpdatesOf, Attributes
  <2>2. QED  BY <1>1, <2>1 DEF Change
<1>4. QED  BY <1>2, <1>3 DEF Existing

LEMMA AbsentIs ==
    ASSUME NEW a \in Addresses, NEW c \in Absent(a)
    PROVE  /\ c \in Change /\ c.address = a /\ c.from = Nil /\ ~c.deposed
           /\ c.action # "delete" /\ (c.importing \/ c.action = "create")
<1>1. \A action \in {"no-op", "update", "create"} :
         /\ To(a, action) \in Change /\ To(a, action).address = a
         /\ To(a, action).from = Nil /\ To(a, action).action = action
         /\ ~To(a, action).deposed
  BY ToIs DEF Actions
<1>2. CASE c = To(a, "create")
  BY <1>1, <1>2
<1>3. CASE c \in Imports(a)
  <2>1. PICK d \in {To(a, "no-op")} \cup UpdatesOf(a, "virtual") : c = [d EXCEPT !.importing = TRUE]
    BY <1>3 DEF Imports
  <2>2. /\ d \in Change /\ d.address = a /\ d.from = Nil /\ ~d.deposed
        /\ d.action \in {"no-op", "update"}
    <3>1. CASE d = To(a, "no-op")
      BY <1>1, <3>1
    <3>2. CASE d \in UpdatesOf(a, "virtual")
      <4>1. PICK e \in SUBSET Attributes : d = [To(a, "update") EXCEPT !.differing = e]
        BY <3>2 DEF UpdatesOf, Attributes
      <4>2. QED  BY <1>1, <4>1 DEF Change
    <3>3. QED  BY <2>1, <3>1, <3>2
  <2>3. QED  BY <2>1, <2>2 DEF Change
<1>4. QED  BY <1>2, <1>3 DEF Absent

LEMMA MovesAre ==
    ASSUME NEW here \in SUBSET Addresses, NEW c \in Moves(here)
    PROVE  /\ c \in Change /\ c.from \in here /\ c.address \notin here
           /\ c.action \in {"no-op", "replace"}
<1>1. PICK a \in here, b \in Addresses \ here, action \in {"no-op", "replace"} :
         c = [To(b, action) EXCEPT !.from = a]
  BY DEF Moves
<1>2. To(b, action) \in Change /\ To(b, action).address = b /\ To(b, action).action = action
  BY ToIs DEF Actions
<1>3. QED  BY <1>1, <1>2 DEF Change

LEMMA PlansAre ==
    ASSUME NEW possible \in SUBSET Change, NEW p \in PlansOf(possible)
    PROVE  p \in SUBSET Change /\ p \subseteq possible /\ IsFiniteSet(p) /\ Consistent(p)
<1>1. PICK f \in UNION {[1..n -> possible] : n \in 0..MaxChanges} : p = Range(f) /\ Consistent(p)
  BY DEF PlansOf
<1>2. PICK n \in 0..MaxChanges : f \in [1..n -> possible]
  BY <1>1
<1>3. Range(f) = {f[i] : i \in 1..n} /\ Range(f) \subseteq possible
  BY <1>2 DEF Range
<1>4. IsFiniteSet(Range(f))
  <2>1. n \in Nat
    BY <1>2, PolicedAssumption
  <2>2. f \in Surjection(1..n, Range(f))
    BY <1>2, <1>3 DEF Surjection
  <2>3. IsFiniteSet(1..n)
    <3>1. n \in Int /\ 1 \in Int
      BY <2>1
    <3>2. QED  BY <3>1, FS_Interval
  <2>4. QED  BY <2>2, <2>3, FS_Surjection
<1>5. QED  BY <1>1, <1>3, <1>4

\* A change to the overlay state: what moves is there, and not yet at its new
\* address, and what is deleted is there.
OfOverlay(c) ==
    /\ c.from # Nil => /\ c.from \in overlay.here /\ c.address \notin overlay.here
                       /\ c.action # "delete"
    /\ c.action = "delete" => c.address \in overlay.here

LEMMA OverlayPlansAre ==
    ASSUME overlay \in State, overlay.deposed \subseteq overlay.here, NEW p \in OverlayPlans
    PROVE  /\ p \in SUBSET Change /\ IsFiniteSet(p) /\ Consistent(p)
           /\ \A c \in p : OfOverlay(c)
<1> DEFINE here     == overlay.here
           possible == (UNION {Existing(a, "ignored") : a \in here})
                          \cup (UNION {Absent(a) : a \in Addresses \ here}) \cup Moves(here)
           always   == Deposed(overlay)
<1>1. here \in SUBSET Addresses /\ overlay.deposed \subseteq here /\ "ignored" \in Attributes
  BY DEF State, Attributes
<1>2. ASSUME NEW c \in possible  PROVE c \in Change /\ OfOverlay(c)
  <2>1. CASE c \in UNION {Existing(a, "ignored") : a \in here}
    <3>1. PICK a \in here : c \in Existing(a, "ignored")
      BY <2>1
    <3>2. QED  BY <1>1, <3>1, ExistingIs DEF OfOverlay
  <2>2. CASE c \in UNION {Absent(a) : a \in Addresses \ here}
    <3>1. PICK a \in Addresses \ here : c \in Absent(a)
      BY <2>2
    <3>2. QED  BY <1>1, <3>1, AbsentIs DEF OfOverlay
  <2>3. CASE c \in Moves(here)
    BY <1>1, <2>3, MovesAre DEF OfOverlay
  <2>4. QED  BY <1>2, <2>1, <2>2, <2>3
<1>3. always = {[To(a, "delete") EXCEPT !.deposed = TRUE] : a \in overlay.deposed}
  BY DEF Deposed
<1>4. ASSUME NEW c \in always  PROVE c \in Change /\ OfOverlay(c)
  <2>1. PICK a \in overlay.deposed : c = [To(a, "delete") EXCEPT !.deposed = TRUE]
    BY <1>3
  <2>2. To(a, "delete") \in Change /\ To(a, "delete").address = a /\ To(a, "delete").from = Nil
    BY <1>1, ToIs DEF Actions
  <2>3. c \in Change /\ c.address = a /\ c.from = Nil
    BY <2>1, <2>2 DEF Change
  <2>4. QED  BY <1>1, <2>3 DEF OfOverlay
<1>5. IsFiniteSet(always)
  <2> DEFINE f == [a \in overlay.deposed |-> [To(a, "delete") EXCEPT !.deposed = TRUE]]
  <2>1. f \in Surjection(overlay.deposed, always)
    BY <1>3 DEF Surjection
  <2>2. IsFiniteSet(overlay.deposed)
    BY <1>1, PolicyAssumption, FS_Subset
  <2> HIDE DEF f, always
  <2>3. QED  BY <2>1, <2>2, FS_Surjection
<1>6. PlansOfBranch[here] = PlansOf(possible)
  BY <1>1 DEF PlansOfBranch
<1> HIDE DEF possible, always
<1>7. PICK q \in PlansOf(possible) : p = q \cup always /\ Consistent(p)
  BY <1>6 DEF OverlayPlans, always
<1>8. q \in SUBSET Change /\ q \subseteq possible /\ IsFiniteSet(q)
  <2>1. possible \in SUBSET Change
    BY <1>2
  <2>2. QED  BY <1>7, <2>1, PlansAre
<1>9. IsFiniteSet(p)
  BY <1>5, <1>7, <1>8, FS_Union
<1>10. QED  BY <1>2, <1>4, <1>7, <1>8, <1>9

LEMMA BasePlansAre ==
    ASSUME base.addresses \in SUBSET Addresses, NEW p \in BasePlans
    PROVE  /\ p \in SUBSET Change /\ Consistent(p)
           /\ \A c \in p : c.from = Nil /\ ~c.deposed
<1> DEFINE possible == (UNION {Existing(a, "virtual") : a \in base.addresses})
                          \cup (UNION {Absent(a) : a \in Addresses \ base.addresses})
<1>1. "virtual" \in Attributes
  BY DEF Attributes
<1>2. ASSUME NEW c \in possible  PROVE c \in Change /\ c.from = Nil /\ ~c.deposed
  <2>1. CASE c \in UNION {Existing(a, "virtual") : a \in base.addresses}
    <3>1. PICK a \in base.addresses : c \in Existing(a, "virtual")
      BY <2>1
    <3>2. QED  BY <1>1, <3>1, ExistingIs
  <2>2. CASE c \in UNION {Absent(a) : a \in Addresses \ base.addresses}
    <3>1. PICK a \in Addresses \ base.addresses : c \in Absent(a)
      BY <2>2
    <3>2. QED  BY <3>1, AbsentIs
  <2>3. QED  BY <1>2, <2>1, <2>2
<1>3. p \in PlansOf(possible)
  BY DEF BasePlans, PlansOfTrunk
<1> HIDE DEF possible
<1>4. possible \in SUBSET Change
  BY <1>2
<1>5. QED  BY <1>2, <1>3, <1>4, PlansAre

LEMMA AfterIs ==
    ASSUME NEW here \in SUBSET Addresses, NEW changes \in SUBSET Change
    PROVE  /\ After(here, changes) \in SUBSET Addresses
           /\ \A x \in here \ After(here, changes) :
                 \E c \in changes : c.from = x \/ (c.address = x /\ c.action = "delete" /\ ~c.deposed)
           /\ \A x \in After(here, changes) \ here :
                 \E c \in changes : c.address = x /\ (c.action = "create" \/ c.from # Nil \/ c.importing)
BY ChangeIs DEF After, Removed

------------------------------------------------------------------------------
(* Types. *)

\* What a plan leaves for its run: changes that were planned, with the result
\* of evaluate for them, in which no drift is left.
LEMMA PlanLeaves ==
    ASSUME NEW w \in Checkouts, Plan(w)
    PROVE  \E changes \in OverlayPlans : \E some \in SUBSET changes :
           \E order \in SetToSeqs(some), baseline \in {{}, lag} :
              LET result == Evaluate(entry.claims, BaseAddresses(w), baseline, order)
              IN  /\ result.ok /\ result.drift = {}
                  /\ pending' = [changes |-> some, claims |-> result.claims]
<1> DEFINE Passes(changes, order, acceptDrift, given) ==
              LET full == ClassifyDrift(entry.claims, BaseAddresses(w), given, order, acceptDrift)
              IN  /\ full.ok
                  /\ \/ /\ full.drift = {}
                        /\ Planned(changes) # {}
                        /\ pending' = [changes |-> changes, claims |-> full.claims]
                     \/ /\ ~acceptDrift /\ full.drift \cup full.ignored # {}
                        /\ DOMAIN full.claims # {}
                        /\ \E some \in SUBSET changes : \E part \in SetToSeqs(some) :
                              LET targeted == Evaluate(entry.claims, BaseAddresses(w),
                                        IF full.drift = {} THEN {} ELSE given, part)
                              IN  /\ GateTargeted(some, targeted, entry.claims, full)
                                  /\ Planned(some) # {}
                                  /\ pending' = [changes |-> some, claims |-> targeted.claims]
<1>0. \E changes \in OverlayPlans : \E order \in SetToSeqs(changes) :
         \E acceptDrift \in BOOLEAN : \E given \in IF acceptDrift THEN {{}} ELSE {{}, lag} :
            Passes(changes, order, acceptDrift, given)
  BY Zenon DEF Plan
<1> HIDE DEF Passes
<1>1. PICK changes \in OverlayPlans : \E order \in SetToSeqs(changes) :
         \E acceptDrift \in BOOLEAN : \E given \in IF acceptDrift THEN {{}} ELSE {{}, lag} :
            Passes(changes, order, acceptDrift, given)
  BY <1>0
<1>2. PICK order \in SetToSeqs(changes), acceptDrift \in BOOLEAN, given \in {{}, lag} :
         Passes(changes, order, acceptDrift, given)
  BY <1>1
<1> USE DEF Passes
<1> DEFINE full == ClassifyDrift(entry.claims, BaseAddresses(w), given, order, acceptDrift)
<1>3. \E used \in {{}, given} : full = Evaluate(entry.claims, BaseAddresses(w), used, order)
  BY DEF ClassifyDrift
<1> HIDE DEF full
<1>4. CASE full.ok /\ full.drift = {} /\ pending' = [changes |-> changes, claims |-> full.claims]
  BY <1>3, <1>4
<1>5. CASE \E some \in SUBSET changes : \E part \in SetToSeqs(some) :
              LET targeted == Evaluate(entry.claims, BaseAddresses(w),
                        IF full.drift = {} THEN {} ELSE given, part)
              IN  /\ GateTargeted(some, targeted, entry.claims, full)
                  /\ pending' = [changes |-> some, claims |-> targeted.claims]
  <2> DEFINE used == IF full.drift = {} THEN {} ELSE given
             targeted(part) == Evaluate(entry.claims, BaseAddresses(w), used, part)
  <2>0. PICK some \in SUBSET changes : \E part \in SetToSeqs(some) :
               /\ GateTargeted(some, targeted(part), entry.claims, full)
               /\ pending' = [changes |-> some, claims |-> targeted(part).claims]
    BY <1>5
  <2>1. PICK part \in SetToSeqs(some) :
               /\ GateTargeted(some, targeted(part), entry.claims, full)
               /\ pending' = [changes |-> some, claims |-> targeted(part).claims]
    BY <2>0
  <2>2. targeted(part).ok /\ targeted(part).drift = {}
    BY <2>1 DEF GateTargeted
  <2>3. used \in {{}, lag}
    OBVIOUS
  <2>4. QED  BY <2>1, <2>2, <2>3
<1>6. QED  BY <1>2, <1>4, <1>5 DEF full

LEMMA NoClaims == << >> \in Claims /\ Creates(<< >>) = {} /\ Updates(<< >>) = {}
<1>1. << >> = [a \in {} |-> "create"] /\ DOMAIN << >> = {}
  OBVIOUS
<1>2. << >> \in [{} -> {"create", "update"}]
  BY <1>1
<1>3. QED  BY <1>1, <1>2 DEF Claims, Creates, Updates

LEMMA RecordsAreNotNil ==
    /\ \A e \in Entry : e # Nil
    /\ \A o \in State : o # Nil
    /\ \A p \in Pending : p # Nil
    /\ \A m \in Merged : m # Nil
BY NilAssumption

\* The claims of a plan that is to be run, with those there are.
LEMMA PlanIsTyped ==
    ASSUME TypeOK, NEW w \in Checkouts, Plan(w)
    PROVE  pending' \in Pending
<1>1. /\ entry \in Entry /\ overlay \in State /\ overlay.deposed \subseteq overlay.here
      /\ entry.claims \in Claims /\ lag \in SUBSET Addresses
  BY DEF TypeOK, Plan, Workable, Entry
<1>p. PICK changes \in OverlayPlans :
         \E some \in SUBSET changes : \E order \in SetToSeqs(some), baseline \in {{}, lag} :
            LET result == Evaluate(entry.claims, BaseAddresses(w), baseline, order)
            IN  /\ result.ok /\ result.drift = {}
                /\ pending' = [changes |-> some, claims |-> result.claims]
  BY PlanLeaves
<1>2. PICK some \in SUBSET changes :
         \E order \in SetToSeqs(some), baseline \in {{}, lag} :
            LET result == Evaluate(entry.claims, BaseAddresses(w), baseline, order)
            IN  /\ result.ok /\ result.drift = {}
                /\ pending' = [changes |-> some, claims |-> result.claims]
  BY <1>p
<1>3. PICK order \in SetToSeqs(some), baseline \in {{}, lag} :
         pending' = [changes |-> some,
                     claims |-> Evaluate(entry.claims, BaseAddresses(w), baseline, order).claims]
  BY <1>2
<1>4. some \in SUBSET Change /\ IsFiniteSet(some)
  <2>1. changes \in SUBSET Change /\ IsFiniteSet(changes)
    BY <1>1, OverlayPlansAre
  <2>2. QED  BY <2>1, FS_Subset
<1>5. BaseAddresses(w) \in SUBSET Addresses
  BY DEF TypeOK, BaseAddresses
<1>6. Evaluate(entry.claims, BaseAddresses(w), baseline, order).claims \in Claims
  BY <1>1, <1>3, <1>4, <1>5, EvaluateIsTyped
<1>7. QED  BY <1>3, <1>4, <1>6 DEF Pending

LEMMA TypeIsInductive ==
    ASSUME TypeOK, [Next]_vars
    PROVE  TypeOK'
<1>t. /\ base.version \in 0..MaxVersion /\ base.addresses \in SUBSET Addresses
      /\ base.adopted \in SUBSET Addresses /\ MaxVersion \in Nat
  BY PolicedAssumption DEF TypeOK
<1>e. entry # Nil => /\ entry \in Entry /\ overlay \in State /\ overlay # Nil
                     /\ entry.version \in 0..MaxVersion /\ entry.claims \in Claims
                     /\ overlay.here \in SUBSET Addresses /\ overlay.base \in SUBSET Addresses
                     /\ overlay.deposed \subseteq overlay.here
  BY DEF TypeOK, Entry, State
<1>1. ASSUME NEW w \in Checkouts, Create(w)  PROVE TypeOK'
  <2>1. /\ entry' \in Entry /\ entry'.version = base.version
        /\ overlay' \in State /\ overlay'.deposed \subseteq overlay'.here
    BY <1>1, <1>t, NoClaims DEF Create, Entry, State
  <2>2. cache' \in [Checkouts -> {Nil} \cup SUBSET Addresses]
    BY <1>1, <1>t DEF Create, TypeOK
  <2>3. pending' = Nil /\ merged' = Nil /\ entry' # Nil /\ overlay' # Nil
    BY <1>1, <2>1, RecordsAreNotNil DEF Create, TypeOK
  <2>4. UNCHANGED <<base, lag, updated>>
    BY <1>1 DEF Create
  <2>5. QED  BY <1>t, <2>1, <2>2, <2>3, <2>4 DEF TypeOK
<1>2. ASSUME NEW w \in Checkouts, Plan(w)  PROVE TypeOK'
  <2>1. cache' \in [Checkouts -> {Nil} \cup SUBSET Addresses]
    BY <1>2, <1>t DEF Plan, TypeOK, BaseAddresses
  <2>2. pending' \in Pending
    BY <1>2, PlanIsTyped
  <2>3. /\ entry # Nil /\ entry.status # "merging"
        /\ UNCHANGED <<base, lag, entry, overlay, merged, updated>>
    BY <1>2 DEF Plan, Workable
  <2>4. QED  BY <2>1, <2>2, <2>3 DEF TypeOK
<1>3. ASSUME NEW w \in Checkouts, Rebase(w)  PROVE TypeOK'
  <2>1. entry # Nil /\ UNCHANGED <<base, lag, pending, merged, updated>>
    BY <1>3 DEF Rebase, Active
  <2>2. /\ overlay' \in State /\ overlay'.deposed \subseteq overlay'.here
    BY <1>3, <1>t, <1>e, <2>1 DEF Rebase, State
  <2>3. entry' \in Entry /\ entry'.version = base.version /\ entry'.status = "active"
    BY <1>3, <1>t, <1>e, <2>1 DEF Rebase, Entry, Active
  <2>4. cache' \in [Checkouts -> {Nil} \cup SUBSET Addresses]
    BY <1>3, <1>t DEF Rebase, TypeOK
  <2>5. entry' # Nil /\ overlay' # Nil
    BY <2>2, <2>3, RecordsAreNotNil
  <2>6. merged = Nil
    BY <1>3 DEF Rebase, Active, TypeOK
  <2>7. QED  BY <1>t, <2>1, <2>2, <2>3, <2>4, <2>5, <2>6 DEF TypeOK
<1>4. ASSUME Run  PROVE TypeOK'
  <2>1. /\ entry # Nil /\ pending \in Pending /\ merged = Nil /\ pending' = Nil
        /\ UNCHANGED <<base, lag, cache, merged>>
    BY <1>4 DEF Run, TypeOK
  <2>2. pending.changes \in SUBSET Change /\ pending.claims \in Claims
    BY <2>1 DEF Pending
  <2>3. PICK some \in SUBSET pending.changes, ok \in BOOLEAN :
           LET acquired == Override(entry.claims, pending.claims)
               released == DOMAIN entry.claims \ DOMAIN pending.claims
               here     == After(overlay.here, some)
               replaced == {c.address : c \in {d \in pending.changes : d.action = "replace"}}
               gone     == {c.address : c \in {d \in some : d.deposed}}
           IN  /\ \E left \in IF ok THEN {{}} ELSE {{}, replaced} :
                    overlay' = [overlay EXCEPT !.here = here,
                                               !.deposed = ((@ \ gone) \cup left) \cap here]
               /\ entry' = [entry EXCEPT
                      !.status = IF ok THEN "active" ELSE "dirty",
                      !.claims = IF ok THEN Release(acquired, released, here) ELSE acquired]
               /\ updated' = updated \cup {c.address : c \in {d \in some :
                      /\ d.address \in overlay.base
                      /\ d.action = "update" /\ ~(d.differing \subseteq {"ignored"})}}
    BY <1>4 DEF Run
  <2> DEFINE acquired == Override(entry.claims, pending.claims)
             released == DOMAIN entry.claims \ DOMAIN pending.claims
             here     == After(overlay.here, some)
             claims   == IF ok THEN Release(acquired, released, here) ELSE acquired
  <2>4. acquired \in Claims
    BY <1>e, <2>1, <2>2, ClaimsUnite
  <2>5. claims \in Claims
    <3> HIDE DEF acquired, here, released
    <3> QED  BY <2>4, WithoutClaimIs DEF Release
  <2>6. here \in SUBSET Addresses
    BY <1>e, <2>1, <2>2, AfterIs
  <2>7. PICK left : overlay' = [overlay EXCEPT !.here = here, !.deposed = left \cap here]
    BY <2>3
  <2>8. entry' = [entry EXCEPT !.status = IF ok THEN "active" ELSE "dirty", !.claims = claims]
    BY <2>3
  <2>9. updated' \subseteq Addresses
    BY <2>2, <2>3, ChangeIs DEF TypeOK
  <2> HIDE DEF claims, here
  <2>10. overlay' \in State /\ overlay'.deposed \subseteq overlay'.here
    BY <1>e, <2>1, <2>6, <2>7 DEF State
  <2>11. entry' \in Entry /\ entry'.version = entry.version
    BY <1>e, <2>1, <2>5, <2>8 DEF Entry
  <2>12. entry' # Nil /\ overlay' # Nil
    BY <2>10, <2>11, RecordsAreNotNil
  <2>13. QED  BY <2>1, <2>9, <2>10, <2>11, <2>12 DEF TypeOK
<1>5. ASSUME GiveUp  PROVE TypeOK'
  BY <1>5 DEF GiveUp, TypeOK
<1>6. ASSUME Merge  PROVE TypeOK'
  <2>1. /\ entry # Nil /\ pending = Nil /\ UNCHANGED <<base, lag, overlay, cache, pending, updated>>
        /\ entry' = [entry EXCEPT !.status = "merging"]
    BY <1>6 DEF Merge, Active
  <2>2. entry' \in Entry /\ entry'.status = "merging" /\ entry'.version = entry.version
    BY <1>e, <2>1 DEF Entry
  <2>3. PICK changes \in BasePlans, accepted \in SUBSET Creates(entry.claims) :
           merged' = [changes |-> changes, accepted |-> accepted]
    BY <1>6 DEF Merge
  <2>4. changes \in SUBSET Change /\ accepted \in SUBSET Addresses
    BY <1>t, <1>e, <2>1, BasePlansAre, KindsAre
  <2>5. merged' \in Merged
    BY <2>3, <2>4 DEF Merged
  <2>6. entry' # Nil
    BY <2>2, RecordsAreNotNil
  <2>7. QED  BY <1>e, <2>1, <2>2, <2>5, <2>6 DEF TypeOK
<1>7. ASSUME Undo  PROVE TypeOK'
  <2>1. /\ entry # Nil /\ entry.status = "merging" /\ merged' = Nil
        /\ entry' = [entry EXCEPT !.status = "active"]
        /\ UNCHANGED <<base, lag, overlay, cache, pending, updated>>
    BY <1>7 DEF Undo
  <2>2. entry' \in Entry /\ entry'.status = "active" /\ entry'.version = entry.version
    BY <1>e, <2>1 DEF Entry
  <2>3. entry' # Nil
    BY <2>2, RecordsAreNotNil
  <2>4. QED  BY <1>e, <2>1, <2>2, <2>3 DEF TypeOK
<1>8. ASSUME Finalize  PROVE TypeOK'
  BY <1>8 DEF Finalize, TypeOK
<1>9. ASSUME base.version < MaxVersion, NEW changes \in SUBSET Change, BaseBecomes(changes)
      PROVE  TypeOK'
  <2>1. After(base.addresses, changes) \in SUBSET Addresses
    BY <1>t, <1>9, AfterIs
  <2>2. /\ base'.version \in 0..MaxVersion /\ base'.version = base.version + 1
        /\ base'.addresses = After(base.addresses, changes)
        /\ base'.adopted \subseteq base'.addresses
        /\ base' = [version |-> base'.version, addresses |-> base'.addresses,
                    adopted |-> base'.adopted]
    BY <1>t, <1>9 DEF BaseBecomes
  <2>3. base' \in [version: 0..MaxVersion, addresses: SUBSET Addresses, adopted: SUBSET Addresses]
    BY <2>1, <2>2
  <2>4. lag' = {} /\ merged' = Nil /\ UNCHANGED <<entry, overlay, cache, pending, updated>>
    BY <1>9 DEF BaseBecomes
  <2>5. entry # Nil => entry.version <= base'.version
    BY <1>t, <1>e, <2>2 DEF TypeOK
  <2>6. QED  BY <2>2, <2>3, <2>4, <2>5 DEF TypeOK
<1>10. ASSUME TrunkCommits  PROVE TypeOK'
  BY <1>10, <1>t DEF TrunkCommits, TypeOK
<1>11. ASSUME TrunkApplies  PROVE TypeOK'
  <2>1. base.version < MaxVersion /\ \E changes \in BasePlans : BaseBecomes(changes)
    BY <1>11 DEF TrunkApplies
  <2>2. BasePlans \subseteq SUBSET Change
    BY <1>t, BasePlansAre
  <2>3. QED  BY <1>9, <2>1, <2>2
<1>12. ASSUME TrunkMerges  PROVE TypeOK'
  BY <1>9, <1>12 DEF TrunkMerges, TypeOK, Merged
<1>13. ASSUME UNCHANGED vars  PROVE TypeOK'
  BY <1>13 DEF vars, TypeOK
<1>14. QED  BY <1>1, <1>2, <1>3, <1>4, <1>5, <1>6, <1>7, <1>8, <1>10, <1>11, <1>12, <1>13 DEF Next

LEMMA TypeInit == Init => TypeOK
<1> SUFFICES ASSUME Init  PROVE TypeOK
  OBVIOUS
<1>1. /\ base = [version |-> 0, addresses |-> Initial, adopted |-> {}]
      /\ lag = {} /\ entry = Nil /\ overlay = Nil /\ cache = [w \in Checkouts |-> Nil]
      /\ pending = Nil /\ merged = Nil /\ updated = {}
  BY DEF Init
<1>2. 0 \in 0..MaxVersion /\ Initial \subseteq Addresses
  BY PolicedAssumption
<1>3. QED  BY <1>1, <1>2 DEF TypeOK

\* The state is always of its types, whatever the checkouts have cached: every
\* plan evaluate accepts, in any order, leaves claims behind.
THEOREM TypeCorrect == Spec => []TypeOK
<1>1. TypeOK /\ [Next]_vars => TypeOK'
  BY TypeIsInductive
<1>2. QED  BY TypeInit, <1>1, PTL DEF Spec

------------------------------------------------------------------------------
(* The inductive invariant. *)

\* The fork is the base that the checkout has cached, and the base itself as
\* long as the overlay is fresh; the claims fit it.
Founded ==
    /\ \A w \in Checkouts : cache[w] = overlay.base
    /\ entry.version = base.version => overlay.base = base.addresses
    /\ Fitting(entry.claims, overlay.base)

\* What a plan that waits for its run may do to the overlay state.
Harmless(c) ==
    /\ Passed(c, overlay.base)
    /\ c.action = "update" /\ c.address \in overlay.base /\ Material(c) =>
          c.address \in Updates(pending.claims)
    /\ c.address \notin overlay.here /\ (c.action = "create" \/ c.from # Nil) =>
          c.address \in Creates(pending.claims)

Checked ==
    /\ Fitting(pending.claims, overlay.base)
    /\ Updates(entry.claims) \subseteq Updates(pending.claims)
    /\ \A c \in pending.changes : Harmless(c)

\* What a merge was verified for, as long as neither base nor claims change.
VerifiedFor(changes, accepted) ==
    /\ changes \in BasePlans
    /\ \A a \in Creates(entry.claims) : VerifyCreate(changes, a, accepted)
    /\ \A c \in changes : c.address \in Creates(entry.claims) \/ ~Destroys(c)

IInv ==
    /\ TypeOK
    /\ entry = Nil => updated = {}
    /\ entry # Nil => Founded
    /\ BaseIsKept /\ OwnIsClaimed /\ BaseUpdatesAreClaimed /\ ClaimsFitTheBase
    /\ pending # Nil => Checked
    /\ merged # Nil => VerifiedFor(merged.changes, merged.accepted)

------------------------------------------------------------------------------
(* The steps of the overlay. *)

LEMMA IInvParts ==
    ASSUME IInv, entry # Nil
    PROVE  /\ entry \in Entry /\ overlay \in State /\ entry.claims \in Claims
           /\ overlay.here \in SUBSET Addresses /\ overlay.base \in SUBSET Addresses
           /\ overlay.deposed \subseteq overlay.here /\ base.addresses \in SUBSET Addresses
           /\ \A w \in Checkouts : cache[w] = overlay.base
           /\ entry.version = base.version => overlay.base = base.addresses
           /\ Fitting(entry.claims, overlay.base)
           /\ Creates(entry.claims) \cap overlay.base = {}
           /\ Updates(entry.claims) \subseteq overlay.base
           /\ overlay.base \subseteq overlay.here
           /\ overlay.here \ overlay.base \subseteq Creates(entry.claims)
           /\ updated \subseteq Updates(entry.claims)
           /\ Updates(entry.claims) \subseteq base.addresses
           /\ Creates(entry.claims) \cap base.addresses \subseteq base.adopted
BY DEF IInv, TypeOK, Entry, State, Founded, Fitting, BaseIsKept, OwnIsClaimed, Own,
       BaseUpdatesAreClaimed, ClaimsFitTheBase

\* Conversely, for the state after a step.
LEMMA IInvFromParts ==
    ASSUME TypeOK', entry' # Nil, Founded',
           (overlay.base \subseteq overlay.here)',
           (overlay.here \ overlay.base \subseteq Creates(entry.claims))',
           (updated \subseteq Updates(entry.claims))',
           (Updates(entry.claims) \subseteq base.addresses)',
           (Creates(entry.claims) \cap base.addresses \subseteq base.adopted)',
           (pending # Nil => Checked)',
           (merged # Nil => VerifiedFor(merged.changes, merged.accepted))'
    PROVE  IInv'
BY DEF IInv, BaseIsKept, OwnIsClaimed, Own, BaseUpdatesAreClaimed, ClaimsFitTheBase

\* A change that brings an own resource to a new address is the only one that
\* touches it.
LEMMA NewIsSteady ==
    ASSUME NEW changes \in SUBSET Change, Consistent(changes),
           \A c \in changes : OfOverlay(c),
           NEW c \in changes, c.address \notin overlay.here,
           c.action = "create" \/ (c.from # Nil /\ c.from \in Creates(entry.claims))
    PROVE  Steady(c, changes, entry.claims)
<1>1. ASSUME NEW d \in changes \ {c}
      PROVE  d.from # c.address /\ ~(d.address = c.address /\ d.action = "delete")
  <2>1. d \in Change /\ c \in Change /\ OfOverlay(d)
    OBVIOUS
  <2>2. QED  BY <2>1, ChangeIs DEF OfOverlay
<1>2. ASSUME NEW d \in changes \ {c}, c.from # Nil
      PROVE  d.from # c.from /\ ~(d.address = c.from /\ d.action = "delete")
  <2>1. \/ {c.address, c.from} \cap {d.address, d.from} \subseteq {Nil}
        \/ {c.from, d.from} = {Nil}
    BY DEF Consistent
  <2>2. c.from \in {c.address, c.from} /\ c.from \in {c.from, d.from}
    OBVIOUS
  <2>3. {c.from, d.from} # {Nil}
    BY <1>2, <2>2
  <2>4. c.from \notin {d.address, d.from}
    <3> SUFFICES ASSUME c.from \in {d.address, d.from}  PROVE c.from \in {Nil}
      BY <1>2
    <3>1. c.from \in {c.address, c.from} \cap {d.address, d.from}
      BY <2>2
    <3>2. QED  BY <2>1, <2>3, <3>1
  <2>5. QED  BY <2>4
<1>3. c.from # Nil => c.action # "delete"
  BY DEF OfOverlay
<1>4. QED  BY <1>1, <1>2, <1>3 DEF Steady

LEMMA PlanKeepsIInv ==
    ASSUME IInv, NEW w \in Checkouts, Plan(w), TypeOK'
    PROVE  IInv'
<1>1. /\ entry # Nil /\ entry.version = base.version /\ Workable
      /\ cache' = [cache EXCEPT ![w] = BaseAddresses(w)]
      /\ UNCHANGED <<base, lag, entry, overlay, merged, updated>>
  BY DEF Plan, Workable
<1>2. /\ entry \in Entry /\ overlay \in State /\ entry.claims \in Claims
      /\ overlay.here \in SUBSET Addresses /\ overlay.base \in SUBSET Addresses
      /\ overlay.deposed \subseteq overlay.here
      /\ \A v \in Checkouts : cache[v] = overlay.base
      /\ overlay.base = base.addresses
      /\ Fitting(entry.claims, overlay.base)
      /\ overlay.base \subseteq overlay.here
      /\ overlay.here \ overlay.base \subseteq Creates(entry.claims)
  BY <1>1, IInvParts
<1>3. BaseAddresses(w) = overlay.base
  BY <1>2 DEF BaseAddresses
<1>4. PICK changes \in OverlayPlans :
         \E some \in SUBSET changes : \E order \in SetToSeqs(some), baseline \in {{}, lag} :
            LET result == Evaluate(entry.claims, BaseAddresses(w), baseline, order)
            IN  /\ result.ok /\ result.drift = {}
                /\ pending' = [changes |-> some, claims |-> result.claims]
  BY PlanLeaves
<1>5. PICK some \in SUBSET changes :
         \E order \in SetToSeqs(some), baseline \in {{}, lag} :
            LET result == Evaluate(entry.claims, BaseAddresses(w), baseline, order)
            IN  /\ result.ok /\ result.drift = {}
                /\ pending' = [changes |-> some, claims |-> result.claims]
  BY <1>4
<1>6. PICK order \in SetToSeqs(some), baseline \in {{}, lag} :
            LET result == Evaluate(entry.claims, BaseAddresses(w), baseline, order)
            IN  /\ result.ok /\ result.drift = {}
                /\ pending' = [changes |-> some, claims |-> result.claims]
  BY <1>5
<1> DEFINE result == Evaluate(entry.claims, overlay.base, baseline, order)
<1>7. /\ result.ok /\ result.drift = {}
      /\ pending' = [changes |-> some, claims |-> result.claims]
  BY <1>3, <1>6
<1>8. /\ some \in SUBSET Change /\ IsFiniteSet(some) /\ Consistent(some)
      /\ \A c \in some : OfOverlay(c)
  <2>1. /\ changes \in SUBSET Change /\ IsFiniteSet(changes) /\ Consistent(changes)
        /\ \A c \in changes : OfOverlay(c)
    BY <1>2, OverlayPlansAre
  <2>2. IsFiniteSet(some)
    BY <2>1, FS_Subset
  <2>3. Consistent(some)
    BY <2>1 DEF Consistent
  <2>4. QED  BY <2>1, <2>2, <2>3
<1>9. baseline \in SUBSET Addresses
  BY DEF IInv, TypeOK
<1>10. /\ Fitting(result.claims, overlay.base)
       /\ Updates(entry.claims) \subseteq Updates(result.claims)
       /\ \A c \in some :
             /\ Passed(c, overlay.base)
             /\ c.action = "update" /\ c.address \in overlay.base /\ Material(c)
                   => c.address \in Updates(result.claims) \cup result.drift
             /\ Steady(c, some, entry.claims) => c.address \in Creates(result.claims)
  BY <1>2, <1>7, <1>8, <1>9, PlanAccepted
<1> HIDE DEF result
<1>11. ASSUME NEW c \in some
       PROVE  /\ Passed(c, overlay.base)
              /\ c.action = "update" /\ c.address \in overlay.base /\ Material(c) =>
                    c.address \in Updates(result.claims)
              /\ c.address \notin overlay.here /\ (c.action = "create" \/ c.from # Nil) =>
                    c.address \in Creates(result.claims)
  <2>1. c.from # Nil => c.from \in Creates(entry.claims)
    <3>1. c.from # Nil => c.from \in overlay.here /\ c.from \notin overlay.base
      BY <1>8, <1>10 DEF OfOverlay, Passed
    <3>2. QED  BY <1>2, <3>1
  <2>2. c.address \notin overlay.here /\ (c.action = "create" \/ c.from # Nil) =>
           Steady(c, some, entry.claims)
    BY <1>8, <2>1, NewIsSteady
  <2>3. QED  BY <1>7, <1>10, <2>2
<1>12. Checked'
  <2>1. /\ pending'.changes = some /\ pending'.claims = result.claims
        /\ overlay' = overlay /\ entry' = entry
    BY <1>1, <1>7
  <2>2. QED  BY <1>10, <1>11, <2>1 DEF Checked, Harmless
<1>13. Founded'
  <2>1. \A v \in Checkouts : cache'[v] = overlay'.base
    BY <1>1, <1>2, <1>3 DEF IInv, TypeOK
  <2>2. QED  BY <1>1, <1>2, <2>1 DEF Founded
<1>14. merged' = Nil
  BY <1>1 DEF IInv, TypeOK, Workable
<1>15. QED
  <2>1. /\ entry' = entry /\ overlay' = overlay /\ base' = base /\ updated' = updated
        /\ entry' # Nil
    BY <1>1
  <2>2. /\ overlay.base \subseteq overlay.here
        /\ overlay.here \ overlay.base \subseteq Creates(entry.claims)
        /\ updated \subseteq Updates(entry.claims)
        /\ Updates(entry.claims) \subseteq base.addresses
        /\ Creates(entry.claims) \cap base.addresses \subseteq base.adopted
    BY <1>1, IInvParts
  <2>3. QED  BY <1>12, <1>13, <1>14, <2>1, <2>2, IInvFromParts

LEMMA RunKeepsIInv ==
    ASSUME IInv, Run, TypeOK'
    PROVE  IInv'
<1>1. /\ pending # Nil /\ entry # Nil /\ entry.version = base.version
      /\ pending \in Pending /\ merged = Nil /\ Checked
      /\ pending' = Nil /\ UNCHANGED <<base, lag, cache, merged>>
  BY DEF Run, IInv, TypeOK
<1>2. /\ entry \in Entry /\ overlay \in State /\ entry.claims \in Claims
      /\ overlay.here \in SUBSET Addresses /\ overlay.base \in SUBSET Addresses
      /\ \A v \in Checkouts : cache[v] = overlay.base
      /\ overlay.base = base.addresses
      /\ Creates(entry.claims) \cap overlay.base = {}
      /\ Updates(entry.claims) \subseteq overlay.base
      /\ overlay.base \subseteq overlay.here
      /\ overlay.here \ overlay.base \subseteq Creates(entry.claims)
      /\ updated \subseteq Updates(entry.claims)
  BY <1>1, IInvParts
<1>3. /\ pending.changes \in SUBSET Change /\ pending.claims \in Claims
      /\ Creates(pending.claims) \cap overlay.base = {}
      /\ Updates(pending.claims) \subseteq overlay.base
      /\ Updates(entry.claims) \subseteq Updates(pending.claims)
      /\ \A c \in pending.changes : Harmless(c)
  BY <1>1 DEF Pending, Checked, Fitting
<1>4. PICK some \in SUBSET pending.changes, ok \in BOOLEAN :
         LET acquired == Override(entry.claims, pending.claims)
             released == DOMAIN entry.claims \ DOMAIN pending.claims
             here     == After(overlay.here, some)
             replaced == {c.address : c \in {d \in pending.changes : d.action = "replace"}}
             gone     == {c.address : c \in {d \in some : d.deposed}}
         IN  /\ \E left \in IF ok THEN {{}} ELSE {{}, replaced} :
                  overlay' = [overlay EXCEPT !.here = here,
                                             !.deposed = ((@ \ gone) \cup left) \cap here]
             /\ entry' = [entry EXCEPT
                    !.status = IF ok THEN "active" ELSE "dirty",
                    !.claims = IF ok THEN Release(acquired, released, here) ELSE acquired]
             /\ updated' = updated \cup {c.address : c \in {d \in some :
                    /\ d.address \in overlay.base
                    /\ d.action = "update" /\ ~(d.differing \subseteq {"ignored"})}}
  BY DEF Run
<1> DEFINE acquired == Override(entry.claims, pending.claims)
           released == DOMAIN entry.claims \ DOMAIN pending.claims
           here     == After(overlay.here, some)
           claims   == IF ok THEN Release(acquired, released, here) ELSE acquired
<1>5. /\ acquired \in Claims
      /\ Creates(acquired) = Creates(pending.claims) \cup (Creates(entry.claims) \ Updates(pending.claims))
      /\ Updates(acquired) = Updates(pending.claims) \cup (Updates(entry.claims) \ Creates(pending.claims))
  BY <1>2, <1>3, ClaimsUnite
<1>6. /\ overlay'.here = here /\ overlay'.base = overlay.base
      /\ entry'.claims = claims /\ entry'.version = entry.version
  BY <1>2, <1>4 DEF Entry, State
<1>7. \A x \in updated' : x \in updated \/ \E c \in some : /\ c.address = x /\ x \in overlay.base
                                                         /\ c.action = "update" /\ Material(c)
  BY <1>4 DEF Material
<1> HIDE DEF acquired, released, here
\* The claims on what is there are kept.
<1>8. /\ claims \in Claims
      /\ Creates(claims) \subseteq Creates(acquired) /\ Updates(claims) \subseteq Updates(acquired)
      /\ Creates(acquired) \cap here \subseteq Creates(claims)
      /\ Updates(acquired) \cap here \subseteq Updates(claims)
  BY <1>5, WithoutClaimIs DEF Release
<1> HIDE DEF claims
<1>9. overlay.base \subseteq here
  <2> SUFFICES ASSUME NEW x \in overlay.base, x \notin here  PROVE FALSE
    OBVIOUS
  <2>1. PICK c \in some : c.from = x \/ (c.address = x /\ c.action = "delete" /\ ~c.deposed)
    BY <1>2, <1>3, AfterIs DEF here
  <2>2. Passed(c, overlay.base) /\ x # Nil
    BY <1>2, <1>3, PolicyAssumption DEF Harmless
  <2>3. QED  BY <2>1, <2>2 DEF Passed
<1>10. ASSUME NEW x \in here, x \notin overlay.base  PROVE x \in Creates(claims)
  <2>1. CASE x \in overlay.here
    <3>1. x \in Creates(entry.claims) /\ x \notin Updates(pending.claims)
      BY <1>2, <1>3, <1>10, <2>1
    <3>2. QED  BY <1>5, <1>8, <3>1
  <2>2. CASE x \notin overlay.here
    <3>1. PICK c \in some : c.address = x /\ (c.action = "create" \/ c.from # Nil \/ c.importing)
      BY <1>2, <1>3, <2>2, AfterIs DEF here
    <3>2. Harmless(c)
      BY <1>3
    <3>3. ~c.importing
      BY <3>2 DEF Harmless, Passed
    <3>4. x \in Creates(pending.claims)
      BY <2>2, <3>1, <3>2, <3>3 DEF Harmless
    <3>5. QED  BY <1>5, <1>8, <3>4
  <2>3. QED  BY <2>1, <2>2
<1>11. ASSUME NEW x \in updated'  PROVE x \in Updates(claims)
  <2>1. x \in Updates(pending.claims)
    <3>1. CASE x \in updated
      BY <1>2, <1>3, <3>1
    <3>2. CASE x \notin updated
      BY <1>3, <1>7, <3>2 DEF Harmless
    <3>3. QED  BY <3>1, <3>2
  <2>2. x \in here
    BY <1>3, <1>9, <2>1
  <2>3. QED  BY <1>5, <1>8, <2>1, <2>2
<1>12. Creates(claims) \cap overlay.base = {} /\ Updates(claims) \subseteq overlay.base
  BY <1>2, <1>3, <1>5, <1>8
<1>13. Founded'
  BY <1>1, <1>2, <1>6, <1>8, <1>12 DEF Founded, Fitting
<1>14. entry' # Nil
  BY <1>4, <1>1, <1>2, <1>8, RecordsAreNotNil DEF Entry, claims, acquired, released, here
<1>15. /\ overlay'.base \subseteq overlay'.here
       /\ overlay'.here \ overlay'.base \subseteq Creates(entry'.claims)
       /\ updated' \subseteq Updates(entry'.claims)
       /\ Updates(entry'.claims) \subseteq base'.addresses
       /\ Creates(entry'.claims) \cap base'.addresses \subseteq base'.adopted
  BY <1>1, <1>2, <1>6, <1>9, <1>10, <1>11, <1>12
<1>16. QED  BY <1>1, <1>13, <1>14, <1>15, IInvFromParts

------------------------------------------------------------------------------
(* The steps of the trunk, and the verification of a merge. *)

\* A verified plan has one change for each create claim: the import of the
\* claim, or its creation if that was accepted.
LEMMA VerifiedIsTheOnly ==
    ASSUME NEW changes \in SUBSET Change, Consistent(changes),
           \A c \in changes : c.from = Nil /\ ~c.deposed,
           NEW accepted, NEW c \in changes, VerifyCreate(changes, c.address, accepted)
    PROVE  /\ IF c.address \in accepted THEN ~c.importing /\ c.action = "create" ELSE CleanImport(c)
           /\ ~Destroys(c)
<1>1. PICK d \in changes :
         /\ d.address = c.address
         /\ IF c.address \in accepted THEN ~d.importing /\ d.action = "create" ELSE CleanImport(d)
  BY DEF VerifyCreate
<1>2. c = d
  <2> SUFFICES ASSUME c # d  PROVE FALSE
    OBVIOUS
  <2>1. {c.address, c.from} \cap {d.address, d.from} \subseteq {Nil}
    BY DEF Consistent
  <2>2. c.address # Nil
    BY ChangeIs
  <2>3. c.address \in {c.address, c.from} \cap {d.address, d.from}
    BY <1>1
  <2>4. QED  BY <2>1, <2>2, <2>3
<1>3. QED  BY <1>1, <1>2 DEF CleanImport, Destroys

\* No step of the base that the guard lets through turns it against the claims.
LEMMA BaseKeepsIInv ==
    ASSUME IInv, NEW changes \in BasePlans, Guarded(changes), BaseBecomes(changes), TypeOK'
    PROVE  IInv'
<1>1. /\ base'.version = base.version + 1 /\ base'.addresses = After(base.addresses, changes)
      /\ base'.adopted = (base.adopted \cup {c.address : c \in {d \in changes : d.importing}})
                             \cap base'.addresses
      /\ merged' = Nil /\ UNCHANGED <<entry, overlay, cache, pending, updated>>
  BY DEF BaseBecomes
<1>2. CASE entry = Nil
  <2>1. entry' = Nil /\ updated' = {} /\ pending' = Nil
    BY <1>1, <1>2 DEF IInv, TypeOK
  <2>2. QED  BY <1>1, <2>1 DEF IInv, BaseIsKept, OwnIsClaimed, BaseUpdatesAreClaimed, ClaimsFitTheBase
<1>3. CASE entry # Nil
  <2>1. /\ base.addresses \in SUBSET Addresses /\ entry.claims \in Claims /\ entry \in Entry
        /\ \A v \in Checkouts : cache[v] = overlay.base
        /\ Fitting(entry.claims, overlay.base)
        /\ overlay.base \subseteq overlay.here
        /\ overlay.here \ overlay.base \subseteq Creates(entry.claims)
        /\ updated \subseteq Updates(entry.claims)
        /\ Updates(entry.claims) \subseteq base.addresses
        /\ Creates(entry.claims) \cap base.addresses \subseteq base.adopted
    BY <1>3, IInvParts
  <2>2. /\ changes \in SUBSET Change
        /\ \A c \in changes : /\ c.from = Nil /\ ~GuardRefuses(c, entry.claims, Dependencies)
    BY <1>3, <2>1, BasePlansAre DEF Guarded, TheClaims
  <2>3. Creates(entry.claims) \subseteq Addresses /\ Updates(entry.claims) \subseteq Addresses
    BY <2>1, KindsAre
  <2>4. Updates(entry.claims) \subseteq base'.addresses
    <3> SUFFICES ASSUME NEW x \in Updates(entry.claims), x \notin After(base.addresses, changes)
                 PROVE  FALSE
      BY <1>1
    <3>1. PICK c \in changes : c.from = x \/ (c.address = x /\ c.action = "delete" /\ ~c.deposed)
      BY <2>1, <2>2, AfterIs
    <3>2. x # Nil
      BY <2>3, PolicyAssumption
    <3>3. QED  BY <2>2, <3>1, <3>2 DEF GuardRefuses, Destroys
  <2>5. Creates(entry.claims) \cap base'.addresses \subseteq base'.adopted
    <3> SUFFICES ASSUME NEW x \in Creates(entry.claims), x \in base'.addresses
                 PROVE  x \in base'.adopted
      OBVIOUS
    <3>1. CASE x \in base.addresses
      BY <1>1, <2>1, <3>1
    <3>2. CASE x \notin base.addresses
      <4>1. PICK c \in changes : c.address = x /\ (c.action = "create" \/ c.from # Nil \/ c.importing)
        BY <1>1, <2>1, <2>2, <3>2, AfterIs
      <4>2. c.importing
        BY <2>2, <4>1 DEF GuardRefuses
      <4>3. QED  BY <1>1, <4>1, <4>2
    <3>3. QED  BY <3>1, <3>2
  <2>6. Founded'
    <3>1. entry'.version # base'.version
      BY <1>1, <1>3, PolicedAssumption DEF IInv, TypeOK, Entry
    <3>2. QED  BY <1>1, <2>1, <3>1 DEF Founded
  <2>7. (pending # Nil => Checked)'
    BY <1>1 DEF IInv, Checked, Harmless
  <2>8. QED  BY <1>1, <1>3, <2>1, <2>4, <2>5, <2>6, <2>7, IInvFromParts
<1>4. QED  BY <1>2, <1>3

LEMMA MergedIsVerified ==
    ASSUME IInv, merged # Nil
    PROVE  /\ entry # Nil /\ merged \in Merged /\ merged.changes \in BasePlans
           /\ merged.changes \in SUBSET Change
           /\ \A c \in merged.changes : c.from = Nil /\ ~Destroys(c)
           /\ \A a \in Creates(entry.claims) : VerifyCreate(merged.changes, a, merged.accepted)
           /\ \A c \in merged.changes : c.address \in Creates(entry.claims) =>
                 IF c.address \in merged.accepted THEN ~c.importing /\ c.action = "create"
                                                  ELSE CleanImport(c)
<1>1. /\ entry # Nil /\ merged \in Merged /\ base.addresses \in SUBSET Addresses
      /\ VerifiedFor(merged.changes, merged.accepted)
  BY DEF IInv, TypeOK
<1>2. /\ merged.changes \in SUBSET Change /\ Consistent(merged.changes)
      /\ \A c \in merged.changes : c.from = Nil /\ ~c.deposed
  BY <1>1, BasePlansAre DEF VerifiedFor
<1>3. ASSUME NEW c \in merged.changes, c.address \in Creates(entry.claims)
      PROVE  /\ IF c.address \in merged.accepted THEN ~c.importing /\ c.action = "create"
                                                  ELSE CleanImport(c)
             /\ ~Destroys(c)
  <2>1. VerifyCreate(merged.changes, c.address, merged.accepted)
    BY <1>1, <1>3 DEF VerifiedFor
  <2>2. QED  BY <1>2, <2>1, VerifiedIsTheOnly
<1>4. QED  BY <1>1, <1>2, <1>3 DEF VerifiedFor

LEMMA IInvIsInductive ==
    ASSUME OneCheckout, IInv, [Next]_vars
    PROVE  IInv'
<1>t. TypeOK'
  BY TypeIsInductive DEF IInv
<1>p. entry # Nil =>
           /\ entry \in Entry /\ overlay \in State /\ entry.claims \in Claims
           /\ base.addresses \in SUBSET Addresses
           /\ \A w \in Checkouts : cache[w] = overlay.base
           /\ Fitting(entry.claims, overlay.base)
           /\ overlay.base \subseteq overlay.here
           /\ overlay.here \ overlay.base \subseteq Creates(entry.claims)
           /\ updated \subseteq Updates(entry.claims)
           /\ Updates(entry.claims) \subseteq base.addresses
           /\ Creates(entry.claims) \cap base.addresses \subseteq base.adopted
  BY IInvParts
<1>1. ASSUME NEW w \in Checkouts, Create(w)  PROVE IInv'
  <2>1. /\ pending = Nil /\ merged = Nil /\ updated = {} /\ base.addresses \in SUBSET Addresses
        /\ cache \in [Checkouts -> {Nil} \cup SUBSET Addresses]
    BY <1>1 DEF Create, IInv, TypeOK
  <2>2. /\ entry' = [version |-> base.version, status |-> "active", claims |-> << >>]
        /\ overlay' = [base |-> base.addresses, here |-> base.addresses, deposed |-> {}]
        /\ cache' = [cache EXCEPT ![w] = base.addresses]
        /\ UNCHANGED <<base, lag, pending, merged, updated>>
    BY <1>1 DEF Create
  <2>3. entry' # Nil
    <3>1. entry' \in Entry
      BY <2>2, NoClaims, PolicedAssumption DEF Entry, IInv, TypeOK
    <3>2. QED  BY <3>1, RecordsAreNotNil
  <2>4. \A v \in Checkouts : cache'[v] = overlay'.base
    BY <1>1, <2>1, <2>2 DEF OneCheckout
  <2>5. Founded'
    BY <2>1, <2>2, <2>4, NoClaims DEF Founded, Fitting
  <2>6. QED  BY <1>t, <2>1, <2>2, <2>3, <2>5, NoClaims, IInvFromParts
<1>2. ASSUME NEW w \in Checkouts, Plan(w)  PROVE IInv'
  BY <1>t, <1>2, PlanKeepsIInv
<1>3. ASSUME NEW w \in Checkouts, Rebase(w)  PROVE IInv'
  <2>1. /\ entry # Nil /\ pending = Nil /\ merged = Nil
        /\ Creates(entry.claims) \cap base.addresses = {}
        /\ overlay'.base = base.addresses
        /\ overlay'.here = base.addresses \cup (overlay.here \cap Creates(entry.claims))
        /\ entry' = [entry EXCEPT !.version = base.version]
        /\ cache' = [cache EXCEPT ![w] = base.addresses]
        /\ UNCHANGED <<base, lag, pending, merged, updated>>
    BY <1>3 DEF Rebase, Active, IInv, TypeOK
  <2>2. entry'.claims = entry.claims /\ entry' # Nil
    <3>1. entry' \in Entry /\ entry'.claims = entry.claims
      BY <1>p, <2>1, PolicedAssumption DEF Entry, IInv, TypeOK
    <3>2. QED  BY <3>1, RecordsAreNotNil
  <2>3. \A v \in Checkouts : cache'[v] = overlay'.base
    BY <1>3, <2>1 DEF OneCheckout, IInv, TypeOK
  <2>4. Founded'
    BY <1>p, <2>1, <2>2, <2>3 DEF Founded, Fitting
  <2>5. QED  BY <1>t, <1>p, <2>1, <2>2, <2>4, IInvFromParts
<1>4. ASSUME Run  PROVE IInv'
  BY <1>t, <1>4, RunKeepsIInv
<1>5. ASSUME GiveUp  PROVE IInv'
  <2>1. pending' = Nil /\ UNCHANGED <<base, lag, entry, overlay, cache, merged, updated>>
        /\ entry # Nil /\ merged = Nil
    BY <1>5 DEF GiveUp, IInv, TypeOK
  <2>2. Founded'
    BY <2>1 DEF Founded, IInv
  <2>3. QED  BY <1>t, <1>p, <2>1, <2>2, IInvFromParts
<1>6. ASSUME Merge  PROVE IInv'
  <2>1. /\ entry # Nil /\ pending = Nil /\ entry' = [entry EXCEPT !.status = "merging"]
        /\ UNCHANGED <<base, lag, overlay, cache, pending, updated>>
    BY <1>6 DEF Merge, Active
  <2>2. entry'.claims = entry.claims /\ entry'.version = entry.version /\ entry' # Nil
    <3>1. entry' \in Entry /\ entry'.claims = entry.claims /\ entry'.version = entry.version
      BY <1>p, <2>1 DEF Entry
    <3>2. QED  BY <3>1, RecordsAreNotNil
  <2>3. PICK changes \in BasePlans, accepted \in SUBSET Creates(entry.claims),
             baseline \in {{}, lag}, allowUpdates \in BOOLEAN :
           /\ Verified(changes, entry.claims, accepted, baseline, allowUpdates)
           /\ merged' = [changes |-> changes, accepted |-> accepted]
    BY <1>6 DEF Merge
  <2>4. VerifiedFor(changes, accepted)
    <3>1. /\ \A a \in Creates(entry.claims) : VerifyCreate(changes, a, accepted)
          /\ \A c \in changes : c.address \in Creates(entry.claims) \/ ~Destroys(c)
      BY <2>3 DEF Verified, VerifyOther, Destroys
    <3>2. QED  BY <3>1 DEF VerifiedFor
  <2>5. VerifiedFor(merged.changes, merged.accepted)'
    <3>1. merged'.changes = changes /\ merged'.accepted = accepted /\ BasePlans' = BasePlans
      BY <2>1, <2>3 DEF BasePlans
    <3>2. QED  BY <2>2, <2>4, <3>1 DEF VerifiedFor
  <2>6. Founded'
    BY <2>1, <2>2 DEF Founded, IInv
  <2>7. QED  BY <1>t, <1>p, <2>1, <2>2, <2>5, <2>6, IInvFromParts
<1>7. ASSUME Undo  PROVE IInv'
  <2>1. /\ entry # Nil /\ pending = Nil /\ merged' = Nil /\ entry' = [entry EXCEPT !.status = "active"]
        /\ UNCHANGED <<base, lag, overlay, cache, pending, updated>>
    BY <1>7 DEF Undo, IInv, TypeOK
  <2>2. entry'.claims = entry.claims /\ entry'.version = entry.version /\ entry' # Nil
    <3>1. entry' \in Entry /\ entry'.claims = entry.claims /\ entry'.version = entry.version
      BY <1>p, <2>1 DEF Entry
    <3>2. QED  BY <3>1, RecordsAreNotNil
  <2>3. Founded'
    BY <2>1, <2>2 DEF Founded, IInv
  <2>4. QED  BY <1>t, <1>p, <2>1, <2>2, <2>3, IInvFromParts
<1>8. ASSUME Finalize  PROVE IInv'
  <2>1. entry' = Nil /\ pending' = Nil /\ merged' = Nil /\ updated' = {}
    BY <1>8 DEF Finalize
  <2>2. QED  BY <1>t, <2>1 DEF IInv, BaseIsKept, OwnIsClaimed, BaseUpdatesAreClaimed, ClaimsFitTheBase
<1>9. ASSUME TrunkCommits  PROVE IInv'
  <2>1. UNCHANGED <<base, entry, overlay, cache, pending, merged, updated>>
    BY <1>9 DEF TrunkCommits
  <2>2. BasePlans' = BasePlans
    BY <2>1 DEF BasePlans
  <2>3. QED  BY <1>t, <2>1, <2>2 DEF IInv, Founded, BaseIsKept, OwnIsClaimed, Own, BaseUpdatesAreClaimed,
                   ClaimsFitTheBase, Checked, Harmless, VerifiedFor
<1>10. ASSUME TrunkApplies  PROVE IInv'
  BY <1>t, <1>10, BaseKeepsIInv DEF TrunkApplies
<1>11. ASSUME TrunkMerges  PROVE IInv'
  <2>1. merged.changes \in BasePlans
    BY <1>11, MergedIsVerified DEF TrunkMerges
  <2>2. QED  BY <1>t, <1>11, <2>1, BaseKeepsIInv DEF TrunkMerges
<1>12. ASSUME UNCHANGED vars  PROVE IInv'
  <2>1. UNCHANGED <<base, lag, entry, overlay, cache, pending, merged, updated>>
    BY <1>12 DEF vars
  <2>2. BasePlans' = BasePlans
    BY <2>1 DEF BasePlans
  <2>3. QED  BY <1>t, <2>1, <2>2 DEF IInv, Founded, BaseIsKept, OwnIsClaimed, Own, BaseUpdatesAreClaimed,
                   ClaimsFitTheBase, Checked, Harmless, VerifiedFor
<1>13. QED  BY <1>1, <1>2, <1>3, <1>4, <1>5, <1>6, <1>7, <1>8, <1>9, <1>10, <1>11, <1>12 DEF Next

LEMMA IInvInit == Init => IInv
<1> SUFFICES ASSUME Init  PROVE IInv
  OBVIOUS
<1>1. TypeOK
  BY TypeInit
<1>2. entry = Nil /\ pending = Nil /\ merged = Nil /\ updated = {}
  BY DEF Init
<1>3. QED  BY <1>1, <1>2 DEF IInv, BaseIsKept, OwnIsClaimed, BaseUpdatesAreClaimed, ClaimsFitTheBase

LEMMA IInvHolds == ASSUME OneCheckout  PROVE Spec => []IInv
<1>1. IInv /\ [Next]_vars => IInv'
  BY IInvIsInductive
<1>2. QED  BY IInvInit, <1>1, PTL DEF Spec

------------------------------------------------------------------------------
(* What follows. *)

\* Overlays are additive: no plan that evaluate accepts, in any order, carried
\* out in full or in part, takes a resource of the fork out of the overlay
\* state (run_apply).
THEOREM BaseIsNeverLost == ASSUME OneCheckout  PROVE Spec => []BaseIsKept
<1>1. IInv => BaseIsKept
  BY DEF IInv
<1>2. QED  BY IInvHolds, <1>1, PTL

\* What an overlay has created, renamed or replaced is under a create claim,
\* also when the apply stopped half way.
THEOREM OwnIsAlwaysClaimed == ASSUME OneCheckout  PROVE Spec => []OwnIsClaimed
<1>1. IInv => OwnIsClaimed
  BY DEF IInv
<1>2. QED  BY IInvHolds, <1>1, PTL

\* No apply, targeted or not, changes a resource of the base in more than
\* ignored attributes without an update claim on it.
THEOREM BaseUpdatesAreAlwaysClaimed ==
    ASSUME OneCheckout  PROVE Spec => []BaseUpdatesAreClaimed
<1>1. IInv => BaseUpdatesAreClaimed
  BY DEF IInv
<1>2. QED  BY IInvHolds, <1>1, PTL

\* While the guard stands before the trunk, the base does not turn against the
\* claims of the overlay.
THEOREM ClaimsAlwaysFitTheBase == ASSUME OneCheckout  PROVE Spec => []ClaimsFitTheBase
<1>1. IInv => ClaimsFitTheBase
  BY DEF IInv
<1>2. QED  BY IInvHolds, <1>1, PTL

\* verify_import_plan and guard_trunk_plan agree: what was verified with nothing
\* accepted for recreation is let through.
THEOREM VerifiedPassTheGuard ==
    ASSUME OneCheckout  PROVE Spec => []VerifiedMergesPassTheGuard
<1>1. ASSUME IInv, merged # Nil, merged.accepted = {}, NEW c \in merged.changes
      PROVE  ~GuardRefuses(c, TheClaims, Dependencies)
  <2>1. TheClaims = entry.claims /\ ~Destroys(c)
    BY <1>1, MergedIsVerified DEF TheClaims
  <2>2. c.address \in Creates(entry.claims) => CleanImport(c)
    BY <1>1, MergedIsVerified
  <2>3. QED  BY <2>1, <2>2 DEF GuardRefuses, CleanImport, Destroys
<1>2. IInv => VerifiedMergesPassTheGuard
  BY <1>1 DEF VerifiedMergesPassTheGuard, Guarded
<1>3. QED  BY IInvHolds, <1>2, PTL

\* A verified merge that the trunk carries out adopts every create claim that
\* was not accepted for recreation, and takes nothing away from the base.
THEOREM VerifiedMergesAreAdopted == ASSUME OneCheckout  PROVE Spec => VerifiedMergesAdopt
<1> DEFINE Adopts == TrunkMerges =>
              /\ base.addresses \subseteq base'.addresses
              /\ Creates(entry.claims) \ merged.accepted \subseteq base'.adopted
<1>1. ASSUME IInv, TrunkMerges
      PROVE  /\ base.addresses \subseteq base'.addresses
             /\ Creates(entry.claims) \ merged.accepted \subseteq base'.adopted
  <2>1. /\ base.addresses \in SUBSET Addresses /\ merged # Nil
        /\ base'.addresses = After(base.addresses, merged.changes)
        /\ base'.adopted = (base.adopted \cup {c.address : c \in {d \in merged.changes : d.importing}})
                               \cap base'.addresses
    BY <1>1 DEF IInv, TypeOK, TrunkMerges, BaseBecomes
  <2>2. /\ merged.changes \in SUBSET Change
        /\ \A c \in merged.changes : c.from = Nil /\ ~Destroys(c)
        /\ \A a \in Creates(entry.claims) : VerifyCreate(merged.changes, a, merged.accepted)
    BY <1>1, <2>1, MergedIsVerified
  <2>3. base.addresses \subseteq base'.addresses
    <3> SUFFICES ASSUME NEW x \in base.addresses, x \notin After(base.addresses, merged.changes)
                 PROVE  FALSE
      BY <2>1
    <3>1. PICK c \in merged.changes : c.from = x \/ (c.address = x /\ c.action = "delete" /\ ~c.deposed)
      BY <2>1, <2>2, AfterIs
    <3>2. x # Nil
      BY <2>1, PolicyAssumption
    <3>3. QED  BY <2>2, <3>1, <3>2 DEF Destroys
  <2>4. ASSUME NEW a \in Creates(entry.claims), a \notin merged.accepted
        PROVE  a \in base'.adopted
    <3>1. PICK c \in merged.changes : c.address = a /\ c.importing
      BY <2>2, <2>4 DEF VerifyCreate, CleanImport
    <3>2. a \in base'.addresses
      BY <2>1, <3>1 DEF After
    <3>3. QED  BY <2>1, <3>1, <3>2
  <2>5. QED  BY <2>3, <2>4
<1>2. IInv /\ [Next]_vars => [Adopts]_vars
  BY <1>1
<1>3. QED  BY IInvHolds, <1>2, PTL DEF Spec, VerifiedMergesAdopt

==============================================================================
