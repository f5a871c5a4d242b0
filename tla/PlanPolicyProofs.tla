-------------------------- MODULE PlanPolicyProofs ---------------------------
(***************************************************************************)
(* Lemmas about the policy on plans: induction on natural numbers, what a  *)
(* fold over a plan returns, and what evaluate, the verification of a      *)
(* merge and the guard of the trunk promise of a plan they accept,         *)
(* whatever its length and its order.                                      *)
(***************************************************************************)
EXTENDS PlanPolicy, FiniteSetTheorems, TLAPS

(* Induction.  The principle is taken from the well-founded order of the   *)
(* finite sets, where a set stands for what is to be proved.               *)

LEMMA LeastNumber ==
    ASSUME NEW T \in SUBSET Nat, T # {}
    PROVE  \E m \in T : \A n \in T : m <= n
<1> DEFINE Initials == {0..n : n \in T}
<1>1. Initials \subseteq FiniteSubsetsOf(Nat) /\ Initials # {}
  <2>1. ASSUME NEW n \in T  PROVE 0..n \in FiniteSubsetsOf(Nat)
    <3>1. IsFiniteSet(0..n)
      BY FS_Interval
    <3>2. QED  BY <3>1 DEF FiniteSubsetsOf
  <2>2. QED  BY <2>1
<1>2. PICK S \in Initials : \A R \in Initials : <<R, S>> \notin StrictSubsetOrdering(Nat)
  <2> HIDE DEF Initials
  <2> QED  BY <1>1, FS_StrictSubsetOrderingWellFounded, WFMin
<1>3. PICK m \in T : S = 0..m
  OBVIOUS
<1>4. ASSUME NEW n \in T, n < m  PROVE FALSE
  <2>1. 0..n \in Initials /\ 0..n \subseteq 0..m /\ 0..n # 0..m
    BY <1>4
  <2>2. 0..n \in SUBSET Nat /\ 0..m \in SUBSET Nat
    OBVIOUS
  <2>3. QED  BY <1>2, <1>3, <2>1, <2>2 DEF StrictSubsetOrdering
<1>5. QED  BY <1>4

\* What holds of 0 and is passed on from each number to the next holds of all.
LEMMA Induction ==
    ASSUME NEW S \in SUBSET Nat, 0 \in S, \A n \in S : n + 1 \in S
    PROVE  S = Nat
<1> SUFFICES ASSUME Nat \ S # {}  PROVE FALSE
  OBVIOUS
<1>1. PICK m \in Nat \ S : \A n \in Nat \ S : m <= n
  BY LeastNumber
<1>2. m - 1 \in S
  BY <1>1
<1>3. QED  BY <1>1, <1>2

\* The same up to a bound.
LEMMA BoundedInduction ==
    ASSUME NEW n \in Nat, NEW S, 0 \in S, \A k \in 0..(n - 1) : k \in S => k + 1 \in S
    PROVE  0..n \subseteq S
<1> DEFINE T == {k \in Nat : k <= n => k \in S}
<1>1. 0 \in T
  OBVIOUS
<1>2. ASSUME NEW k \in T  PROVE k + 1 \in T
  <2>1. CASE k + 1 <= n
    <3>1. k \in 0..(n - 1) /\ k \in S
      BY <2>1
    <3>2. QED  BY <3>1
  <2>2. CASE ~(k + 1 <= n)
    BY <2>2
  <2>3. QED  BY <2>1, <2>2
<1>3. T = Nat
  <2> HIDE DEF T
  <2>1. T \subseteq Nat
    BY DEF T
  <2>2. QED  BY <1>1, <1>2, <2>1, Induction
<1>4. ASSUME NEW k \in 0..n  PROVE k \in S
  <2>1. k \in T
    BY <1>3
  <2>2. QED  BY <2>1
<1>5. QED  BY <1>4

LEMMA MaxIs ==
    ASSUME NEW n \in Nat, NEW s \in SUBSET (1..n), s # {}
    PROVE  Max(s) \in s /\ \A y \in s : Max(s) >= y
<1> DEFINE T == {n - y : y \in s}
<1>1. T \in SUBSET Nat /\ T # {}
  <2>1. ASSUME NEW y \in s  PROVE n - y \in Nat
    <3>1. y \in 1..n
      OBVIOUS
    <3>2. QED  BY <3>1
  <2>2. QED  BY <2>1
<1>2. PICK m \in T : \A k \in T : m <= k
  <2> HIDE DEF T
  <2> QED  BY <1>1, LeastNumber
<1>3. PICK x \in s : m = n - x
  BY <1>2
<1>4. \A y \in s : x >= y
  <2> SUFFICES ASSUME NEW y \in s  PROVE x >= y
    OBVIOUS
  <2>1. n - y \in T /\ x \in 1..n /\ y \in 1..n
    OBVIOUS
  <2>2. n - x <= n - y
    BY <1>2, <1>3, <2>1
  <2>3. QED  BY <2>1, <2>2
<1>5. QED  BY <1>4 DEF Max

------------------------------------------------------------------------------
(* FoldLeft: there is a run of the folded operator along the sequence.     *)

\* g is the function by which FoldLeft is defined, for the first k changes.
Iterates(g, order, w, k) ==
    g = [s \in SUBSET (1..k) |->
            IF s = {} THEN w ELSE Visit(g[s \ {Max(s)}], order[Max(s)])]

LEMMA IterationsExist ==
    ASSUME NEW order, NEW w, NEW n \in Nat
    PROVE  \E g : Iterates(g, order, w, n)
<1> DEFINE S == {k \in Nat : \E g : Iterates(g, order, w, k)}
<1>1. 0 \in S
  <2> DEFINE g == [s \in SUBSET (1..0) |-> w]
  <2>1. \A s \in SUBSET (1..0) : s = {}
    OBVIOUS
  <2>2. g = [s \in SUBSET (1..0) |-> IF s = {} THEN w ELSE Visit(g[s \ {Max(s)}], order[Max(s)])]
    BY <2>1
  <2>3. Iterates(g, order, w, 0)
    BY <2>2 DEF Iterates
  <2>4. QED  BY <2>3
<1>2. ASSUME NEW k \in S  PROVE k + 1 \in S
  <2>1. PICK g : Iterates(g, order, w, k)
    OBVIOUS
  <2>k. k \in Nat /\ k + 1 \in Nat
    OBVIOUS
  <2> DEFINE h == [s \in SUBSET (1..(k + 1)) |->
                     IF k + 1 \in s THEN Visit(g[s \ {k + 1}], order[k + 1]) ELSE g[s]]
  <2>2. ASSUME NEW s \in SUBSET (1..(k + 1))
        PROVE  h[s] = IF s = {} THEN w ELSE Visit(h[s \ {Max(s)}], order[Max(s)])
    <3>1. CASE k + 1 \in s
      <4>1. Max(s) = k + 1
        <5>1. Max(s) \in s /\ Max(s) >= k + 1
          BY <2>k, <3>1, MaxIs
        <5>2. Max(s) \in 1..(k + 1)
          BY <5>1
        <5>3. QED  BY <2>k, <5>1, <5>2
      <4>2. s \ {k + 1} \in SUBSET (1..(k + 1)) /\ k + 1 \notin s \ {k + 1}
        OBVIOUS
      <4>3. h[s \ {k + 1}] = g[s \ {k + 1}]
        BY <4>2
      <4>4. h[s] = Visit(h[s \ {k + 1}], order[k + 1])
        BY <3>1, <4>3
      <4>5. s # {}
        BY <3>1
      <4> HIDE DEF h
      <4>6. QED  BY <4>1, <4>4, <4>5
    <3>2. CASE k + 1 \notin s /\ s # {}
      <4>1. s \in SUBSET (1..k)
        BY <2>k, <3>2
      <4>2. Max(s) \in s
        BY <2>k, <3>2, MaxIs
      <4>3. s \ {Max(s)} \in SUBSET (1..(k + 1)) /\ k + 1 \notin s \ {Max(s)}
        BY <3>2
      <4>4. h[s] = g[s] /\ h[s \ {Max(s)}] = g[s \ {Max(s)}]
        BY <3>2, <4>3
      <4>5. g[s] = Visit(g[s \ {Max(s)}], order[Max(s)])
        BY <2>1, <3>2, <4>1 DEF Iterates
      <4>6. h[s] = Visit(h[s \ {Max(s)}], order[Max(s)])
        <5> HIDE DEF h
        <5> QED  BY <4>4, <4>5
      <4> HIDE DEF h
      <4>7. QED  BY <3>2, <4>6
    <3>3. CASE s = {}
      <4>1. h[s] = g[s] /\ s \in SUBSET (1..k)
        BY <3>3
      <4>2. g[s] = w
        BY <2>1, <3>3, <4>1 DEF Iterates
      <4>3. QED  BY <3>3, <4>1, <4>2
    <3>4. QED  BY <3>1, <3>2, <3>3
  <2>3. h = [s \in SUBSET (1..(k + 1)) |->
               IF s = {} THEN w ELSE Visit(h[s \ {Max(s)}], order[Max(s)])]
    <3>1. h = [s \in SUBSET (1..(k + 1)) |-> h[s]]
      OBVIOUS
    <3> HIDE DEF h
    <3>2. QED  BY <2>2, <3>1
  <2>4. Iterates(h, order, w, k + 1)
    <3> HIDE DEF h
    <3> QED  BY <2>3 DEF Iterates
  <2>5. QED  BY <2>4
<1>3. S = Nat
  <2> HIDE DEF S
  <2>1. S \subseteq Nat
    BY DEF S
  <2>2. QED  BY <1>1, <1>2, <2>1, Induction
<1>4. QED  BY <1>3

\* run[i] is the working set once i changes have been visited.
IsRun(run, order, w, n) ==
    /\ run[0] = w
    /\ \A i \in 1..n : run[i] = Visit(run[i - 1], order[i])

LEMMA FoldIsRun ==
    ASSUME NEW n \in Nat, NEW order, DOMAIN order = 1..n, NEW w
    PROVE  \E run : IsRun(run, order, w, n) /\ FoldLeft(Visit, w, order) = run[n]
<1> DEFINE iter == CHOOSE g : Iterates(g, order, w, n)
<1>1. Iterates(iter, order, w, n)
  BY IterationsExist
<1>2. FoldLeft(Visit, w, order) = iter[1..n]
  BY DEF FoldLeft, MapThenFoldSet, Iterates
<1> DEFINE run == [i \in 0..n |-> iter[1..i]]
<1>3. run[0] = w
  <2>1. 1..0 = {} /\ 1..0 \in SUBSET (1..n)
    OBVIOUS
  <2> HIDE DEF iter
  <2>2. iter[1..0] = w
    BY <1>1, <2>1 DEF Iterates
  <2>3. QED  BY <2>2
<1>4. ASSUME NEW i \in 1..n  PROVE run[i] = Visit(run[i - 1], order[i])
  <2>1. 1..i \in SUBSET (1..n) /\ 1..i # {} /\ i \in 1..i
    OBVIOUS
  <2>2. Max(1..i) = i
    <3>1. Max(1..i) \in 1..i /\ Max(1..i) >= i
      BY <2>1, MaxIs
    <3>2. QED  BY <3>1
  <2>3. (1..i) \ {i} = 1..(i - 1)
    OBVIOUS
  <2> HIDE DEF iter
  <2>4. iter[1..i] = Visit(iter[1..(i - 1)], order[i])
    BY <1>1, <2>1, <2>2, <2>3 DEF Iterates
  <2>5. QED  BY <2>4
<1>5. IsRun(run, order, w, n) /\ run[n] = iter[1..n]
  <2> HIDE DEF iter
  <2>1. run[n] = iter[1..n]
    OBVIOUS
  <2>2. QED  BY <1>3, <1>4, <2>1 DEF IsRun
<1>6. QED  BY <1>2, <1>5

------------------------------------------------------------------------------
(* Claims. *)

LEMMA ClaimsAre ==
    ASSUME NEW f
    PROVE  f \in Claims <=> /\ f = [a \in DOMAIN f |-> f[a]] /\ DOMAIN f \subseteq Addresses
                            /\ \A a \in DOMAIN f : f[a] \in {"create", "update"}
BY DEF Claims

LEMMA KindsAre ==
    ASSUME NEW f \in Claims
    PROVE  /\ DOMAIN f = Creates(f) \cup Updates(f) /\ Creates(f) \cap Updates(f) = {}
           /\ DOMAIN f \subseteq Addresses
BY ClaimsAre DEF Creates, Updates

LEMMA WithClaimIs ==
    ASSUME NEW f \in Claims, NEW a \in Addresses, NEW kind \in {"create", "update"}
    PROVE  LET g == AddClaim(f, a, kind)
           IN  /\ g \in Claims
               /\ Creates(g) = IF kind = "create" THEN Creates(f) \cup {a} ELSE Creates(f) \ {a}
               /\ Updates(g) = IF kind = "update" THEN Updates(f) \cup {a} ELSE Updates(f) \ {a}
<1> DEFINE g == AddClaim(f, a, kind)
<1>1. g = [x \in {a} \cup DOMAIN f |-> IF x = a THEN kind ELSE f[x]]
  BY DEF AddClaim, Override
<1>2. DOMAIN g = {a} \cup DOMAIN f /\ \A x \in DOMAIN g : g[x] = IF x = a THEN kind ELSE f[x]
  BY <1>1
<1> HIDE DEF g
<1>3. g \in Claims
  BY <1>1, <1>2, ClaimsAre
<1>4. QED  BY <1>2, <1>3 DEF Creates, Updates, g

LEMMA WithoutClaimIs ==
    ASSUME NEW f \in Claims, NEW S
    PROVE  LET g == DropClaims(f, S)
           IN  /\ g \in Claims
               /\ Creates(g) = Creates(f) \ S /\ Updates(g) = Updates(f) \ S
<1> DEFINE g == DropClaims(f, S)
<1>1. g = [x \in DOMAIN f \ S |-> f[x]]
  BY DEF DropClaims, Restrict
<1>2. DOMAIN g = DOMAIN f \ S /\ \A x \in DOMAIN g : g[x] = f[x]
  BY <1>1
<1> HIDE DEF g
<1>3. g \in Claims
  BY <1>1, <1>2, ClaimsAre
<1>4. QED  BY <1>2, <1>3 DEF Creates, Updates, g

\* What one map of claims adds to another and overrides in it.
LEMMA ClaimsUnite ==
    ASSUME NEW f \in Claims, NEW g \in Claims
    PROVE  LET h == Override(f, g)
           IN  /\ h \in Claims /\ DOMAIN h = DOMAIN g \cup DOMAIN f
               /\ Creates(h) = Creates(g) \cup (Creates(f) \ Updates(g))
               /\ Updates(h) = Updates(g) \cup (Updates(f) \ Creates(g))
<1> DEFINE h == Override(f, g)
<1>1. h = [x \in DOMAIN g \cup DOMAIN f |-> IF x \in DOMAIN g THEN g[x] ELSE f[x]]
  BY DEF Override
<1>2. /\ DOMAIN h = DOMAIN g \cup DOMAIN f
      /\ \A x \in DOMAIN h : h[x] = IF x \in DOMAIN g THEN g[x] ELSE f[x]
  BY <1>1
<1> HIDE DEF h
<1>3. h \in Claims
  BY <1>1, <1>2, ClaimsAre
<1>4. Creates(h) = Creates(g) \cup (Creates(f) \ Updates(g))
  BY <1>2, ClaimsAre DEF Creates, Updates
<1>5. Updates(h) = Updates(g) \cup (Updates(f) \ Creates(g))
  BY <1>2, ClaimsAre DEF Creates, Updates
<1>6. QED  BY <1>2, <1>3, <1>4, <1>5 DEF h

------------------------------------------------------------------------------
(* One visit. *)

WorkingSets ==
    [claims: Claims, own: SUBSET Addresses, base: SUBSET Addresses, baseline: SUBSET Addresses,
     violations: SUBSET Addresses, drift: SUBSET Addresses, ignored: SUBSET Addresses]

\* What a working set is throughout an evaluation: what is own is what is
\* claimed as created, none of it is in the base, and only what is in the base
\* is claimed as updated.
Sound(ev, base, baseline) ==
    /\ ev \in WorkingSets /\ ev.base = base /\ ev.baseline = baseline
    /\ ev.own = Creates(ev.claims) /\ ev.own \cap base = {}
    /\ Updates(ev.claims) \subseteq base

Blameless(ev) == ev.violations = {}

\* What the policy has seen of a change without finding a violation.
Passed(c, base) ==
    /\ ~c.importing
    /\ c.from # Nil => c.from \notin base /\ c.address \notin base
    /\ c.action \in {"create", "delete", "replace"} => c.address \notin base

\* Own resources stay own unless they are moved or deleted.
OwnAfter(ev, next, c) ==
    /\ \A a \in ev.own : a \in next.own \/ a = c.from \/ (a = c.address /\ c.action = "delete")
    /\ c.action = "create" => c.address \in next.own
    /\ c.from \in ev.own /\ c.action # "delete" => c.address \in next.own

\* An update of more than ignored attributes.
Material(c) == ~(c.differing \subseteq {"ignored"})

UpdatesAfter(ev, next, c, base) ==
    /\ Updates(ev.claims) \subseteq Updates(next.claims) /\ ev.drift \subseteq next.drift
    /\ c.action = "update" /\ c.address \in base /\ Material(c) =>
          c.address \in Updates(next.claims) \cup next.drift

LEMMA WorkingSetIs ==
    ASSUME NEW ev \in WorkingSets
    PROVE  /\ ev.claims \in Claims /\ ev.own \subseteq Addresses /\ ev.base \subseteq Addresses
           /\ ev.baseline \subseteq Addresses /\ ev.violations \subseteq Addresses
           /\ ev.drift \subseteq Addresses /\ ev.ignored \subseteq Addresses
BY DEF WorkingSets

LEMMA ViolationIs ==
    ASSUME NEW ev, NEW base, NEW baseline, Sound(ev, base, baseline), NEW c \in Change
    PROVE  /\ Sound(Violation(ev, c), base, baseline)
           /\ ~Blameless(Violation(ev, c))
<1>1. Violation(ev, c) \in WorkingSets
  BY DEF Sound, WorkingSets, Violation, Change
<1>2. QED  BY <1>1 DEF Sound, WorkingSets, Violation, Blameless

LEMMA MovedIs ==
    ASSUME NEW ev, NEW base, NEW baseline, Sound(ev, base, baseline), NEW c \in Change,
           c.from # Nil => c.from \notin base /\ c.address \notin base
    PROVE  LET next == Moved(ev, c)
           IN  /\ Sound(next, base, baseline)
               /\ next.violations = ev.violations /\ next.drift = ev.drift
               /\ Updates(next.claims) = Updates(ev.claims)
               /\ c.from \notin ev.own => next = ev
               /\ c.from \in ev.own => /\ next.own = (ev.own \ {c.from}) \cup {c.address}
                                       /\ c.from # Nil /\ c.address \notin base
<1>1. CASE c.from \notin ev.own
  BY <1>1 DEF Moved
<1>2. CASE c.from \in ev.own
  <2>1. /\ c.from \in Addresses /\ c.from # Nil /\ c.address \in Addresses
        /\ ev \in WorkingSets /\ ev.own = Creates(ev.claims) /\ ev.claims \in Claims
    BY <1>2, PolicyAssumption DEF Sound, WorkingSets, Change
  <2>2. c.address \notin base /\ c.from \notin base
    BY <2>1
  <2> DEFINE rest   == DropClaims(ev.claims, {c.from})
             claims == AddClaim(rest, c.address, ev.claims[c.from])
             own    == (ev.own \ {c.from}) \cup {c.address}
  <2>3. ev.claims[c.from] = "create"
    BY <1>2, <2>1 DEF Creates
  <2>4. /\ rest \in Claims /\ Creates(rest) = Creates(ev.claims) \ {c.from}
        /\ Updates(rest) = Updates(ev.claims) \ {c.from}
    BY <2>1, WithoutClaimIs
  <2> HIDE DEF rest
  <2>5. /\ claims \in Claims /\ Creates(claims) = Creates(rest) \cup {c.address}
        /\ Updates(claims) = Updates(rest) \ {c.address}
    BY <2>1, <2>3, <2>4, WithClaimIs
  <2>6. Moved(ev, c) = [ev EXCEPT !.claims = claims, !.own = own]
    BY <1>2 DEF Moved, rest
  <2> HIDE DEF claims
  <2>7. /\ Moved(ev, c) \in WorkingSets
        /\ Moved(ev, c).claims = claims /\ Moved(ev, c).own = own
        /\ Moved(ev, c).base = ev.base /\ Moved(ev, c).baseline = ev.baseline
        /\ Moved(ev, c).violations = ev.violations /\ Moved(ev, c).drift = ev.drift
    BY <2>1, <2>5, <2>6 DEF WorkingSets
  <2>8. Updates(claims) = Updates(ev.claims) /\ Creates(claims) = own
    BY <2>1, <2>2, <2>4, <2>5 DEF Sound
  <2>9. QED  BY <1>2, <2>1, <2>2, <2>7, <2>8 DEF Sound
<1>3. QED  BY <1>1, <1>2

LEMMA VisitBaseUpdateIs ==
    ASSUME NEW ev, NEW base, NEW baseline, Sound(ev, base, baseline), NEW c \in Change,
           c.address \in base
    PROVE  LET next == VisitBaseUpdate(ev, c)
           IN  /\ Sound(next, base, baseline)
               /\ next.violations = ev.violations /\ next.own = ev.own
               /\ UpdatesAfter(ev, next, c, base)
<1> DEFINE next == VisitBaseUpdate(ev, c)
<1>1. /\ ev \in WorkingSets /\ c.address \in Addresses /\ ev.claims \in Claims
      /\ ev.own = Creates(ev.claims) /\ c.address \notin ev.own
  BY DEF Sound, WorkingSets, Change
<1>2. CASE c.address \in Updates(ev.claims)
  <2>1. next = ev
    BY <1>2 DEF VisitBaseUpdate
  <2>2. QED  BY <1>2, <2>1 DEF UpdatesAfter
<1>3. CASE c.address \notin Updates(ev.claims) /\ OnlyIgnored(c)
  <2>1. next = [ev EXCEPT !.ignored = @ \cup {c.address}]
    BY <1>3 DEF VisitBaseUpdate
  <2>2. /\ next \in WorkingSets /\ next.claims = ev.claims /\ next.own = ev.own
        /\ next.base = ev.base /\ next.baseline = ev.baseline
        /\ next.violations = ev.violations /\ next.drift = ev.drift
    BY <1>1, <2>1 DEF WorkingSets
  <2>3. c.differing \subseteq {"ignored"}
    BY <1>3 DEF OnlyIgnored
  <2> HIDE DEF next
  <2>4. QED  BY <2>2, <2>3 DEF Sound, UpdatesAfter, Material, next
<1>4. CASE c.address \notin Updates(ev.claims) /\ ~OnlyIgnored(c) /\ c.address \in ev.baseline
  <2>1. next = [ev EXCEPT !.drift = @ \cup {c.address}]
    BY <1>4 DEF VisitBaseUpdate
  <2>2. /\ next \in WorkingSets /\ next.claims = ev.claims /\ next.own = ev.own
        /\ next.base = ev.base /\ next.baseline = ev.baseline
        /\ next.violations = ev.violations /\ next.drift = ev.drift \cup {c.address}
    BY <1>1, <2>1 DEF WorkingSets
  <2> HIDE DEF next
  <2>3. QED  BY <2>2 DEF Sound, UpdatesAfter, next
<1>5. CASE c.address \notin Updates(ev.claims) /\ ~OnlyIgnored(c) /\ c.address \notin ev.baseline
  <2> DEFINE claims == AddClaim(ev.claims, c.address, "update")
  <2>1. /\ claims \in Claims /\ Creates(claims) = Creates(ev.claims) \ {c.address}
        /\ Updates(claims) = Updates(ev.claims) \cup {c.address}
    BY <1>1, WithClaimIs
  <2>2. next = [ev EXCEPT !.claims = claims]
    BY <1>5 DEF VisitBaseUpdate, WithClaim
  <2> HIDE DEF claims
  <2>3. /\ next \in WorkingSets /\ next.claims = claims /\ next.own = ev.own
        /\ next.base = ev.base /\ next.baseline = ev.baseline
        /\ next.violations = ev.violations /\ next.drift = ev.drift
    BY <1>1, <2>1, <2>2 DEF WorkingSets
  <2> HIDE DEF next
  <2>4. QED  BY <1>1, <2>1, <2>3 DEF Sound, UpdatesAfter, next
<1>6. QED  BY <1>2, <1>3, <1>4, <1>5

LEMMA VisitCreateIs ==
    ASSUME NEW ev, NEW base, NEW baseline, Sound(ev, base, baseline), NEW c \in Change,
           c.address \notin base
    PROVE  LET next == VisitCreate(ev, c)
           IN  /\ Sound(next, base, baseline)
               /\ next.violations = ev.violations /\ next.own = ev.own \cup {c.address}
               /\ Updates(next.claims) = Updates(ev.claims) /\ next.drift = ev.drift
<1> DEFINE next   == VisitCreate(ev, c)
           claims == AddClaim(ev.claims, c.address, "create")
<1>1. /\ ev \in WorkingSets /\ c.address \in Addresses /\ ev.claims \in Claims
      /\ ev.own = Creates(ev.claims) /\ c.address \notin Updates(ev.claims)
      /\ c.address \notin ev.base
  BY DEF Sound, WorkingSets, Change
<1>2. /\ claims \in Claims /\ Creates(claims) = Creates(ev.claims) \cup {c.address}
      /\ Updates(claims) = Updates(ev.claims) \ {c.address}
  BY <1>1, WithClaimIs
<1>3. next = [ev EXCEPT !.claims = claims, !.own = @ \cup {c.address}]
  BY <1>1 DEF VisitCreate, IsBase
<1> HIDE DEF claims
<1>4. /\ next \in WorkingSets /\ next.claims = claims /\ next.own = ev.own \cup {c.address}
      /\ next.base = ev.base /\ next.baseline = ev.baseline
      /\ next.violations = ev.violations /\ next.drift = ev.drift
  BY <1>1, <1>2, <1>3 DEF WorkingSets
<1> HIDE DEF next
<1>5. QED  BY <1>1, <1>2, <1>4 DEF Sound, next

\* A deletion or a replacement of an own resource.
LEMMA VisitDestructiveIs ==
    ASSUME NEW ev, NEW base, NEW baseline, Sound(ev, base, baseline), NEW c \in Change,
           c.address \in ev.own, c.action \in {"delete", "replace"}
    PROVE  LET next == VisitDestructive(ev, c)
           IN  /\ Sound(next, base, baseline) /\ next.violations = ev.violations
               /\ next.own = IF c.action = "delete" THEN ev.own \ {c.address} ELSE ev.own
               /\ Updates(next.claims) = Updates(ev.claims) /\ next.drift = ev.drift
<1> DEFINE next == VisitDestructive(ev, c)
<1>1. /\ ev \in WorkingSets /\ c.address \in Addresses /\ ev.claims \in Claims
      /\ ev.own = Creates(ev.claims) /\ c.address \notin Updates(ev.claims)
      /\ IsOwn(ev, c.address)
  BY DEF Sound, WorkingSets, Change, IsOwn
<1>2. CASE c.action = "replace"
  <2> DEFINE claims == AddClaim(ev.claims, c.address, "create")
  <2>1. /\ claims \in Claims /\ Creates(claims) = Creates(ev.claims) \cup {c.address}
        /\ Updates(claims) = Updates(ev.claims) \ {c.address}
    BY <1>1, WithClaimIs
  <2>2. next = [ev EXCEPT !.claims = claims]
    BY <1>1, <1>2 DEF VisitDestructive, WithClaim
  <2> HIDE DEF claims
  <2>3. /\ next \in WorkingSets /\ next.claims = claims /\ next.own = ev.own
        /\ next.base = ev.base /\ next.baseline = ev.baseline
        /\ next.violations = ev.violations /\ next.drift = ev.drift
    BY <1>1, <2>1, <2>2 DEF WorkingSets
  <2> HIDE DEF next
  <2>4. QED  BY <1>1, <1>2, <2>1, <2>3 DEF Sound, next
<1>3. CASE c.action = "delete"
  <2> DEFINE claims == DropClaims(ev.claims, {c.address})
  <2>1. /\ claims \in Claims /\ Creates(claims) = Creates(ev.claims) \ {c.address}
        /\ Updates(claims) = Updates(ev.claims) \ {c.address}
    BY <1>1, WithoutClaimIs
  <2>2. next = [ev EXCEPT !.claims = claims, !.own = @ \ {c.address}]
    BY <1>1, <1>3 DEF VisitDestructive, WithoutClaim
  <2> HIDE DEF claims
  <2>3. /\ next \in WorkingSets /\ next.claims = claims /\ next.own = ev.own \ {c.address}
        /\ next.base = ev.base /\ next.baseline = ev.baseline
        /\ next.violations = ev.violations /\ next.drift = ev.drift
    BY <1>1, <2>1, <2>2 DEF WorkingSets
  <2> HIDE DEF next
  <2>4. QED  BY <1>1, <1>3, <2>1, <2>3 DEF Sound, next
<1>4. QED  BY <1>2, <1>3

\* A visit keeps a working set sound.  It remembers violations, and when it
\* finds none the change has passed.
LEMMA VisitIs ==
    ASSUME NEW ev, NEW base, NEW baseline, Sound(ev, base, baseline), NEW c \in Change
    PROVE  LET next == Visit(ev, c)
           IN  /\ Sound(next, base, baseline)
               /\ Blameless(next) =>
                     /\ Blameless(ev) /\ Passed(c, base)
                     /\ OwnAfter(ev, next, c) /\ UpdatesAfter(ev, next, c, base)
<1> DEFINE after == Moved(ev, c)
           next  == Visit(ev, c)
           refused == \/ c.importing
                      \/ c.from # Nil /\ (IsBase(ev, c.from) \/ IsBase(ev, c.address))
                      \/ c.deposed /\ ~IsOwn(after, c.address)
<1>1. CASE refused
  <2>1. next = Violation(ev, c)
    BY <1>1 DEF Visit
  <2> HIDE DEF next
  <2>2. QED  BY <2>1, ViolationIs DEF next
<1>2. CASE ~refused
  <2>1. next = VisitActions(after, c)
    BY <1>2 DEF Visit
  <2>2. /\ ~c.importing
        /\ c.from # Nil => c.from \notin base /\ c.address \notin base
    BY <1>2 DEF IsBase, Sound
  <2>3. /\ Sound(after, base, baseline)
        /\ after.violations = ev.violations /\ after.drift = ev.drift
        /\ Updates(after.claims) = Updates(ev.claims)
        /\ c.from \notin ev.own => after = ev
        /\ c.from \in ev.own => /\ after.own = (ev.own \ {c.from}) \cup {c.address}
                                /\ c.from # Nil /\ c.address \notin base
    BY <2>2, MovedIs
  <2>4. after.base = base /\ after.own \cap base = {}
    BY <2>3 DEF Sound
  <2> HIDE DEF next, after, refused
  <2>5. CASE c.action = "no-op"
    <3>1. next = after
      BY <2>1, <2>5 DEF VisitActions
    <3>2. OwnAfter(ev, next, c)
      BY <2>3, <2>5, <3>1 DEF OwnAfter
    <3>3. QED  BY <2>2, <2>3, <2>5, <3>1, <3>2 DEF Passed, UpdatesAfter, Blameless, next
  <2>6. CASE c.action = "create"
    <3>1. next = VisitCreate(after, c)
      BY <2>1, <2>6 DEF VisitActions
    <3>2. CASE c.address \in base
      <4>1. next = Violation(after, c)
        BY <2>4, <3>1, <3>2 DEF VisitCreate, IsBase
      <4>2. Sound(next, base, baseline) /\ ~Blameless(next)
        BY <2>3, <4>1, ViolationIs
      <4>3. QED  BY <4>2 DEF next
    <3>3. CASE c.address \notin base
      <4>1. /\ Sound(next, base, baseline)
            /\ next.violations = after.violations /\ next.own = after.own \cup {c.address}
            /\ Updates(next.claims) = Updates(after.claims) /\ next.drift = after.drift
        BY <2>3, <3>1, <3>3, VisitCreateIs
      <4>2. OwnAfter(ev, next, c)
        BY <2>3, <4>1 DEF OwnAfter
      <4>3. QED  BY <2>2, <2>3, <2>6, <3>3, <4>1, <4>2 DEF Passed, UpdatesAfter, Blameless, next
    <3>4. QED  BY <3>2, <3>3
  <2>7. CASE c.action = "update"
    <3>1. next = VisitUpdate(after, c)
      BY <2>1, <2>7 DEF VisitActions
    <3>2. CASE c.address \in base
      <4>1. next = VisitBaseUpdate(after, c)
        BY <2>4, <3>1, <3>2 DEF VisitUpdate, IsBase
      <4>2. /\ Sound(next, base, baseline)
            /\ next.violations = after.violations /\ next.own = after.own
            /\ UpdatesAfter(after, next, c, base)
        BY <2>3, <3>2, <4>1, VisitBaseUpdateIs
      <4>3. OwnAfter(ev, next, c)
        BY <2>3, <2>7, <4>2 DEF OwnAfter
      <4>4. UpdatesAfter(ev, next, c, base)
        BY <2>3, <4>2 DEF UpdatesAfter
      <4>5. Passed(c, base)
        BY <2>2, <2>7 DEF Passed
      <4>6. QED  BY <2>3, <4>2, <4>3, <4>4, <4>5 DEF Blameless, next
    <3>3. CASE c.address \notin base
      <4>1. next = after
        BY <2>4, <3>1, <3>3 DEF VisitUpdate, IsBase
      <4>2. OwnAfter(ev, next, c)
        BY <2>3, <2>7, <4>1 DEF OwnAfter
      <4>3. QED  BY <2>2, <2>3, <2>7, <3>3, <4>1, <4>2 DEF Passed, UpdatesAfter, Blameless, next
    <3>4. QED  BY <3>2, <3>3
  <2>8. CASE c.action \in {"delete", "replace"}
    <3>1. next = VisitDestructive(after, c)
      BY <2>1, <2>8 DEF VisitActions
    <3>2. CASE c.address \notin after.own
      <4>1. next = Violation(after, c)
        BY <3>1, <3>2 DEF VisitDestructive, IsOwn
      <4>2. Sound(next, base, baseline) /\ ~Blameless(next)
        BY <2>3, <4>1, ViolationIs
      <4>3. QED  BY <4>2 DEF next
    <3>3. CASE c.address \in after.own
      <4>1. /\ Sound(next, base, baseline) /\ next.violations = after.violations
            /\ next.own = IF c.action = "delete" THEN after.own \ {c.address} ELSE after.own
            /\ Updates(next.claims) = Updates(after.claims) /\ next.drift = after.drift
        BY <2>3, <2>8, <3>1, <3>3, VisitDestructiveIs
      <4>2. OwnAfter(ev, next, c)
        BY <2>3, <2>8, <4>1 DEF OwnAfter
      <4>3. c.address \notin base
        BY <2>4, <3>3
      <4>4. QED  BY <2>2, <2>3, <2>8, <4>1, <4>2, <4>3 DEF Passed, UpdatesAfter, Blameless, next
    <3>4. QED  BY <3>2, <3>3
  <2>9. c.action \in {"no-op", "create", "update", "delete", "replace"}
    BY DEF Change, Actions
  <2>10. QED  BY <2>5, <2>6, <2>7, <2>8, <2>9
<1>3. QED  BY <1>1, <1>2

------------------------------------------------------------------------------
(* evaluate *)

\* Claims of an overlay over a base: none of what it creates is in the base,
\* and what it updates is.
Fitting(claims, base) ==
    /\ claims \in Claims /\ base \subseteq Addresses
    /\ Creates(claims) \cap base = {} /\ Updates(claims) \subseteq base

LEMMA StartIsSound ==
    ASSUME NEW claims, NEW base, Fitting(claims, base), NEW baseline \in SUBSET Addresses
    PROVE  Sound(Working(claims, base, baseline), base, baseline)
<1> DEFINE ev == Working(claims, base, baseline)
<1>1. Creates(claims) \subseteq Addresses
  BY KindsAre DEF Fitting
<1>2. ev \in WorkingSets
  BY <1>1 DEF Fitting, Working, WorkingSets
<1>3. QED  BY <1>2 DEF Sound, Working, Fitting

LEMMA RunIsSound ==
    ASSUME NEW n \in Nat, NEW order \in [1..n -> Change], NEW run, NEW base, NEW baseline,
           Sound(run[0], base, baseline), IsRun(run, order, run[0], n)
    PROVE  \A i \in 0..n : Sound(run[i], base, baseline)
<1> DEFINE S == {i \in 0..n : Sound(run[i], base, baseline)}
<1>1. 0 \in S
  OBVIOUS
<1>2. ASSUME NEW k \in 0..(n - 1), k \in S  PROVE k + 1 \in S
  <2>1. k + 1 \in 1..n /\ order[k + 1] \in Change /\ (k + 1) - 1 = k
    OBVIOUS
  <2>2. run[k + 1] = Visit(run[k], order[k + 1])
    BY <2>1 DEF IsRun
  <2>3. Sound(run[k + 1], base, baseline)
    BY <1>2, <2>1, <2>2, VisitIs
  <2>4. QED  BY <2>1, <2>3
<1>3. 0..n \subseteq S
  <2> HIDE DEF S
  <2> QED  BY <1>1, <1>2, BoundedInduction
<1>4. QED  BY <1>3

\* What holds along a run that ends without a violation.
Clean(run, order, n, base) ==
    /\ \A i \in 0..n : /\ Blameless(run[i])
                       /\ Updates(run[i].claims) \subseteq Updates(run[n].claims)
                       /\ run[i].drift \subseteq run[n].drift
    /\ \A i \in 1..n : /\ Passed(order[i], base)
                       /\ OwnAfter(run[i - 1], run[i], order[i])
                       /\ UpdatesAfter(run[i - 1], run[i], order[i], base)

LEMMA RunIsClean ==
    ASSUME NEW n \in Nat, NEW order \in [1..n -> Change], NEW run, NEW base, NEW baseline,
           Sound(run[0], base, baseline), IsRun(run, order, run[0], n),
           Blameless(run[n])
    PROVE  Clean(run, order, n, base)
<1> DEFINE S == {k \in 0..n : /\ Blameless(run[n - k])
                             /\ Updates(run[n - k].claims) \subseteq Updates(run[n].claims)
                             /\ run[n - k].drift \subseteq run[n].drift}
<1>1. ASSUME NEW i \in 1..n
      PROVE  Blameless(run[i]) =>
                /\ Blameless(run[i - 1]) /\ Passed(order[i], base)
                /\ OwnAfter(run[i - 1], run[i], order[i])
                /\ UpdatesAfter(run[i - 1], run[i], order[i], base)
  <2>1. i - 1 \in 0..n /\ order[i] \in Change
    OBVIOUS
  <2>2. Sound(run[i - 1], base, baseline) /\ run[i] = Visit(run[i - 1], order[i])
    BY <2>1, RunIsSound DEF IsRun
  <2>3. QED  BY <2>1, <2>2, VisitIs
<1>2. 0 \in S
  OBVIOUS
<1>3. ASSUME NEW k \in 0..(n - 1), k \in S  PROVE k + 1 \in S
  <2>1. n - k \in 1..n /\ n - (k + 1) = (n - k) - 1 /\ k + 1 \in 0..n
    OBVIOUS
  <2>2. /\ Blameless(run[n - (k + 1)])
        /\ UpdatesAfter(run[n - (k + 1)], run[n - k], order[n - k], base)
    BY <1>1, <1>3, <2>1
  <2>3. /\ Updates(run[n - (k + 1)].claims) \subseteq Updates(run[n - k].claims)
        /\ run[n - (k + 1)].drift \subseteq run[n - k].drift
    BY <2>2 DEF UpdatesAfter
  <2>4. /\ Updates(run[n - k].claims) \subseteq Updates(run[n].claims)
        /\ run[n - k].drift \subseteq run[n].drift
    BY <1>3
  <2>5. QED  BY <2>1, <2>2, <2>3, <2>4
<1>4. 0..n \subseteq S
  <2> HIDE DEF S
  <2> QED  BY <1>2, <1>3, BoundedInduction
<1>5. ASSUME NEW i \in 0..n
      PROVE  /\ Blameless(run[i])
             /\ Updates(run[i].claims) \subseteq Updates(run[n].claims)
             /\ run[i].drift \subseteq run[n].drift
  <2>1. n - i \in 0..n /\ n - (n - i) = i
    OBVIOUS
  <2>2. n - i \in S
    BY <1>4, <2>1
  <2>3. QED  BY <2>1, <2>2
<1>6. QED  BY <1>1, <1>5 DEF Clean

\* Nothing from the change at lo to the one at hi moves or deletes x.
Spared(order, lo, hi, x) ==
    \A j \in lo..hi : order[j].from # x /\ ~(order[j].address = x /\ order[j].action = "delete")

LEMMA OwnStays ==
    ASSUME NEW n \in Nat, NEW order, NEW run, NEW base, Clean(run, order, n, base),
           NEW i \in 0..n, NEW m \in i..n, NEW x, x \in run[i].own, Spared(order, i + 1, m, x)
    PROVE  x \in run[m].own
<1> DEFINE S == {k \in 0..(m - i) : x \in run[i + k].own}
<1>1. 0 \in S
  OBVIOUS
<1>2. ASSUME NEW k \in 0..((m - i) - 1), k \in S  PROVE k + 1 \in S
  <2>1. /\ i + (k + 1) \in 1..n /\ (i + (k + 1)) - 1 = i + k /\ i + (k + 1) \in (i + 1)..m
        /\ k + 1 \in 0..(m - i)
    OBVIOUS
  <2>2. OwnAfter(run[i + k], run[i + (k + 1)], order[i + (k + 1)])
    BY <2>1 DEF Clean
  <2>3. x \in run[i + k].own
    BY <1>2
  <2>4. x \in run[i + (k + 1)].own
    BY <2>1, <2>2, <2>3 DEF OwnAfter, Spared
  <2>5. QED  BY <2>1, <2>4
<1>3. m - i \in Nat /\ i + (m - i) = m
  OBVIOUS
<1>4. 0..(m - i) \subseteq S
  <2> HIDE DEF S
  <2> QED  BY <1>1, <1>2, <1>3, BoundedInduction
<1>5. QED  BY <1>3, <1>4

\* The own resources that a change creates or moves.
Followed(order, i, n, claims) ==
    /\ Spared(order, i + 1, n, order[i].address)
    /\ \/ order[i].action = "create"
       \/ /\ order[i].action # "delete" /\ order[i].from \in Creates(claims)
          /\ Spared(order, 1, i - 1, order[i].from)

\* What evaluate promises of a plan it accepts.
LEMMA EvaluateAccepts ==
    ASSUME NEW claims, NEW base, Fitting(claims, base), NEW baseline \in SUBSET Addresses,
           NEW n \in Nat, NEW order \in [1..n -> Change],
           Evaluate(claims, base, baseline, order).ok
    PROVE  LET result == Evaluate(claims, base, baseline, order)
           IN  /\ Fitting(result.claims, base)
               /\ Updates(claims) \subseteq Updates(result.claims)
               /\ result.drift \subseteq Addresses /\ result.ignored \subseteq Addresses
               /\ \A i \in 1..n :
                     /\ Passed(order[i], base)
                     /\ order[i].action = "update" /\ order[i].address \in base /\ Material(order[i])
                           => order[i].address \in Updates(result.claims) \cup result.drift
                     /\ Followed(order, i, n, claims) => order[i].address \in Creates(result.claims)
<1> DEFINE start  == Working(claims, base, baseline)
           result == Evaluate(claims, base, baseline, order)
<1>1. PICK run : IsRun(run, order, start, n) /\ FoldLeft(Visit, start, order) = run[n]
  <2> HIDE DEF start
  <2> QED  BY FoldIsRun
<1>2. /\ Blameless(run[n]) /\ result.claims = run[n].claims
      /\ result.drift = run[n].drift /\ result.ignored = run[n].ignored
  BY <1>1 DEF Evaluate, Blameless
<1>3. run[0] = start /\ IsRun(run, order, run[0], n) /\ Sound(run[0], base, baseline)
  BY <1>1, StartIsSound DEF IsRun
<1>4. Clean(run, order, n, base) /\ Sound(run[n], base, baseline)
  <2>1. Blameless(run[n]) /\ n \in 0..n
    BY <1>2
  <2> HIDE DEF start, result
  <2>2. QED  BY <1>3, <2>1, RunIsClean, RunIsSound
<1>5. /\ run[n].claims \in Claims /\ run[n].own = Creates(run[n].claims)
      /\ run[n].own \cap base = {} /\ Updates(run[n].claims) \subseteq base
      /\ run[n].drift \subseteq Addresses /\ run[n].ignored \subseteq Addresses
  BY <1>4, WorkingSetIs DEF Sound
<1>6. /\ Fitting(result.claims, base)
      /\ result.drift \subseteq Addresses /\ result.ignored \subseteq Addresses
  BY <1>2, <1>5 DEF Fitting
<1>7. start.claims = claims /\ start.own = Creates(claims)
  BY DEF Working
<1> HIDE DEF start, result
<1>8. Updates(claims) \subseteq Updates(result.claims)
  <2>1. 0 \in 0..n
    OBVIOUS
  <2>2. QED  BY <1>2, <1>3, <1>4, <1>7, <2>1 DEF Clean
<1>9. ASSUME NEW i \in 1..n
      PROVE  /\ Passed(order[i], base)
             /\ order[i].action = "update" /\ order[i].address \in base /\ Material(order[i])
                   => order[i].address \in Updates(result.claims) \cup result.drift
             /\ Followed(order, i, n, claims) => order[i].address \in Creates(result.claims)
  <2>1. /\ Passed(order[i], base) /\ OwnAfter(run[i - 1], run[i], order[i])
        /\ UpdatesAfter(run[i - 1], run[i], order[i], base)
    BY <1>4 DEF Clean
  <2>2. i \in 0..n /\ i - 1 \in 0..n /\ n \in i..n
    OBVIOUS
  <2>3. Updates(run[i].claims) \subseteq Updates(run[n].claims) /\ run[i].drift \subseteq run[n].drift
    BY <1>4, <2>2 DEF Clean
  <2>4. order[i].action = "update" /\ order[i].address \in base /\ Material(order[i])
           => order[i].address \in Updates(result.claims) \cup result.drift
    BY <1>2, <2>1, <2>3 DEF UpdatesAfter
  <2>5. ASSUME Followed(order, i, n, claims)  PROVE order[i].address \in Creates(result.claims)
    <3>1. order[i].address \in run[i].own
      <4>1. CASE order[i].action = "create"
        BY <2>1, <4>1 DEF OwnAfter
      <4>2. CASE /\ order[i].action # "delete" /\ order[i].from \in Creates(claims)
                 /\ Spared(order, 1, i - 1, order[i].from)
        <5>1. 0 \in 0..n /\ i - 1 \in 0..n /\ 0 + 1 = 1
          OBVIOUS
        <5>2. order[i].from \in run[i - 1].own
          BY <1>3, <1>4, <1>7, <4>2, <5>1, OwnStays
        <5>3. QED  BY <2>1, <4>2, <5>2 DEF OwnAfter
      <4>3. QED  BY <2>5, <4>1, <4>2 DEF Followed
    <3>2. order[i].address \in run[n].own
      BY <1>4, <2>2, <2>5, <3>1, OwnStays DEF Followed
    <3>3. QED  BY <1>2, <1>5, <3>2
  <2>6. QED  BY <2>1, <2>4, <2>5
<1>10. QED  BY <1>6, <1>8, <1>9 DEF result

------------------------------------------------------------------------------
(* Plans as sets of changes, which evaluate visits in some order. *)

LEMMA OrderIs ==
    ASSUME NEW S, IsFiniteSet(S), NEW order \in SetToSeqs(S)
    PROVE  /\ Cardinality(S) \in Nat /\ order \in [1..Cardinality(S) -> S]
           /\ \A i, j \in 1..Cardinality(S) : i # j => order[i] # order[j]
           /\ \A c \in S : \E i \in 1..Cardinality(S) : order[i] = c
<1> DEFINE n == Cardinality(S)
<1>1. n \in Nat
  BY FS_CardinalityType
<1>2. order \in [1..n -> S] /\ \A i, j \in 1..n : i # j => order[i] # order[j]
  BY DEF SetToSeqs
<1> HIDE DEF n
<1>3. order \in Injection(1..n, S)
  BY <1>2 DEF Injection, IsInjective
<1>4. Cardinality(1..n) = n
  BY <1>1, FS_Interval
<1>5. order \in Surjection(1..n, S)
  BY <1>3, <1>4, FS_Injection DEF n
<1>6. QED  BY <1>1, <1>2, <1>5 DEF Surjection, n

\* Of all changes of a plan, c alone touches an own resource: it creates it
\* or moves it to where it is then.
Steady(c, changes, claims) ==
    /\ \A d \in changes \ {c} :
          d.from # c.address /\ ~(d.address = c.address /\ d.action = "delete")
    /\ \/ c.action = "create"
       \/ /\ c.action # "delete" /\ c.from \in Creates(claims)
          /\ \A d \in changes \ {c} :
                d.from # c.from /\ ~(d.address = c.from /\ d.action = "delete")

\* What evaluate promises of a plan it accepts, in whatever order it comes.
THEOREM PlanAccepted ==
    ASSUME NEW claims, NEW base, Fitting(claims, base), NEW baseline \in SUBSET Addresses,
           NEW changes \in SUBSET Change, IsFiniteSet(changes),
           NEW order \in SetToSeqs(changes),
           Evaluate(claims, base, baseline, order).ok
    PROVE  LET result == Evaluate(claims, base, baseline, order)
           IN  /\ Fitting(result.claims, base)
               /\ Updates(claims) \subseteq Updates(result.claims)
               /\ result.drift \subseteq Addresses /\ result.ignored \subseteq Addresses
               /\ \A c \in changes :
                     /\ Passed(c, base)
                     /\ c.action = "update" /\ c.address \in base /\ Material(c)
                           => c.address \in Updates(result.claims) \cup result.drift
                     /\ Steady(c, changes, claims) => c.address \in Creates(result.claims)
<1> DEFINE n == Cardinality(changes)
           result == Evaluate(claims, base, baseline, order)
<1>1. /\ n \in Nat /\ order \in [1..n -> changes]
      /\ \A i, j \in 1..n : i # j => order[i] # order[j]
      /\ \A c \in changes : \E i \in 1..n : order[i] = c
  BY OrderIs
<1> HIDE DEF n
<1>2. order \in [1..n -> Change]
  BY <1>1
<1>3. /\ Fitting(result.claims, base)
      /\ Updates(claims) \subseteq Updates(result.claims)
      /\ result.drift \subseteq Addresses /\ result.ignored \subseteq Addresses
      /\ \A i \in 1..n :
            /\ Passed(order[i], base)
            /\ order[i].action = "update" /\ order[i].address \in base /\ Material(order[i])
                  => order[i].address \in Updates(result.claims) \cup result.drift
            /\ Followed(order, i, n, claims) => order[i].address \in Creates(result.claims)
  BY <1>1, <1>2, EvaluateAccepts
<1> HIDE DEF result
<1>4. ASSUME NEW c \in changes
      PROVE  /\ Passed(c, base)
             /\ c.action = "update" /\ c.address \in base /\ Material(c)
                   => c.address \in Updates(result.claims) \cup result.drift
             /\ Steady(c, changes, claims) => c.address \in Creates(result.claims)
  <2>1. PICK i \in 1..n : order[i] = c
    BY <1>1
  <2>2. ASSUME NEW j \in 1..n, j # i  PROVE order[j] \in changes \ {c}
    BY <1>1, <2>1, <2>2
  <2>3. ASSUME Steady(c, changes, claims)  PROVE Followed(order, i, n, claims)
    <3>1. \A j \in (i + 1)..n : j \in 1..n /\ j # i
      BY <1>1
    <3>2. \A j \in 1..(i - 1) : j \in 1..n /\ j # i
      BY <1>1
    <3>3. Spared(order, i + 1, n, order[i].address)
      BY <2>1, <2>2, <2>3, <3>1 DEF Spared, Steady
    <3>4. \/ order[i].action = "create"
          \/ /\ order[i].action # "delete" /\ order[i].from \in Creates(claims)
             /\ Spared(order, 1, i - 1, order[i].from)
      BY <2>1, <2>2, <2>3, <3>2 DEF Spared, Steady
    <3>5. QED  BY <3>3, <3>4 DEF Followed
  <2>4. QED  BY <1>3, <2>1, <2>3
<1>5. QED  BY <1>3, <1>4 DEF result

------------------------------------------------------------------------------
(* Types alone, when the claims need not fit the base that is looked at. *)

Typed(ev) == ev \in WorkingSets /\ ev.own \subseteq DOMAIN ev.claims

LEMMA ClaimedIs ==
    ASSUME NEW f \in Claims, NEW a \in Addresses, NEW kind \in {"create", "update"}, NEW S
    PROVE  /\ AddClaim(f, a, kind) \in Claims /\ DOMAIN AddClaim(f, a, kind) = DOMAIN f \cup {a}
           /\ DropClaims(f, S) \in Claims /\ DOMAIN DropClaims(f, S) = DOMAIN f \ S
<1>1. AddClaim(f, a, kind) \in Claims /\ DropClaims(f, S) \in Claims
  BY WithClaimIs, WithoutClaimIs
<1>2. DOMAIN AddClaim(f, a, kind) = DOMAIN f \cup {a}
  BY DEF AddClaim, Override
<1>3. DOMAIN DropClaims(f, S) = DOMAIN f \ S
  BY DEF DropClaims, Restrict
<1>4. QED  BY <1>1, <1>2, <1>3

\* The steps of which a visit is made.
LEMMA WorkIsTyped ==
    ASSUME NEW ev, Typed(ev), NEW c \in Change, NEW kind \in {"create", "update"}
    PROVE  /\ Typed(Violation(ev, c)) /\ Typed(Moved(ev, c))
           /\ Typed(WithClaim(ev, c.address, kind)) /\ Typed(WithoutClaim(ev, c.address))
           /\ Typed([ev EXCEPT !.ignored = @ \cup {c.address}])
           /\ Typed([ev EXCEPT !.drift = @ \cup {c.address}])
           /\ Typed(VisitCreate(ev, c))
<1>1. /\ ev \in WorkingSets /\ ev.claims \in Claims /\ ev.own \subseteq DOMAIN ev.claims
      /\ c.address \in Addresses
  BY WorkingSetIs DEF Typed, Change
<1> DEFINE with    == AddClaim(ev.claims, c.address, kind)
           created == AddClaim(ev.claims, c.address, "create")
           without == DropClaims(ev.claims, {c.address})
<1>2. /\ with \in Claims /\ DOMAIN with = DOMAIN ev.claims \cup {c.address}
      /\ created \in Claims /\ DOMAIN created = DOMAIN ev.claims \cup {c.address}
      /\ without \in Claims /\ DOMAIN without = DOMAIN ev.claims \ {c.address}
  BY <1>1, ClaimedIs
<1>3. Typed(Violation(ev, c))
  BY <1>1 DEF Typed, WorkingSets, Violation
<1>4. /\ Typed([ev EXCEPT !.ignored = @ \cup {c.address}])
      /\ Typed([ev EXCEPT !.drift = @ \cup {c.address}])
  BY <1>1 DEF Typed, WorkingSets
<1>5. Typed(WithClaim(ev, c.address, kind))
  <2>1. WithClaim(ev, c.address, kind) = [ev EXCEPT !.claims = with]
    BY DEF WithClaim
  <2> HIDE DEF with
  <2>2. QED  BY <1>1, <1>2, <2>1 DEF Typed, WorkingSets
<1>6. Typed(WithoutClaim(ev, c.address))
  <2>1. WithoutClaim(ev, c.address) = [ev EXCEPT !.claims = without, !.own = @ \ {c.address}]
    BY DEF WithoutClaim
  <2> HIDE DEF without
  <2>2. QED  BY <1>1, <1>2, <2>1 DEF Typed, WorkingSets
<1>7. Typed(VisitCreate(ev, c))
  <2>1. VisitCreate(ev, c) \in
           {Violation(ev, c), [ev EXCEPT !.claims = created, !.own = @ \cup {c.address}]}
    BY DEF VisitCreate
  <2> HIDE DEF created
  <2>2. Typed([ev EXCEPT !.claims = created, !.own = @ \cup {c.address}])
    BY <1>1, <1>2 DEF Typed, WorkingSets
  <2>3. QED  BY <1>3, <2>1, <2>2
<1>8. Typed(Moved(ev, c))
  <2>1. CASE c.from \notin ev.own
    BY <2>1 DEF Moved
  <2>2. CASE c.from \in ev.own
    <3> DEFINE rest   == DropClaims(ev.claims, {c.from})
               claims == AddClaim(rest, c.address, ev.claims[c.from])
               own    == (ev.own \ {c.from}) \cup {c.address}
    <3>1. rest \in Claims /\ DOMAIN rest = DOMAIN ev.claims \ {c.from}
      BY <1>1, ClaimedIs
    <3>2. ev.claims[c.from] \in {"create", "update"}
      BY <1>1, <2>2, ClaimsAre
    <3> HIDE DEF rest
    <3>3. claims \in Claims /\ DOMAIN claims = DOMAIN rest \cup {c.address}
      BY <1>1, <3>1, <3>2, ClaimedIs
    <3>4. Moved(ev, c) = [ev EXCEPT !.claims = claims, !.own = own]
      BY <2>2 DEF Moved, rest
    <3>5. own \subseteq DOMAIN claims /\ own \subseteq Addresses
      <4> HIDE DEF claims
      <4> QED  BY <1>1, <3>1, <3>3, WorkingSetIs
    <3> HIDE DEF claims, own
    <3>6. /\ Moved(ev, c) \in WorkingSets
          /\ Moved(ev, c).own = own /\ Moved(ev, c).claims = claims
      BY <1>1, <3>3, <3>4, <3>5 DEF WorkingSets
    <3>7. QED  BY <3>5, <3>6 DEF Typed
  <2>3. QED  BY <2>1, <2>2
<1>9. QED  BY <1>3, <1>4, <1>5, <1>6, <1>7, <1>8

LEMMA VisitIsTyped ==
    ASSUME NEW ev, Typed(ev), NEW c \in Change
    PROVE  Typed(Visit(ev, c))
<1> DEFINE after == Moved(ev, c)
<1>1. Visit(ev, c) \in {Violation(ev, c), VisitActions(after, c)}
  BY DEF Visit
<1>2. Typed(Violation(ev, c)) /\ Typed(after)
  BY WorkIsTyped
<1> HIDE DEF after
<1>3. /\ Typed(Violation(after, c)) /\ Typed(VisitCreate(after, c))
      /\ Typed(WithClaim(after, c.address, "create")) /\ Typed(WithClaim(after, c.address, "update"))
      /\ Typed(WithoutClaim(after, c.address))
      /\ Typed([after EXCEPT !.ignored = @ \cup {c.address}])
      /\ Typed([after EXCEPT !.drift = @ \cup {c.address}])
  BY <1>2, WorkIsTyped
<1>4. Typed(VisitUpdate(after, c))
  BY <1>2, <1>3 DEF VisitUpdate, VisitBaseUpdate
<1>5. Typed(VisitDestructive(after, c))
  BY <1>3 DEF VisitDestructive
<1>6. Typed(VisitActions(after, c))
  BY <1>2, <1>3, <1>4, <1>5 DEF VisitActions, Change, Actions
<1>7. QED  BY <1>1, <1>2, <1>6

\* Whatever evaluate is given, and whether it accepts or not, it returns claims.
LEMMA EvaluateIsTyped ==
    ASSUME NEW claims \in Claims, NEW base \in SUBSET Addresses,
           NEW baseline \in SUBSET Addresses,
           NEW changes \in SUBSET Change, IsFiniteSet(changes),
           NEW order \in SetToSeqs(changes)
    PROVE  Evaluate(claims, base, baseline, order).claims \in Claims
<1> DEFINE n     == Cardinality(changes)
           start == Working(claims, base, baseline)
<1>1. n \in Nat /\ order \in [1..n -> changes]
  BY OrderIs
<1>2. Typed(start)
  <2>1. Creates(claims) \subseteq DOMAIN claims /\ DOMAIN claims \subseteq Addresses
    BY KindsAre
  <2>2. QED  BY <2>1 DEF Working, WorkingSets, Typed
<1> HIDE DEF n, start
<1>3. PICK run : IsRun(run, order, start, n) /\ FoldLeft(Visit, start, order) = run[n]
  BY <1>1, FoldIsRun
<1> DEFINE S == {i \in 0..n : Typed(run[i])}
<1>4. 0 \in S
  BY <1>1, <1>2, <1>3 DEF IsRun
<1>5. ASSUME NEW k \in 0..(n - 1), k \in S  PROVE k + 1 \in S
  <2>1. k + 1 \in 1..n /\ (k + 1) - 1 = k /\ k + 1 \in 0..n
    BY <1>1
  <2>2. order[k + 1] \in Change /\ run[k + 1] = Visit(run[k], order[k + 1])
    BY <1>1, <1>3, <2>1 DEF IsRun
  <2>3. Typed(run[k + 1])
    BY <1>5, <2>2, VisitIsTyped
  <2>4. QED  BY <2>1, <2>3
<1>6. Typed(run[n])
  <2>1. 0..n \subseteq S
    <3> HIDE DEF S
    <3> QED  BY <1>1, <1>4, <1>5, BoundedInduction
  <2>2. QED  BY <1>1, <2>1
<1>7. Evaluate(claims, base, baseline, order).claims = run[n].claims
  BY <1>3 DEF Evaluate, start
<1>8. QED  BY <1>6, <1>7, WorkingSetIs DEF Typed

==============================================================================
