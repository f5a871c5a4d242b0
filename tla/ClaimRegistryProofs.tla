------------------------- MODULE ClaimRegistryProofs -------------------------
(***************************************************************************)
(* Theorems about ClaimRegistry, for every set of overlays, addresses,     *)
(* identities, ids, runs and ETags; first, lemmas about what every         *)
(* mutation callback of RegistryDoc makes of a document.                   *)
(***************************************************************************)
EXTENDS ClaimRegistry, TLAPS

(* What the helpers on documents and claim maps return. *)

LEMMA WithEntryIs ==
    ASSUME NEW d, NEW n, NEW e
    PROVE  /\ DOMAIN WithEntry(d, n, e).overlays = DOMAIN d.overlays \cup {n}
           /\ WithEntry(d, n, e).overlays[n] = e
           /\ \A m \in DOMAIN d.overlays :
                 m # n => WithEntry(d, n, e).overlays[m] = d.overlays[m]
           /\ WithEntry(d, n, e).tombstones = d.tombstones
BY DEF WithEntry

LEMMA WithEntryIsDocument ==
    ASSUME NEW d, IsDocument(d), NEW n \in Overlays, NEW e \in Entry
    PROVE  IsDocument(WithEntry(d, n, e))
<1> DEFINE w == WithEntry(d, n, e)
<1>1. w = [overlays |-> w.overlays, tombstones |-> w.tombstones]
  BY DEF WithEntry
<1>2. /\ w.overlays = [m \in DOMAIN d.overlays \cup {n} |-> IF m = n THEN e ELSE d.overlays[m]]
      /\ w.tombstones = d.tombstones
  BY DEF WithEntry
<1>3. w.overlays = [m \in DOMAIN w.overlays |-> w.overlays[m]]
  BY <1>2
<1>4. DOMAIN w.overlays \subseteq Overlays /\ w.tombstones \subseteq Overlays
  BY <1>2 DEF IsDocument
<1>5. \A m \in DOMAIN w.overlays : w.overlays[m] \in Entry
  BY <1>2 DEF IsDocument
<1> HIDE DEF w
<1>6. IsDocument(w)
  BY <1>1, <1>3, <1>4, <1>5 DEF IsDocument
<1>7. QED  BY <1>6 DEF w

LEMMA ClaimMapIs ==
    ASSUME NEW S \in SUBSET Addresses, NEW f \in [S -> Claim]
    PROVE  f \in ClaimMap
BY DEF ClaimMap

LEMMA MergeClaimsIs ==
    ASSUME NEW c \in ClaimMap, NEW w \in ClaimMap
    PROVE  /\ MergeClaims(c, w) \in ClaimMap
           /\ DOMAIN MergeClaims(c, w) = DOMAIN c \cup DOMAIN w
<1>1. DOMAIN MergeClaims(c, w) = DOMAIN c \cup DOMAIN w
  BY DEF MergeClaims
<1>2. ASSUME NEW a \in DOMAIN c \cup DOMAIN w
      PROVE  MergeClaims(c, w)[a] \in Claim
  BY DEF MergeClaims, MergeClaim, KnownOr, ClaimMap, Claim
<1>3. DOMAIN c \cup DOMAIN w \in SUBSET Addresses
  BY DEF ClaimMap
<1>4. MergeClaims(c, w) \in [DOMAIN c \cup DOMAIN w -> Claim]
  BY <1>1, <1>2 DEF MergeClaims
<1>5. QED  BY <1>1, <1>3, <1>4, ClaimMapIs

LEMMA RestrictIs ==
    ASSUME NEW c \in ClaimMap, NEW S
    PROVE  /\ Restrict(c, DOMAIN c \ S) \in ClaimMap
           /\ DOMAIN Restrict(c, DOMAIN c \ S) = DOMAIN c \ S
<1>1. DOMAIN c \ S \in SUBSET Addresses
  BY DEF ClaimMap
<1>2. Restrict(c, DOMAIN c \ S) \in [DOMAIN c \ S -> Claim]
  BY DEF Restrict, ClaimMap
<1>3. QED  BY <1>1, <1>2, ClaimMapIs

LEMMA EmptyIsClaims == << >> \in ClaimMap /\ DOMAIN << >> = {}
BY DEF ClaimMap

(* What each mutation callback returns. *)

LEMMA RegisterType ==
    ASSUME NEW d, IsDocument(d), NEW n \in Overlays
    PROVE  IsDocument(RegisterCreating(d, n))
<1> DEFINE e == [status |-> "creating", run |-> Nil, etag |-> Nil, claims |-> << >>]
<1>1. e \in Entry
  BY EmptyIsClaims DEF Entry, LiveStatuses
<1>2. QED  BY <1>1, WithEntryIsDocument DEF RegisterCreating

LEMMA FlipType ==
    ASSUME NEW d, IsDocument(d), NEW n \in Overlays, NEW etag \in Etags, ~FlipRefused(d, n)
    PROVE  IsDocument(Flip(d, n, etag))
<1>1. d.overlays[n] \in Entry
  BY DEF FlipRefused, Registered, IsDocument
<1>2. [d.overlays[n] EXCEPT !.status = "active", !.etag = etag] \in Entry
  BY <1>1 DEF Entry, LiveStatuses
<1>3. QED  BY <1>2, WithEntryIsDocument DEF Flip

LEMMA AcquireType ==
    ASSUME NEW d, IsDocument(d), NEW n \in DOMAIN d.overlays, NEW w \in ClaimMap,
           NEW r \in Runs
    PROVE  IsDocument(AcquireClaims(d, n, w, r))
<1>1. d.overlays[n] \in Entry /\ n \in Overlays
  BY DEF IsDocument
<1>2. MergeClaims(d.overlays[n].claims, w) \in ClaimMap
  BY <1>1, MergeClaimsIs DEF Entry
<1>3. [d.overlays[n] EXCEPT !.status = "applying", !.run = r,
                                    !.claims = MergeClaims(@, w)] \in Entry
  BY <1>1, <1>2 DEF Entry, LiveStatuses
<1>4. QED  BY <1>1, <1>3, WithEntryIsDocument DEF AcquireClaims

LEMMA FinishClaimsIs ==
    ASSUME NEW c \in ClaimMap, NEW l \in ClaimMap, NEW gone, NEW dropped
    PROVE  /\ FinishClaims(c, l, gone, dropped) \in ClaimMap
           /\ \A a : a \in DOMAIN FinishClaims(c, l, gone, dropped) <=>
                 (a \in DOMAIN c \/ a \in DOMAIN l \ gone) /\ a \notin dropped
<1> DEFINE kept == Restrict(l, DOMAIN l \ gone)
           merged == MergeClaims(c, kept)
<1>1. kept \in ClaimMap /\ DOMAIN kept = DOMAIN l \ gone
  BY RestrictIs
<1>2. merged \in ClaimMap /\ DOMAIN merged = DOMAIN c \cup (DOMAIN l \ gone)
  BY <1>1, MergeClaimsIs
<1>3. Restrict(merged, DOMAIN merged \ dropped) \in ClaimMap
      /\ DOMAIN Restrict(merged, DOMAIN merged \ dropped) = DOMAIN merged \ dropped
  BY <1>2, RestrictIs
<1>4. FinishClaims(c, l, gone, dropped) = Restrict(merged, DOMAIN merged \ dropped)
  BY DEF FinishClaims
<1> HIDE DEF kept, merged
<1>5. QED  BY <1>2, <1>3, <1>4

LEMMA FinishType ==
    ASSUME NEW d, IsDocument(d), NEW n \in DOMAIN d.overlays, NEW ok \in BOOLEAN,
           NEW l \in ClaimMap, NEW gone
    PROVE  IsDocument(FinishApply(d, n, ok, l, gone))
<1> DEFINE dropped == IF ok THEN gone ELSE {}
<1>1. d.overlays[n] \in Entry /\ n \in Overlays
  BY DEF IsDocument
<1>2. FinishClaims(d.overlays[n].claims, l, gone, dropped) \in ClaimMap
  BY <1>1, FinishClaimsIs DEF Entry
<1>3. [d.overlays[n] EXCEPT
          !.status = IF ok THEN "active" ELSE "dirty", !.run = Nil,
          !.claims = FinishClaims(@, l, gone, dropped)] \in Entry
  BY <1>1, <1>2 DEF Entry, LiveStatuses
<1>4. QED  BY <1>1, <1>3, WithEntryIsDocument DEF FinishApply

LEMMA SetStatusType ==
    ASSUME NEW d, IsDocument(d), NEW n \in DOMAIN d.overlays, NEW s \in LiveStatuses,
           NEW etag \in Etags \cup {Nil}, NEW c \in ClaimMap
    PROVE  IsDocument(SetStatus(d, n, s, etag, c))
<1>1. d.overlays[n] \in Entry /\ n \in Overlays
  BY DEF IsDocument
<1>2. MergeClaims(d.overlays[n].claims, c) \in ClaimMap
  BY <1>1, MergeClaimsIs DEF Entry
<1>3. [d.overlays[n] EXCEPT !.status = s, !.etag = etag, !.claims = MergeClaims(@, c)] \in Entry
  BY <1>1, <1>2 DEF Entry
<1>4. QED  BY <1>1, <1>3, WithEntryIsDocument DEF SetStatus

LEMMA ReleaseType ==
    ASSUME NEW d, IsDocument(d), NEW n \in Overlays
    PROVE  IsDocument(ReleaseOverlay(d, n))
<1> DEFINE o == Restrict(d.overlays, DOMAIN d.overlays \ {n})
           w == [overlays |-> o, tombstones |-> d.tombstones \cup {n}]
<1>1. DOMAIN o = DOMAIN d.overlays \ {n} /\ \A m \in DOMAIN o : o[m] = d.overlays[m]
  BY DEF Restrict
<1>2. o = [m \in DOMAIN o |-> o[m]]
  BY DEF Restrict
<1> HIDE DEF o
<1>3. IsDocument(w)
  BY <1>1, <1>2 DEF IsDocument
<1>4. QED  BY <1>3 DEF ReleaseOverlay, o

------------------------------------------------------------------------------
(* What each callback does to the addresses an overlay holds. *)

Held(d, n) == DOMAIN d.overlays[n].claims

\* d2 differs from d in the entry of n only.
OnlyEntry(d, d2, n) ==
    /\ DOMAIN d2.overlays = DOMAIN d.overlays
    /\ \A m \in DOMAIN d.overlays : m # n => d2.overlays[m] = d.overlays[m]

LEMMA WithEntryOnly ==
    ASSUME NEW d, NEW n \in DOMAIN d.overlays, NEW e
    PROVE  /\ OnlyEntry(d, WithEntry(d, n, e), n)
           /\ WithEntry(d, n, e).overlays[n] = e
<1>1. DOMAIN d.overlays \cup {n} = DOMAIN d.overlays
  OBVIOUS
<1>2. /\ DOMAIN WithEntry(d, n, e).overlays = DOMAIN d.overlays
      /\ \A m \in DOMAIN d.overlays : m # n => WithEntry(d, n, e).overlays[m] = d.overlays[m]
      /\ WithEntry(d, n, e).overlays[n] = e
  BY <1>1 DEF WithEntry
<1>3. QED  BY <1>2 DEF OnlyEntry

LEMMA FlipIs ==
    ASSUME NEW d, IsDocument(d), NEW n \in DOMAIN d.overlays, NEW etag
    PROVE  LET d2 == Flip(d, n, etag)
           IN  /\ OnlyEntry(d, d2, n)
               /\ d2.overlays[n].claims = d.overlays[n].claims
               /\ d2.overlays[n].run = d.overlays[n].run
               /\ d2.overlays[n].status = "active"
<1>1. d.overlays[n] \in Entry
  BY DEF IsDocument
<1> DEFINE e == [d.overlays[n] EXCEPT !.status = "active", !.etag = etag]
<1>2. e.claims = d.overlays[n].claims /\ e.run = d.overlays[n].run /\ e.status = "active"
  BY <1>1 DEF Entry
<1> HIDE DEF e
<1>3. /\ OnlyEntry(d, WithEntry(d, n, e), n)
      /\ WithEntry(d, n, e).overlays[n] = e
  BY WithEntryOnly
<1>4. Flip(d, n, etag) = WithEntry(d, n, e)
  BY DEF Flip, e
<1>5. QED  BY <1>1, <1>2, <1>3, <1>4 DEF Held

LEMMA SetStatusIs ==
    ASSUME NEW d, IsDocument(d), NEW n \in DOMAIN d.overlays, NEW s, NEW etag, NEW c \in ClaimMap
    PROVE  LET d2 == SetStatus(d, n, s, etag, c)
           IN  /\ OnlyEntry(d, d2, n)
               /\ Held(d2, n) = Held(d, n) \cup DOMAIN c
               /\ d2.overlays[n].claims = MergeClaims(d.overlays[n].claims, c)
               /\ d2.overlays[n].run = d.overlays[n].run
               /\ d2.overlays[n].status = s
<1>1. d.overlays[n] \in Entry
  BY DEF IsDocument
<1>2. DOMAIN MergeClaims(d.overlays[n].claims, c) = Held(d, n) \cup DOMAIN c
  BY <1>1, MergeClaimsIs DEF Entry, Held
<1> DEFINE e == [d.overlays[n] EXCEPT !.status = s, !.etag = etag, !.claims = MergeClaims(@, c)]
<1>3. e.claims = MergeClaims(d.overlays[n].claims, c) /\ e.run = d.overlays[n].run /\ e.status = s
  BY <1>1, <1>2 DEF Entry
<1> HIDE DEF e
<1>4. /\ OnlyEntry(d, WithEntry(d, n, e), n)
      /\ WithEntry(d, n, e).overlays[n] = e
  BY WithEntryOnly
<1>5. SetStatus(d, n, s, etag, c) = WithEntry(d, n, e)
  BY DEF SetStatus, e
<1>6. QED  BY <1>1, <1>2, <1>3, <1>4, <1>5 DEF Held

LEMMA AcquireIs ==
    ASSUME NEW d, IsDocument(d), NEW n \in DOMAIN d.overlays, NEW w \in ClaimMap, NEW r
    PROVE  LET d2 == AcquireClaims(d, n, w, r)
           IN  /\ OnlyEntry(d, d2, n)
               /\ Held(d2, n) = Held(d, n) \cup DOMAIN w
               /\ d2.overlays[n].claims = MergeClaims(d.overlays[n].claims, w)
               /\ d2.overlays[n].run = r
               /\ d2.overlays[n].status = "applying"
<1>1. d.overlays[n] \in Entry
  BY DEF IsDocument
<1>2. DOMAIN MergeClaims(d.overlays[n].claims, w) = Held(d, n) \cup DOMAIN w
  BY <1>1, MergeClaimsIs DEF Entry, Held
<1> DEFINE e == [d.overlays[n] EXCEPT !.status = "applying", !.run = r, !.claims = MergeClaims(@, w)]
<1>3. e.claims = MergeClaims(d.overlays[n].claims, w) /\ e.run = r /\ e.status = "applying"
  BY <1>1, <1>2 DEF Entry
<1> HIDE DEF e
<1>4. /\ OnlyEntry(d, WithEntry(d, n, e), n)
      /\ WithEntry(d, n, e).overlays[n] = e
  BY WithEntryOnly
<1>5. AcquireClaims(d, n, w, r) = WithEntry(d, n, e)
  BY DEF AcquireClaims, e
<1>6. QED  BY <1>1, <1>2, <1>3, <1>4, <1>5 DEF Held

LEMMA FinishIs ==
    ASSUME NEW d, IsDocument(d), NEW n \in DOMAIN d.overlays, NEW ok,
           NEW l \in ClaimMap, NEW gone
    PROVE  LET d2 == FinishApply(d, n, ok, l, gone)
           IN  /\ OnlyEntry(d, d2, n)
               /\ \A a : a \in Held(d2, n) <=> /\ a \in Held(d, n) \/ a \in DOMAIN l \ gone
                                             /\ ~(ok /\ a \in gone)
               /\ d2.overlays[n].run = Nil
               /\ d2.overlays[n].status # "applying"
               /\ ok => d2.overlays[n].status = "active"
<1> DEFINE dropped == IF ok THEN gone ELSE {}
           status == IF ok THEN "active" ELSE "dirty"
           e == [d.overlays[n] EXCEPT !.status = status, !.run = Nil,
                                      !.claims = FinishClaims(@, l, gone, dropped)]
<1>1. FinishApply(d, n, ok, l, gone) = WithEntry(d, n, e)
  BY DEF FinishApply
<1> HIDE DEF dropped, status
<1>2. d.overlays[n] \in Entry
  BY DEF IsDocument
<1>3. \A a : a \in DOMAIN FinishClaims(d.overlays[n].claims, l, gone, dropped) <=>
                /\ a \in Held(d, n) \/ a \in DOMAIN l \ gone
                /\ a \notin dropped
  BY <1>2, FinishClaimsIs DEF Entry, Held
<1>4. /\ e.claims = FinishClaims(d.overlays[n].claims, l, gone, dropped)
      /\ e.run = Nil
      /\ e.status = status
  BY <1>2 DEF Entry
<1> HIDE DEF e
<1>5. /\ OnlyEntry(d, WithEntry(d, n, e), n)
      /\ WithEntry(d, n, e).overlays[n] = e
  BY WithEntryOnly
<1>6. QED  BY <1>1, <1>3, <1>4, <1>5 DEF Held, dropped, status

LEMMA FinishWrites ==
    ASSUME NEW d, IsDocument(d), NEW n \in DOMAIN d.overlays, NEW ok, NEW l, NEW gone
    PROVE  \E dropped : FinishApply(d, n, ok, l, gone).overlays[n].claims =
                           FinishClaims(d.overlays[n].claims, l, gone, dropped)
<1> DEFINE dropped == IF ok THEN gone ELSE {}
           status == IF ok THEN "active" ELSE "dirty"
           e == [d.overlays[n] EXCEPT !.status = status, !.run = Nil,
                                      !.claims = FinishClaims(@, l, gone, dropped)]
<1>1. FinishApply(d, n, ok, l, gone) = WithEntry(d, n, e)
  BY DEF FinishApply
<1> HIDE DEF dropped, status
<1>2. d.overlays[n] \in Entry
  BY DEF IsDocument
<1>3. e.claims = FinishClaims(d.overlays[n].claims, l, gone, dropped)
  BY <1>2 DEF Entry
<1> HIDE DEF e
<1>4. WithEntry(d, n, e).overlays[n] = e
  BY WithEntryOnly
<1>5. QED  BY <1>1, <1>3, <1>4

LEMMA RegisterIs ==
    ASSUME NEW d, NEW n, n \notin DOMAIN d.overlays
    PROVE  LET d2 == RegisterCreating(d, n)
           IN  /\ DOMAIN d2.overlays = DOMAIN d.overlays \cup {n}
               /\ \A m \in DOMAIN d.overlays : d2.overlays[m] = d.overlays[m]
               /\ Held(d2, n) = {}
               /\ d2.overlays[n].run = Nil
               /\ d2.overlays[n].status = "creating"
BY WithEntryIs, EmptyIsClaims DEF RegisterCreating, Registered, Held

LEMMA ReleaseIs ==
    ASSUME NEW d, NEW n
    PROVE  LET d2 == ReleaseOverlay(d, n)
           IN  /\ DOMAIN d2.overlays = DOMAIN d.overlays \ {n}
               /\ \A m \in DOMAIN d2.overlays : d2.overlays[m] = d.overlays[m]
BY DEF ReleaseOverlay, Registered, Restrict

------------------------------------------------------------------------------
(* Claims a run learned. *)

LEMMA LearnedIsClaims ==
    ASSUME NEW c \in ClaimMap, NEW l \in Learned(c)
    PROVE  l \in ClaimMap /\ DOMAIN l = DOMAIN c
<1>1. l \in [DOMAIN c -> UNION {LearnedClaim(c[a]) : a \in DOMAIN c}]
      /\ \A a \in DOMAIN c : l[a] \in LearnedClaim(c[a])
  BY DEF Learned
<1>2. ASSUME NEW a \in DOMAIN c  PROVE l[a] \in Claim
  BY <1>1 DEF LearnedClaim
<1>3. QED  BY <1>1, <1>2 DEF ClaimMap

------------------------------------------------------------------------------
(* Type correctness. *)

LEMMA InitType == Init => TypeOK
BY EmptyIsClaims DEF Init, TypeOK, EmptyDoc, IsDocument, IdleCall, Call

LEMMA ClaimsOfIsClaims ==
    ASSUME TypeOK, NEW n \in Overlays
    PROVE  ClaimsOf(n) \in ClaimMap
BY EmptyIsClaims DEF TypeOK, ClaimsOf, Registered, IsDocument, Entry

LEMMA EndType ==
    ASSUME TypeOK, NEW r \in Runs, End(r)
    PROVE  calls' \in [Runs -> Call] /\ expired' \subseteq Runs
BY EmptyIsClaims DEF TypeOK, End, IdleCall, Call

LEMMA NextType == TypeOK /\ [Next]_vars => TypeOK'
<1> SUFFICES ASSUME TypeOK, [Next]_vars  PROVE TypeOK'
  OBVIOUS
<1>1. IsDocument(doc) /\ expired \subseteq Runs /\ calls \in [Runs -> Call]
  BY DEF TypeOK
<1>2. ASSUME NEW n \in Overlays, Register(n)  PROVE TypeOK'
  BY <1>1, <1>2, RegisterType DEF Register, TypeOK
<1>3. ASSUME NEW n \in Overlays, NEW etag \in Etags, Activate(n, etag)  PROVE TypeOK'
  BY <1>1, <1>3, FlipType DEF Activate, TypeOK
<1>4. ASSUME NEW n \in Overlays, NEW etag \in Etags, Rebase(n, etag)  PROVE TypeOK'
  <2>1. n \in DOMAIN doc.overlays
    BY <1>4 DEF Rebase, SetStatusRefused, Registered
  <2>2. IsDocument(SetStatus(doc, n, "active", etag, << >>))
    BY <1>1, <2>1, SetStatusType, EmptyIsClaims DEF LiveStatuses
  <2>3. QED  BY <1>1, <1>4, <2>2 DEF Rebase, TypeOK
<1>5. ASSUME NEW n \in Overlays, NEW l \in Learned(ClaimsOf(n)), Merge(n, l)  PROVE TypeOK'
  <2>1. n \in DOMAIN doc.overlays /\ doc.overlays[n] \in Entry
    BY <1>1, <1>5 DEF Merge, SetStatusRefused, Registered, IsDocument
  <2>2. l \in ClaimMap
    BY ClaimsOfIsClaims, LearnedIsClaims
  <2>3. IsDocument(SetStatus(doc, n, "merging", doc.overlays[n].etag, l))
    BY <1>1, <2>1, <2>2, SetStatusType DEF LiveStatuses, Entry
  <2>4. QED  BY <1>1, <1>5, <2>3 DEF Merge, TypeOK
<1>6. ASSUME NEW n \in Overlays, Undo(n)  PROVE TypeOK'
  <2>1. n \in DOMAIN doc.overlays /\ doc.overlays[n] \in Entry
    BY <1>1, <1>6 DEF Undo, SetStatusRefused, Registered, IsDocument
  <2>2. IsDocument(SetStatus(doc, n, "active", doc.overlays[n].etag, << >>))
    BY <1>1, <2>1, SetStatusType, EmptyIsClaims DEF LiveStatuses, Entry
  <2>3. QED  BY <1>1, <1>6, <2>2 DEF Undo, TypeOK
<1>7. ASSUME NEW n \in Overlays, Release(n)  PROVE TypeOK'
  BY <1>1, <1>7, ReleaseType DEF Release, TypeOK
<1>8. ASSUME NEW r \in Runs, NEW n \in Overlays, NEW etag \in Etags,
             NEW w \in ClaimMap, NEW released \in SUBSET (Addresses \ DOMAIN w),
             Acquire(r, n, w, released, etag)
      PROVE  TypeOK'
  <2>1. n \in DOMAIN doc.overlays
    BY <1>8 DEF Acquire, AcquireRefused, Registered
  <2>3. IsDocument(doc')
    BY <1>1, <1>8, <2>1, AcquireType DEF Acquire
  <2> DEFINE claims == doc'.overlays[n].claims
  <2>4. claims \in ClaimMap
    <3>1. n \in DOMAIN doc'.overlays
      BY <1>8, WithEntryIs DEF Acquire, AcquireClaims
    <3>2. QED  BY <2>3, <3>1 DEF IsDocument, Entry
  <2>5. Restrict(claims, DOMAIN claims \ released) \in ClaimMap
    BY <2>4, RestrictIs
  <2>6. calls' \in [Runs -> Call]
    BY <1>1, <1>8, <2>5 DEF Acquire, Call
  <2>7. QED  BY <1>1, <1>8, <2>3, <2>6 DEF Acquire, TypeOK
<1>9. ASSUME NEW r \in Runs, NEW ok \in BOOLEAN, NEW l \in Learned(calls[r].claims),
             NEW gone \in SUBSET calls[r].released, Finish(r, ok, l, gone)
      PROVE  TypeOK'
  <2>1. calls[r].name \in DOMAIN doc.overlays
    BY <1>9 DEF Finish, FinishRefused, Registered
  <2>2. l \in ClaimMap
    BY <1>1, LearnedIsClaims DEF Call
  <2>3. IsDocument(doc')
    BY <1>1, <1>9, <2>1, <2>2, FinishType DEF Finish
  <2>4. QED  BY <1>9, <2>3, EndType DEF Finish, TypeOK
<1>10. ASSUME NEW r \in Runs, FinishSuperseded(r)  PROVE TypeOK'
  BY <1>1, <1>10, EndType DEF FinishSuperseded, TypeOK
<1>11. ASSUME NEW r \in Runs, Timeout(r)  PROVE TypeOK'
  BY <1>1, <1>11 DEF Timeout, TypeOK
<1>12. CASE UNCHANGED vars
  BY <1>1, <1>12 DEF vars, TypeOK
<1>13. QED
  BY <1>2, <1>3, <1>4, <1>5, <1>6, <1>7, <1>8, <1>9, <1>10, <1>11, <1>12 DEF Next

\* Every reachable state is a well-typed document with well-typed runs.
THEOREM TypeCorrect == Spec => []TypeOK
<1>1. QED  BY InitType, NextType, PTL DEF Spec

------------------------------------------------------------------------------
(***************************************************************************)
(* The inductive invariant.  AddressesDisjoint alone is not inductive: a   *)
(* finish_apply writes claims back without a conflict check, so it must be *)
(* known that it writes nothing the entry does not already hold, which in  *)
(* turn needs to know whose run an entry is running.                       *)
(***************************************************************************)

IInv ==
    /\ TypeOK
    /\ AddressesDisjoint
    /\ RunsAccountedFor
    /\ CurrentRunHoldsItsClaims

LEMMA InitIInv == Init => IInv
BY InitType, NilAssumption
   DEF Init, IInv, AddressesDisjoint, RunsAccountedFor, CurrentRunHoldsItsClaims, EmptyDoc, IdleCall

(* A mutation that changes the entry of n only, and leaves its run as it   *)
(* is, keeps the invariant as soon as the addresses it adds are free.      *)
LEMMA SameRunStep ==
    ASSUME IInv, TypeOK', UNCHANGED calls, NEW n \in DOMAIN doc.overlays,
           OnlyEntry(doc, doc', n), Held(doc', n) = Held(doc, n),
           doc'.overlays[n].run = doc.overlays[n].run,
           doc'.overlays[n].status # "applying"
    PROVE  IInv'
<1>1. AddressesDisjoint'
  BY DEF IInv, AddressesDisjoint, OnlyEntry, Held
<1>2. RunsAccountedFor'
  BY DEF IInv, RunsAccountedFor, OnlyEntry
<1>3. CurrentRunHoldsItsClaims'
  BY DEF IInv, CurrentRunHoldsItsClaims, OnlyEntry, Held
<1>4. QED  BY <1>1, <1>2, <1>3 DEF IInv

LEMMA RegisterStep ==
    ASSUME IInv, TypeOK', NEW n \in Overlays, Register(n)
    PROVE  IInv'
<1>1. CASE n \in DOMAIN doc.overlays
  <2>1. UNCHANGED <<doc, calls>>
    BY <1>1 DEF Register, RegisterCreating, Registered
  <2>2. QED
    BY <2>1 DEF IInv, AddressesDisjoint, RunsAccountedFor, CurrentRunHoldsItsClaims
<1>2. CASE n \notin DOMAIN doc.overlays
  <2>1. /\ DOMAIN doc'.overlays = DOMAIN doc.overlays \cup {n}
        /\ \A m \in DOMAIN doc.overlays : doc'.overlays[m] = doc.overlays[m]
        /\ Held(doc', n) = {}
        /\ doc'.overlays[n].run = Nil
        /\ doc'.overlays[n].status = "creating"
        /\ UNCHANGED calls
    BY <1>2, RegisterIs DEF Register
  <2>2. AddressesDisjoint'
    BY <2>1 DEF IInv, AddressesDisjoint, Held
  <2>3. RunsAccountedFor'
    BY <2>1 DEF IInv, RunsAccountedFor
  <2>4. CurrentRunHoldsItsClaims'
    BY <2>1, NilAssumption DEF IInv, CurrentRunHoldsItsClaims
  <2>5. QED  BY <2>2, <2>3, <2>4 DEF IInv
<1>3. QED  BY <1>1, <1>2

LEMMA ActivateStep ==
    ASSUME IInv, TypeOK', NEW n \in Overlays, NEW etag \in Etags, Activate(n, etag)
    PROVE  IInv'
<1>1. n \in DOMAIN doc.overlays /\ IsDocument(doc)
  BY DEF Activate, FlipRefused, Registered, IInv, TypeOK
<1>2. QED  BY <1>1, FlipIs, SameRunStep DEF Activate, Held

(* rebase, merge and undo: the claims they merge in are already held. *)
LEMMA SetStatusStep ==
    ASSUME IInv, TypeOK', NEW n \in DOMAIN doc.overlays, NEW s, s # "applying", NEW etag,
           NEW c \in ClaimMap, DOMAIN c \subseteq Held(doc, n),
           doc' = SetStatus(doc, n, s, etag, c), UNCHANGED calls
    PROVE  IInv'
<1>1. IsDocument(doc)
  BY DEF IInv, TypeOK
<1>2. /\ OnlyEntry(doc, doc', n)
      /\ Held(doc', n) = Held(doc, n) \cup DOMAIN c
      /\ doc'.overlays[n].run = doc.overlays[n].run
      /\ doc'.overlays[n].status = s
  BY <1>1, SetStatusIs
<1>3. Held(doc', n) = Held(doc, n)
  BY <1>2
<1>4. QED  BY <1>2, <1>3, SameRunStep

LEMMA ReleaseStep ==
    ASSUME IInv, TypeOK', NEW n \in Overlays, Release(n)
    PROVE  IInv'
<1>1. /\ DOMAIN doc'.overlays = DOMAIN doc.overlays \ {n}
      /\ \A m \in DOMAIN doc'.overlays : doc'.overlays[m] = doc.overlays[m]
      /\ UNCHANGED calls
  BY ReleaseIs DEF Release
<1>2. QED
  BY <1>1 DEF IInv, AddressesDisjoint, RunsAccountedFor, CurrentRunHoldsItsClaims

LEMMA AcquireStep ==
    ASSUME IInv, TypeOK', NEW r \in Runs, NEW n \in Overlays, NEW etag \in Etags,
           NEW w \in ClaimMap, NEW released \in SUBSET (Addresses \ DOMAIN w),
           Acquire(r, n, w, released, etag)
    PROVE  IInv'
<1>1. /\ n \in DOMAIN doc.overlays
      /\ ~ConflictsFor(doc, n, w)
      /\ IsDocument(doc)
      /\ TypeOK
  BY DEF Acquire, AcquireRefused, Registered, IInv, TypeOK
<1>2. w \in ClaimMap
  OBVIOUS
<1>3. /\ OnlyEntry(doc, doc', n)
      /\ Held(doc', n) = Held(doc, n) \cup DOMAIN w
      /\ doc'.overlays[n].run = r
      /\ doc'.overlays[n].status = "applying"
  BY <1>1, <1>2, AcquireIs DEF Acquire
<1>4. \A m \in DOMAIN doc.overlays : m # n => Held(doc, m) \cap DOMAIN w = {}
  <2>1. \A m \in DOMAIN doc.overlays : doc.overlays[m].status \in LiveStatuses
    BY <1>1 DEF IsDocument, Entry
  <2>2. QED  BY <1>1, <2>1 DEF ConflictsFor, AddressConflict, Held
<1>5. /\ calls'[r].phase = "applying"
      /\ calls'[r].name = n
      /\ DOMAIN calls'[r].claims \subseteq Held(doc', n)
      /\ \A q \in Runs : q # r => calls'[q] = calls[q]
  BY <1>1 DEF Acquire, Restrict, Held, TypeOK
<1>6. AddressesDisjoint'
  BY <1>3, <1>4 DEF IInv, AddressesDisjoint, OnlyEntry, Held
<1>7. RunsAccountedFor'
  <2> SUFFICES ASSUME NEW m \in DOMAIN doc'.overlays
               PROVE  LET e == doc'.overlays[m]
                      IN  /\ e.status = "applying" => e.run # Nil
                          /\ e.run # Nil => calls'[e.run].phase = "applying"
                                            /\ calls'[e.run].name = m
    BY DEF RunsAccountedFor
  <2>1. CASE m = n
    BY <1>3, <1>5, <2>1, NilAssumption
  <2>2. CASE m # n
    <3>1. doc'.overlays[m] = doc.overlays[m] /\ m \in DOMAIN doc.overlays
      BY <1>3, <2>2 DEF OnlyEntry
    <3>2. doc.overlays[m].run \in Runs \cup {Nil}
      BY <1>1, <3>1 DEF IsDocument, Entry
    \* r is not the run of m: were it so, its name would be m, not n.
    <3>3. doc.overlays[m].run # r
      BY <1>1, <3>1, <2>2, NilAssumption DEF IInv, RunsAccountedFor, Acquire, IsDocument
    <3>4. QED  BY <3>1, <3>2, <3>3, <1>5 DEF IInv, RunsAccountedFor
  <2>3. QED  BY <2>1, <2>2
<1>8. CurrentRunHoldsItsClaims'
  <2> SUFFICES ASSUME NEW q \in Runs, calls'[q].phase = "applying",
                      calls'[q].name \in DOMAIN doc'.overlays,
                      doc'.overlays[calls'[q].name].run = q
               PROVE  DOMAIN calls'[q].claims \subseteq Held(doc', calls'[q].name)
    BY DEF CurrentRunHoldsItsClaims, Held
  <2>1. CASE q = r
    BY <1>5, <2>1
  <2>2. CASE q # r
    <3>1. calls'[q] = calls[q] /\ calls[q].name # n
      BY <1>3, <1>5, <2>2
    <3>2. QED  BY <3>1, <1>3 DEF IInv, CurrentRunHoldsItsClaims, OnlyEntry, Held
  <2>3. QED  BY <2>1, <2>2
<1>9. QED  BY <1>6, <1>7, <1>8 DEF IInv

LEMMA FinishStep ==
    ASSUME IInv, TypeOK', NEW r \in Runs, NEW ok \in BOOLEAN, NEW l \in Learned(calls[r].claims),
           NEW gone \in SUBSET calls[r].released, Finish(r, ok, l, gone)
    PROVE  IInv'
<1> DEFINE n == calls[r].name
<1>1. /\ n \in DOMAIN doc.overlays
      /\ doc.overlays[n].run = r
      /\ calls[r].phase = "applying"
      /\ IsDocument(doc)
      /\ calls[r].claims \in ClaimMap
  BY DEF Finish, FinishRefused, Registered, IInv, TypeOK, Call
<1>2. l \in ClaimMap /\ DOMAIN l = DOMAIN calls[r].claims
  BY <1>1, LearnedIsClaims
<1>3. /\ OnlyEntry(doc, doc', n)
      /\ \A a : a \in Held(doc', n) <=> /\ a \in Held(doc, n) \/ a \in DOMAIN l \ gone
                                        /\ ~(ok /\ a \in gone)
      /\ doc'.overlays[n].run = Nil
      /\ doc'.overlays[n].status # "applying"
  BY <1>1, <1>2, FinishIs DEF Finish
<1>4. Held(doc', n) \subseteq Held(doc, n)
  BY <1>1, <1>2, <1>3 DEF IInv, CurrentRunHoldsItsClaims, Held
<1>5. \A q \in Runs : calls'[q] = IF q = r THEN IdleCall("done") ELSE calls[q]
  BY DEF Finish, End, IInv, TypeOK
<1>6. AddressesDisjoint'
  BY <1>3, <1>4 DEF IInv, AddressesDisjoint, OnlyEntry, Held
<1>7. RunsAccountedFor'
  <2> SUFFICES ASSUME NEW m \in DOMAIN doc'.overlays
               PROVE  LET e == doc'.overlays[m]
                      IN  /\ e.status = "applying" => e.run # Nil
                          /\ e.run # Nil => calls'[e.run].phase = "applying"
                                            /\ calls'[e.run].name = m
    BY DEF RunsAccountedFor
  <2>1. CASE m = n
    BY <1>3, <2>1
  <2>2. CASE m # n
    <3>1. doc'.overlays[m] = doc.overlays[m] /\ m \in DOMAIN doc.overlays
      BY <1>3, <2>2 DEF OnlyEntry
    <3>2. doc.overlays[m].run \in Runs \cup {Nil}
      BY <1>1, <3>1 DEF IsDocument, Entry
    <3>3. doc.overlays[m].run # r
      BY <3>1, <2>2, NilAssumption DEF IInv, RunsAccountedFor
    <3>4. QED  BY <3>1, <3>2, <3>3, <1>5 DEF IInv, RunsAccountedFor
  <2>3. QED  BY <2>1, <2>2
<1>8. CurrentRunHoldsItsClaims'
  <2> SUFFICES ASSUME NEW q \in Runs, calls'[q].phase = "applying",
                      calls'[q].name \in DOMAIN doc'.overlays,
                      doc'.overlays[calls'[q].name].run = q
               PROVE  DOMAIN calls'[q].claims \subseteq Held(doc', calls'[q].name)
    BY DEF CurrentRunHoldsItsClaims, Held
  <2>1. q # r /\ calls'[q] = calls[q]
    BY <1>5 DEF IdleCall
  <2>2. calls[q].name # n
    BY <1>3, <2>1, NilAssumption
  <2>3. QED  BY <2>1, <2>2, <1>3 DEF IInv, CurrentRunHoldsItsClaims, OnlyEntry, Held
<1>9. QED  BY <1>6, <1>7, <1>8 DEF IInv

LEMMA SupersededStep ==
    ASSUME IInv, TypeOK', NEW r \in Runs, FinishSuperseded(r)
    PROVE  IInv'
<1>1. \A q \in Runs : calls'[q] = IF q = r THEN IdleCall("done") ELSE calls[q]
  BY DEF FinishSuperseded, End, IInv, TypeOK
<1>2. /\ UNCHANGED doc
      /\ calls[r].name \in DOMAIN doc.overlays => doc.overlays[calls[r].name].run # r
      /\ IsDocument(doc)
  BY DEF FinishSuperseded, FinishRefused, Registered, IInv, TypeOK
<1>3. RunsAccountedFor'
  <2> SUFFICES ASSUME NEW m \in DOMAIN doc.overlays
               PROVE  LET e == doc.overlays[m]
                      IN  /\ e.status = "applying" => e.run # Nil
                          /\ e.run # Nil => calls'[e.run].phase = "applying"
                                            /\ calls'[e.run].name = m
    BY <1>2 DEF RunsAccountedFor
  <2>1. doc.overlays[m].run \in Runs \cup {Nil}
    BY <1>2 DEF IsDocument, Entry
  <2>2. doc.overlays[m].run # r
    BY <1>2, NilAssumption DEF IInv, RunsAccountedFor
  <2>3. QED  BY <1>1, <2>1, <2>2 DEF IInv, RunsAccountedFor
<1>4. CurrentRunHoldsItsClaims'
  BY <1>1, <1>2 DEF IInv, CurrentRunHoldsItsClaims, IdleCall
<1>5. AddressesDisjoint'
  BY <1>2 DEF IInv, AddressesDisjoint
<1>6. QED  BY <1>3, <1>4, <1>5 DEF IInv

LEMMA NextIInv == IInv /\ [Next]_vars => IInv'
<1> SUFFICES ASSUME IInv, [Next]_vars  PROVE IInv'
  OBVIOUS
<1>1. TypeOK /\ TypeOK' /\ IsDocument(doc)
  BY NextType DEF IInv, TypeOK
<1>2. ASSUME NEW n \in Overlays, NEW etag \in Etags, Rebase(n, etag)  PROVE IInv'
  <2>1. n \in DOMAIN doc.overlays
    BY <1>2 DEF Rebase, SetStatusRefused, Registered
  <2>2. << >> \in ClaimMap /\ DOMAIN << >> \subseteq Held(doc, n)
    BY EmptyIsClaims
  <2>3. QED  BY <1>1, <1>2, <2>1, <2>2, SetStatusStep DEF Rebase
<1>3. ASSUME NEW n \in Overlays, NEW l \in Learned(ClaimsOf(n)), Merge(n, l)  PROVE IInv'
  <2>1. n \in DOMAIN doc.overlays
    BY <1>3 DEF Merge, SetStatusRefused, Registered
  <2>2. l \in ClaimMap /\ DOMAIN l = DOMAIN ClaimsOf(n)
    BY <1>1, ClaimsOfIsClaims, LearnedIsClaims
  <2>3. DOMAIN l \subseteq Held(doc, n)
    BY <2>1, <2>2 DEF ClaimsOf, Registered, Held
  <2>4. QED  BY <1>1, <1>3, <2>1, <2>2, <2>3, SetStatusStep DEF Merge
<1>4. ASSUME NEW n \in Overlays, Undo(n)  PROVE IInv'
  <2>1. n \in DOMAIN doc.overlays
    BY <1>4 DEF Undo, SetStatusRefused, Registered
  <2>2. << >> \in ClaimMap /\ DOMAIN << >> \subseteq Held(doc, n)
    BY EmptyIsClaims
  <2>3. QED  BY <1>1, <1>4, <2>1, <2>2, SetStatusStep DEF Undo
<1>5. ASSUME NEW r \in Runs, Timeout(r)  PROVE IInv'
  BY <1>1, <1>5 DEF Timeout, IInv, AddressesDisjoint, RunsAccountedFor, CurrentRunHoldsItsClaims
<1>6. CASE UNCHANGED vars
  BY <1>1, <1>6 DEF vars, IInv, AddressesDisjoint, RunsAccountedFor, CurrentRunHoldsItsClaims
<1>7. QED
  BY <1>1, <1>2, <1>3, <1>4, <1>5, <1>6, RegisterStep, ActivateStep, ReleaseStep, AcquireStep,
     FinishStep, SupersededStep DEF Next

LEMMA Invariance == Spec => []IInv
<1>1. QED  BY InitIInv, NextIInv, PTL DEF Spec

------------------------------------------------------------------------------

\* The registry's reason to be: whatever commands run, in whatever order,
\* with whatever timeouts and take-overs, no address is claimed by two live
\* overlays (conflicts_for under the compare-and-swap of acquire_claims).
THEOREM ClaimsNeverOverlap == Spec => []AddressesDisjoint
<1>1. IInv => AddressesDisjoint
  BY DEF IInv
<1>2. QED  BY <1>1, Invariance, PTL

\* The run an entry names is an apply still in progress on that entry, and
\* its locals claim nothing the entry does not hold (finish_apply's run_id
\* check is what keeps this true across take-overs).
THEOREM RunsAreAccountedFor == Spec => [](RunsAccountedFor /\ CurrentRunHoldsItsClaims)
<1>1. IInv => RunsAccountedFor /\ CurrentRunHoldsItsClaims
  BY DEF IInv
<1>2. QED  BY <1>1, Invariance, PTL

\* What the current run of an entry will write back is claimed by that entry
\* already, so finish_apply needs no conflict check.
THEOREM CurrentRunsHoldTheirClaims == Spec => []CurrentRunHoldsItsClaims
<1>1. IInv => CurrentRunHoldsItsClaims
  BY DEF IInv
<1>2. QED  BY <1>1, Invariance, PTL

LEMMA SupersededRunsStaySilent ==
    ASSUME IInv, [Next]_vars, NEW r \in Runs, Superseded(r), calls'[r].phase = "done"
    PROVE  doc' = doc
<1>1. calls \in [Runs -> Call] /\ calls[r].phase = "applying"
  BY DEF IInv, TypeOK, Superseded
<1>2. CASE UNCHANGED calls
  BY <1>1, <1>2
<1>3. ASSUME NEW q \in Runs, NEW n \in Overlays, NEW etag, NEW w, NEW released,
             Acquire(q, n, w, released, etag)
      PROVE  FALSE
  BY <1>1, <1>3 DEF Acquire
<1>4. ASSUME NEW q \in Runs, NEW ok, NEW l, NEW gone, Finish(q, ok, l, gone)
      PROVE  FALSE
  <2>1. q = r
    BY <1>1, <1>4 DEF Finish, End
  <2>2. QED  BY <1>4, <2>1 DEF Finish, FinishRefused, Registered, Superseded
<1>5. ASSUME NEW q \in Runs, FinishSuperseded(q)  PROVE doc' = doc
  BY <1>5 DEF FinishSuperseded
<1>6. QED
  BY <1>2, <1>3, <1>4, <1>5
     DEF Next, Register, Activate, Rebase, Merge, Undo, Release, Timeout, vars

\* A superseded apply never changes the document (finish_apply's run_id check).
THEOREM SupersededRunsAreSilent == Spec => SupersededRunIsSilent
<1>1. IInv /\ [Next]_vars =>
         [\A r \in Runs : Superseded(r) /\ calls'[r].phase = "done" => doc' = doc]_vars
  BY SupersededRunsStaySilent
<1>2. QED  BY <1>1, Invariance, PTL DEF Spec, SupersededRunIsSilent

LEMMA OnlyReleasedClaimsAreLost ==
    ASSUME IInv, [Next]_vars, NEW n \in Overlays, Survives(n)
    PROVE  LossIsRelease(n)
<1>1. IsDocument(doc) /\ calls \in [Runs -> Call] /\ TypeOK
  BY DEF IInv, TypeOK
<1>2. CASE Held(doc, n) \subseteq Held(doc', n)
  BY <1>2 DEF LossIsRelease, Held
<1>3. CASE UNCHANGED doc
  BY <1>2, <1>3 DEF Held
<1>4. ASSUME NEW m \in Overlays, Register(m)  PROVE Held(doc, n) \subseteq Held(doc', n)
  <2>1. CASE m \in DOMAIN doc.overlays
    BY <1>4, <2>1 DEF Register, RegisterCreating, Registered
  <2>2. CASE m \notin DOMAIN doc.overlays
    BY <1>4, <2>2, RegisterIs DEF Register, Survives, Held
  <2>3. QED  BY <2>1, <2>2
<1>5. ASSUME NEW m \in Overlays, NEW etag \in Etags, Activate(m, etag)
      PROVE  Held(doc, n) \subseteq Held(doc', n)
  BY <1>1, <1>5, FlipIs DEF Activate, FlipRefused, Registered, OnlyEntry, Survives, Held
<1>6. ASSUME NEW m \in DOMAIN doc.overlays, NEW s, NEW etag, NEW c \in ClaimMap,
             doc' = SetStatus(doc, m, s, etag, c)
      PROVE  Held(doc, n) \subseteq Held(doc', n)
  BY <1>1, <1>6, SetStatusIs DEF OnlyEntry, Survives, Held
<1>7. ASSUME NEW m \in Overlays, NEW etag \in Etags, Rebase(m, etag)
      PROVE  Held(doc, n) \subseteq Held(doc', n)
  BY <1>6, <1>7, EmptyIsClaims DEF Rebase, SetStatusRefused, Registered
<1>8. ASSUME NEW m \in Overlays, NEW l \in Learned(ClaimsOf(m)), Merge(m, l)
      PROVE  Held(doc, n) \subseteq Held(doc', n)
  BY <1>1, <1>6, <1>8, ClaimsOfIsClaims, LearnedIsClaims DEF Merge, SetStatusRefused, Registered
<1>9. ASSUME NEW m \in Overlays, Undo(m)  PROVE Held(doc, n) \subseteq Held(doc', n)
  BY <1>6, <1>9, EmptyIsClaims DEF Undo, SetStatusRefused, Registered
<1>10. ASSUME NEW m \in Overlays, Release(m)  PROVE Held(doc, n) \subseteq Held(doc', n)
  BY <1>10, ReleaseIs DEF Release, Survives, Held
<1>11. ASSUME NEW r \in Runs, NEW m \in Overlays, NEW etag \in Etags,
              NEW w \in ClaimMap, NEW released \in SUBSET (Addresses \ DOMAIN w),
              Acquire(r, m, w, released, etag)
       PROVE  Held(doc, n) \subseteq Held(doc', n)
  <2>1. m \in DOMAIN doc.overlays
    BY <1>11 DEF Acquire, AcquireRefused, Registered
  <2>2. QED  BY <1>1, <1>11, <2>1, AcquireIs DEF Acquire, OnlyEntry, Survives, Held
<1>12. ASSUME NEW r \in Runs, NEW ok \in BOOLEAN, NEW l \in Learned(calls[r].claims),
              NEW gone \in SUBSET calls[r].released, Finish(r, ok, l, gone)
       PROVE  LossIsRelease(n)
  <2> DEFINE m == calls[r].name
  <2>1. /\ m \in DOMAIN doc.overlays
        /\ doc.overlays[m].run = r
        /\ l \in ClaimMap
        /\ calls'[r].phase = "done"
    BY <1>1, <1>12, LearnedIsClaims DEF Finish, FinishRefused, Registered, End, IdleCall, Call
  <2>2. /\ OnlyEntry(doc, doc', m)
        /\ \A a : a \in Held(doc', m) <=> /\ a \in Held(doc, m) \/ a \in DOMAIN l \ gone
                                          /\ ~(ok /\ a \in gone)
        /\ ok => doc'.overlays[m].status = "active"
    BY <1>1, <1>12, <2>1, FinishIs DEF Finish
  <2>3. CASE n = m
    <3> SUFFICES ASSUME NEW a \in Held(doc, n), a \notin Held(doc', n)
                 PROVE  /\ doc.overlays[n].run = r
                        /\ a \in calls[r].released
                        /\ doc'.overlays[n].status = "active"
                        /\ calls'[r].phase = "done"
      BY DEF LossIsRelease, Held
    <3>1. ok /\ a \in gone
      BY <2>2, <2>3
    <3>2. QED  BY <2>1, <2>2, <2>3, <3>1
  <2>4. CASE n # m
    BY <1>2, <2>2, <2>4 DEF OnlyEntry, Survives, Held
  <2>5. QED  BY <2>3, <2>4
<1>13. QED
  BY <1>2, <1>3, <1>4, <1>5, <1>7, <1>8, <1>9, <1>10, <1>11, <1>12
     DEF Next, FinishSuperseded, Timeout, vars

\* Claims live until finalize or abandon (DESIGN 3.4): a surviving entry
\* loses a claim only when its own current run succeeds in releasing it.
THEOREM ClaimsLive == Spec => ClaimsLiveUntilReleased
<1>1. IInv /\ [Next]_vars => [\A n \in Overlays : Survives(n) => LossIsRelease(n)]_vars
  BY OnlyReleasedClaimsAreLost
<1>2. QED  BY <1>1, Invariance, PTL DEF Spec, ClaimsLiveUntilReleased

------------------------------------------------------------------------------
(* What claims learn. *)

\* The claims of an entry change from old to new.
NothingForgotten(old, new) == \A a \in DOMAIN old \cap DOMAIN new : ~Forgets(old[a], new[a])

LEMMA MergeForgetsNothing ==
    ASSUME NEW c \in ClaimMap, NEW w \in ClaimMap
    PROVE  NothingForgotten(c, MergeClaims(c, w))
<1> SUFFICES ASSUME NEW a \in DOMAIN c  PROVE ~Forgets(c[a], MergeClaims(c, w)[a])
  BY MergeClaimsIs DEF NothingForgotten
<1>1. CASE a \notin DOMAIN w
  BY <1>1 DEF MergeClaims, Forgets
<1>2. CASE a \in DOMAIN w
  <2>1. MergeClaims(c, w)[a] = MergeClaim(c[a], w[a])
    BY <1>2 DEF MergeClaims
  <2>2. QED  BY <2>1 DEF MergeClaim, KnownOr, Forgets
<1>3. QED  BY <1>1, <1>2

LEMMA FinishForgetsNothing ==
    ASSUME NEW c \in ClaimMap, NEW l \in ClaimMap, NEW gone, NEW dropped
    PROVE  NothingForgotten(c, FinishClaims(c, l, gone, dropped))
<1> DEFINE kept == Restrict(l, DOMAIN l \ gone)
           merged == MergeClaims(c, kept)
           left == Restrict(merged, DOMAIN merged \ dropped)
<1>1. kept \in ClaimMap
  BY RestrictIs
<1>2. NothingForgotten(c, merged)
  BY <1>1, MergeForgetsNothing
<1>3. left = FinishClaims(c, l, gone, dropped)
  BY DEF FinishClaims
<1> HIDE DEF merged
<1>4. DOMAIN left \subseteq DOMAIN merged /\ \A a \in DOMAIN left : left[a] = merged[a]
  BY DEF Restrict
<1> HIDE DEF left
<1>5. QED  BY <1>2, <1>3, <1>4 DEF NothingForgotten

LEMMA NextForgetsNothing ==
    ASSUME IInv, [Next]_vars, NEW n \in Overlays, Survives(n)
    PROVE  NothingForgotten(doc.overlays[n].claims, doc'.overlays[n].claims)
<1>1. IsDocument(doc) /\ calls \in [Runs -> Call] /\ TypeOK
  BY DEF IInv, TypeOK
<1>2. doc.overlays[n].claims \in ClaimMap
  BY <1>1 DEF Survives, IsDocument, Entry
<1>3. CASE doc'.overlays[n].claims = doc.overlays[n].claims
  BY <1>3 DEF NothingForgotten, Forgets
<1>4. ASSUME NEW c \in ClaimMap, doc'.overlays[n].claims = MergeClaims(doc.overlays[n].claims, c)
      PROVE  NothingForgotten(doc.overlays[n].claims, doc'.overlays[n].claims)
  BY <1>2, <1>4, MergeForgetsNothing
<1>5. ASSUME NEW m \in Overlays, Register(m)
      PROVE  doc'.overlays[n].claims = doc.overlays[n].claims
  BY <1>5, RegisterIs DEF Register, RegisterCreating, Registered, Survives
<1>6. ASSUME NEW m \in Overlays, NEW etag \in Etags, Activate(m, etag)
      PROVE  doc'.overlays[n].claims = doc.overlays[n].claims
  BY <1>1, <1>6, FlipIs DEF Activate, FlipRefused, Registered, OnlyEntry, Survives
<1>7. ASSUME NEW m \in DOMAIN doc.overlays, NEW s, NEW etag, NEW c \in ClaimMap,
             doc' = SetStatus(doc, m, s, etag, c)
      PROVE  NothingForgotten(doc.overlays[n].claims, doc'.overlays[n].claims)
  BY <1>1, <1>3, <1>4, <1>7, SetStatusIs DEF OnlyEntry, Survives
<1>8. ASSUME NEW m \in Overlays, NEW etag \in Etags, Rebase(m, etag)
      PROVE  NothingForgotten(doc.overlays[n].claims, doc'.overlays[n].claims)
  BY <1>7, <1>8, EmptyIsClaims DEF Rebase, SetStatusRefused, Registered
<1>9. ASSUME NEW m \in Overlays, NEW l \in Learned(ClaimsOf(m)), Merge(m, l)
      PROVE  NothingForgotten(doc.overlays[n].claims, doc'.overlays[n].claims)
  BY <1>1, <1>7, <1>9, ClaimsOfIsClaims, LearnedIsClaims DEF Merge, SetStatusRefused, Registered
<1>10. ASSUME NEW m \in Overlays, Undo(m)
       PROVE  NothingForgotten(doc.overlays[n].claims, doc'.overlays[n].claims)
  BY <1>7, <1>10, EmptyIsClaims DEF Undo, SetStatusRefused, Registered
<1>11. ASSUME NEW m \in Overlays, Release(m)
       PROVE  doc'.overlays[n].claims = doc.overlays[n].claims
  BY <1>11, ReleaseIs DEF Release, Survives
<1>12. ASSUME NEW r \in Runs, NEW m \in Overlays, NEW etag \in Etags,
              NEW w \in ClaimMap, NEW released \in SUBSET (Addresses \ DOMAIN w),
              Acquire(r, m, w, released, etag)
       PROVE  NothingForgotten(doc.overlays[n].claims, doc'.overlays[n].claims)
  <2>1. m \in DOMAIN doc.overlays
    BY <1>12 DEF Acquire, AcquireRefused, Registered
  <2>2. QED  BY <1>1, <1>3, <1>4, <1>12, <2>1, AcquireIs DEF Acquire, OnlyEntry, Survives
<1>13. ASSUME NEW r \in Runs, NEW ok \in BOOLEAN, NEW l \in Learned(calls[r].claims),
              NEW gone \in SUBSET calls[r].released, Finish(r, ok, l, gone)
       PROVE  NothingForgotten(doc.overlays[n].claims, doc'.overlays[n].claims)
  <2> DEFINE m == calls[r].name
  <2>1. m \in DOMAIN doc.overlays /\ l \in ClaimMap
    BY <1>1, <1>13, LearnedIsClaims DEF Finish, FinishRefused, Registered, Call
  <2>2. doc' = FinishApply(doc, m, ok, l, gone)
    BY <1>13 DEF Finish
  <2>3. PICK dropped : doc'.overlays[m].claims =
                          FinishClaims(doc.overlays[m].claims, l, gone, dropped)
    BY <1>1, <2>1, <2>2, FinishWrites
  <2>4. OnlyEntry(doc, doc', m)
    BY <1>1, <2>1, <2>2, FinishIs
  <2>5. CASE n = m
    BY <1>2, <2>1, <2>3, <2>5, FinishForgetsNothing
  <2>6. CASE n # m
    BY <1>3, <2>4, <2>6 DEF OnlyEntry, Survives
  <2>7. QED  BY <2>5, <2>6
<1>14. CASE UNCHANGED doc
  BY <1>3, <1>14
<1>15. QED
  BY <1>3, <1>5, <1>6, <1>8, <1>9, <1>10, <1>11, <1>12, <1>13, <1>14
     DEF Next, FinishSuperseded, Timeout, vars

\* Whatever a later apply or merge writes over a claim, the id and the
\* identity learned from the state stay known (_merge_claim).
THEOREM NothingLearnedIsForgotten == Spec => LearnedIsKept
<1> DEFINE Kept == \A n \in Overlays : Survives(n) =>
              \A a \in DOMAIN doc.overlays[n].claims \cap DOMAIN doc'.overlays[n].claims :
                 ~Forgets(doc.overlays[n].claims[a], doc'.overlays[n].claims[a])
<1>1. IInv /\ [Next]_vars => [Kept]_vars
  BY NextForgetsNothing DEF NothingForgotten
<1>2. QED  BY <1>1, Invariance, PTL DEF Spec, LearnedIsKept

------------------------------------------------------------------------------
(* Identities. *)

\* The identities that claims create under have a claim of that kind.
LEMMA CreateIdentitiesAre ==
    ASSUME NEW c, NEW a \in DOMAIN c, c[a].kind = "create", c[a].identity # Nil
    PROVE  c[a].identity \in CreateIdentities(c)
BY DEF CreateIdentities

\* A claim after a merge has its create identity from the plan or had it before.
LEMMA MergedIdentity ==
    ASSUME NEW c \in ClaimMap, NEW w \in ClaimMap, NEW a \in DOMAIN MergeClaims(c, w),
           MergeClaims(c, w)[a].kind = "create", MergeClaims(c, w)[a].identity # Nil
    PROVE  \/ MergeClaims(c, w)[a].identity \in CreateIdentities(w)
           \/ a \in DOMAIN c /\ c[a].identity = MergeClaims(c, w)[a].identity
<1>1. a \in DOMAIN c \cup DOMAIN w
  BY MergeClaimsIs
<1>2. CASE a \notin DOMAIN w
  BY <1>1, <1>2 DEF MergeClaims
<1>3. CASE a \in DOMAIN w /\ a \notin DOMAIN c
  <2>1. MergeClaims(c, w)[a] = w[a]
    BY <1>3 DEF MergeClaims
  <2>2. QED  BY <1>3, <2>1, CreateIdentitiesAre
<1>4. CASE a \in DOMAIN w /\ a \in DOMAIN c
  <2>1. MergeClaims(c, w)[a] = MergeClaim(c[a], w[a])
    BY <1>4 DEF MergeClaims
  <2>2. w[a].kind = "create" /\ MergeClaims(c, w)[a].identity = KnownOr(w[a].identity, c[a].identity)
    BY <2>1 DEF MergeClaim
  <2>3. CASE w[a].identity = Nil
    BY <1>4, <2>2, <2>3 DEF KnownOr
  <2>4. CASE w[a].identity # Nil
    BY <1>4, <2>2, <2>4, CreateIdentitiesAre DEF KnownOr
  <2>5. QED  BY <2>3, <2>4
<1>5. QED  BY <1>1, <1>2, <1>3, <1>4

\* Only an acquisition makes a run the current one of an entry.
LEMMA OnlyAcquireStartsRuns ==
    ASSUME IInv, [Next]_vars, NEW r \in Runs, NEW n \in Overlays, Survives(n),
           doc'.overlays[n].run = r, doc.overlays[n].run # r
    PROVE  \E etag \in Etags, w \in ClaimMap :
              \E released \in SUBSET (Addresses \ DOMAIN w) : Acquire(r, n, w, released, etag)
<1>1. IsDocument(doc) /\ calls \in [Runs -> Call] /\ TypeOK
  BY DEF IInv, TypeOK
<1>2. doc'.overlays[n].run # doc.overlays[n].run
  OBVIOUS
<1>3. ASSUME NEW m \in Overlays, Register(m)  PROVE FALSE
  BY <1>2, <1>3, RegisterIs DEF Register, RegisterCreating, Registered, Survives
<1>4. ASSUME NEW m \in Overlays, NEW etag \in Etags, Activate(m, etag)  PROVE FALSE
  BY <1>1, <1>2, <1>4, FlipIs DEF Activate, FlipRefused, Registered, OnlyEntry, Survives
<1>5. ASSUME NEW m \in DOMAIN doc.overlays, NEW s, NEW etag, NEW c \in ClaimMap,
             doc' = SetStatus(doc, m, s, etag, c)
      PROVE  FALSE
  BY <1>1, <1>2, <1>5, SetStatusIs DEF OnlyEntry, Survives
<1>6. ASSUME NEW m \in Overlays, NEW etag \in Etags, Rebase(m, etag)  PROVE FALSE
  BY <1>5, <1>6, EmptyIsClaims DEF Rebase, SetStatusRefused, Registered
<1>7. ASSUME NEW m \in Overlays, NEW l \in Learned(ClaimsOf(m)), Merge(m, l)  PROVE FALSE
  BY <1>1, <1>5, <1>7, ClaimsOfIsClaims, LearnedIsClaims DEF Merge, SetStatusRefused, Registered
<1>8. ASSUME NEW m \in Overlays, Undo(m)  PROVE FALSE
  BY <1>5, <1>8, EmptyIsClaims DEF Undo, SetStatusRefused, Registered
<1>9. ASSUME NEW m \in Overlays, Release(m)  PROVE FALSE
  BY <1>2, <1>9, ReleaseIs DEF Release, Survives
<1>10. ASSUME NEW q \in Runs, NEW m \in Overlays, NEW etag \in Etags,
              NEW w \in ClaimMap, NEW released \in SUBSET (Addresses \ DOMAIN w),
              Acquire(q, m, w, released, etag)
       PROVE  q = r /\ m = n
  <2>1. m \in DOMAIN doc.overlays
    BY <1>10 DEF Acquire, AcquireRefused, Registered
  <2>2. OnlyEntry(doc, doc', m) /\ doc'.overlays[m].run = q
    BY <1>1, <1>10, <2>1, AcquireIs DEF Acquire
  <2>3. QED  BY <1>2, <2>2 DEF OnlyEntry, Survives
<1>11. ASSUME NEW q \in Runs, NEW ok \in BOOLEAN, NEW l \in Learned(calls[q].claims),
              NEW gone \in SUBSET calls[q].released, Finish(q, ok, l, gone)
       PROVE  FALSE
  <2> DEFINE m == calls[q].name
  <2>1. m \in DOMAIN doc.overlays /\ l \in ClaimMap
    BY <1>1, <1>11, LearnedIsClaims DEF Finish, FinishRefused, Registered, Call
  <2>2. doc' = FinishApply(doc, m, ok, l, gone)
    BY <1>11 DEF Finish
  <2>3. OnlyEntry(doc, doc', m) /\ doc'.overlays[m].run = Nil
    BY <1>1, <2>1, <2>2, FinishIs
  <2>4. QED  BY <1>2, <2>3, NilAssumption DEF OnlyEntry, Survives
<1>12. CASE UNCHANGED doc
  BY <1>2, <1>12
<1>13. QED
  BY <1>3, <1>4, <1>6, <1>7, <1>8, <1>9, <1>10, <1>11, <1>12
     DEF Next, FinishSuperseded, Timeout, vars

LEMMA AcquireSeesIdentities ==
    ASSUME IInv, NEW r \in Runs, NEW n \in Overlays, NEW etag \in Etags, NEW w \in ClaimMap,
           NEW released \in SUBSET (Addresses \ DOMAIN w), Acquire(r, n, w, released, etag),
           NEW m \in DOMAIN doc'.overlays \ {n}, NEW a \in DOMAIN doc'.overlays[n].claims,
           doc'.overlays[n].claims[a].kind = "create",
           doc'.overlays[n].claims[a].identity # Nil,
           doc'.overlays[n].claims[a].identity \in CreateIdentities(doc'.overlays[m].claims)
    PROVE  /\ a \in DOMAIN doc.overlays[n].claims
           /\ doc.overlays[n].claims[a].identity = doc'.overlays[n].claims[a].identity
<1> DEFINE c == doc.overlays[n].claims
<1>1. n \in DOMAIN doc.overlays /\ ~ConflictsFor(doc, n, w) /\ IsDocument(doc)
  BY DEF Acquire, AcquireRefused, Registered, IInv, TypeOK
<1>2. OnlyEntry(doc, doc', n) /\ doc'.overlays[n].claims = MergeClaims(c, w)
  BY <1>1, AcquireIs DEF Acquire
<1>3. m \in DOMAIN doc.overlays /\ m # n /\ doc'.overlays[m] = doc.overlays[m]
  BY <1>2 DEF OnlyEntry
<1>4. doc.overlays[m].status \in LiveStatuses /\ c \in ClaimMap
  BY <1>1, <1>3 DEF IsDocument, Entry
<1>5. CreateIdentities(doc.overlays[m].claims) \cap CreateIdentities(w) = {}
  BY <1>1, <1>3, <1>4 DEF ConflictsFor, IdentityConflict
<1>6. doc'.overlays[n].claims[a].identity \notin CreateIdentities(w)
  BY <1>3, <1>5
<1> HIDE DEF c
<1>7. a \in DOMAIN c /\ c[a].identity = doc'.overlays[n].claims[a].identity
  BY <1>2, <1>4, <1>6, MergedIdentity
<1>8. QED  BY <1>7 DEF c

\* The identity check of acquire_claims sees the document it writes to: an
\* apply starts with no create identity of another live overlay, but those it
\* had learned before.
THEOREM IdentitiesAreChecked == Spec => AcquiredIdentitiesDisjoint
<1> DEFINE Disjoint == \A r \in Runs, n \in Overlays :
              (calls[r].phase # "done" /\ n \in DOMAIN doc'.overlays /\ Survives(n)
               /\ doc'.overlays[n].run = r /\ doc.overlays[n].run # r)
              => \A m \in DOMAIN doc'.overlays \ {n} :
                  \A a \in DOMAIN doc'.overlays[n].claims :
                     LET c == doc'.overlays[n].claims[a]
                     IN  (c.kind = "create" /\ c.identity # Nil
                          /\ c.identity \in CreateIdentities(doc'.overlays[m].claims))
                         => /\ a \in DOMAIN doc.overlays[n].claims
                            /\ doc.overlays[n].claims[a].identity = c.identity
<1>1. IInv /\ [Next]_vars => [Disjoint]_vars
  <2> SUFFICES ASSUME IInv, [Next]_vars  PROVE Disjoint
    OBVIOUS
  <2> SUFFICES ASSUME NEW r \in Runs, NEW n \in Overlays, Survives(n),
                      doc'.overlays[n].run = r, doc.overlays[n].run # r,
                      NEW m \in DOMAIN doc'.overlays \ {n},
                      NEW a \in DOMAIN doc'.overlays[n].claims,
                      doc'.overlays[n].claims[a].kind = "create",
                      doc'.overlays[n].claims[a].identity # Nil,
                      doc'.overlays[n].claims[a].identity
                         \in CreateIdentities(doc'.overlays[m].claims)
               PROVE  /\ a \in DOMAIN doc.overlays[n].claims
                      /\ doc.overlays[n].claims[a].identity = doc'.overlays[n].claims[a].identity
    OBVIOUS
  <2>1. PICK etag \in Etags, w \in ClaimMap :
           \E released \in SUBSET (Addresses \ DOMAIN w) : Acquire(r, n, w, released, etag)
    BY OnlyAcquireStartsRuns
  <2>2. QED  BY <2>1, AcquireSeesIdentities
<1>2. QED  BY <1>1, Invariance, PTL DEF Spec, AcquiredIdentitiesDisjoint

==============================================================================
