-------------------------- MODULE RegistryCasProofs ----------------------------
(***************************************************************************)
(* The compare-and-swap registry implements the atomic one (ClaimRegistry) *)
(* for any number of clients, attempts and lost answers, so that what      *)
(* ClaimRegistryProofs proves of atomic updates holds of Registry.update.  *)
(***************************************************************************)
EXTENDS RegistryCas, TLAPS

\* The theorems about the atomic registry, read over the same variables.
AP == INSTANCE ClaimRegistryProofs

(* The instances have copies of the operators they are built from. *)

LEMMA SameNext == Atomic!Next => AP!Next
BY DEF Atomic!Next, Atomic!Register, Atomic!Activate, Atomic!Acquire, Atomic!Finish,
       Atomic!FinishSuperseded, Atomic!End, Atomic!Timeout, Atomic!Rebase,
       Atomic!Merge, Atomic!Undo, Atomic!Release, Atomic!ClaimsOf, Atomic!Learned,
       Atomic!LearnedClaim, Atomic!IdleCall, Atomic!ClaimMap, Atomic!Claim,
       Atomic!Registered, Atomic!WithEntry, Atomic!KnownOr, Atomic!MergeClaim,
       Atomic!MergeClaims, Atomic!CreateIdentities, Atomic!AddressConflict,
       Atomic!IdentityConflict, Atomic!ConflictsFor, Atomic!StaleApplying,
       Atomic!RegisterCreating, Atomic!FlipRefused, Atomic!Flip, Atomic!CanApply,
       Atomic!AcquireRefused, Atomic!AcquireClaims, Atomic!FinishRefused,
       Atomic!FinishClaims, Atomic!FinishApply, Atomic!SetStatusRefused,
       Atomic!SetStatus, Atomic!ReleaseRefused, Atomic!ReleaseOverlay, Atomic!Restrict,
       Atomic!LiveStatuses, AP!Next, AP!Register, AP!Activate, AP!Acquire, AP!Finish,
       AP!FinishSuperseded, AP!End, AP!Timeout, AP!Rebase, AP!Merge, AP!Undo,
       AP!Release, AP!ClaimsOf, AP!Learned, AP!LearnedClaim, AP!IdleCall, AP!ClaimMap,
       AP!Claim, AP!Registered, AP!WithEntry, AP!KnownOr, AP!MergeClaim,
       AP!MergeClaims, AP!CreateIdentities, AP!AddressConflict, AP!IdentityConflict,
       AP!ConflictsFor, AP!StaleApplying, AP!RegisterCreating, AP!FlipRefused, AP!Flip,
       AP!CanApply, AP!AcquireRefused, AP!AcquireClaims, AP!FinishRefused,
       AP!FinishClaims, AP!FinishApply, AP!SetStatusRefused, AP!SetStatus,
       AP!ReleaseRefused, AP!ReleaseOverlay, AP!Restrict, AP!LiveStatuses

LEMMA SameInit == Atomic!Init => AP!Init
BY DEF Atomic!Init, AP!Init, Atomic!EmptyDoc, AP!EmptyDoc, Atomic!IdleCall, AP!IdleCall

LEMMA SameType ==
    /\ AP!TypeOK <=> Atomic!TypeOK
    /\ \A d : AP!IsDocument(d) <=> IsDocument(d)
BY DEF AP!TypeOK, Atomic!TypeOK, AP!IsDocument, Atomic!IsDocument, IsDocument,
       Atomic!Entry, Atomic!ClaimMap, Atomic!Claim, Atomic!LiveStatuses, AP!Entry,
       AP!ClaimMap, AP!Claim, AP!LiveStatuses, Entry, ClaimMap, Claim, LiveStatuses,
       AP!Call, Atomic!Call

LEMMA SameMutations ==
    ASSUME NEW d, NEW n, NEW r, NEW etag, NEW from, NEW w, NEW e, NEW ok, NEW gone
    PROVE  /\ Atomic!RegisterCreating(d, n) = RegisterCreating(d, n)
           /\ Atomic!FlipRefused(d, n) <=> FlipRefused(d, n)
           /\ Atomic!Flip(d, n, etag) = Flip(d, n, etag)
           /\ Atomic!AcquireRefused(d, n, w, r, etag, e) <=> AcquireRefused(d, n, w, r, etag, e)
           /\ Atomic!AcquireClaims(d, n, w, r) = AcquireClaims(d, n, w, r)
           /\ Atomic!FinishRefused(d, n, r) <=> FinishRefused(d, n, r)
           /\ Atomic!FinishApply(d, n, ok, w, gone) = FinishApply(d, n, ok, w, gone)
           /\ Atomic!SetStatusRefused(d, n, from, e) <=> SetStatusRefused(d, n, from, e)
           /\ Atomic!SetStatus(d, n, from, etag, w) = SetStatus(d, n, from, etag, w)
           /\ Atomic!ReleaseRefused(d, n) <=> ReleaseRefused(d, n)
           /\ Atomic!ReleaseOverlay(d, n) = ReleaseOverlay(d, n)
BY DEF Atomic!ClaimMap, Atomic!Claim, Atomic!Registered, Atomic!WithEntry,
       Atomic!KnownOr, Atomic!MergeClaim, Atomic!MergeClaims, Atomic!CreateIdentities,
       Atomic!AddressConflict, Atomic!IdentityConflict, Atomic!ConflictsFor,
       Atomic!StaleApplying, Atomic!RegisterCreating, Atomic!FlipRefused, Atomic!Flip,
       Atomic!CanApply, Atomic!AcquireRefused, Atomic!AcquireClaims,
       Atomic!FinishRefused, Atomic!FinishClaims, Atomic!FinishApply,
       Atomic!SetStatusRefused, Atomic!SetStatus, Atomic!ReleaseRefused,
       Atomic!ReleaseOverlay, Atomic!Restrict, Atomic!LiveStatuses, ClaimMap, Claim,
       Registered, WithEntry, KnownOr, MergeClaim, MergeClaims, CreateIdentities,
       AddressConflict, IdentityConflict, ConflictsFor, StaleApplying,
       RegisterCreating, FlipRefused, Flip, CanApply, AcquireRefused, AcquireClaims,
       FinishRefused, FinishClaims, FinishApply, SetStatusRefused, SetStatus,
       ReleaseRefused, ReleaseOverlay, Restrict, LiveStatuses

LEMMA SameClaims ==
    /\ Atomic!ClaimMap = ClaimMap
    /\ \A w, S : Atomic!Restrict(w, S) = Restrict(w, S)
BY DEF Atomic!ClaimMap, ClaimMap, Atomic!Claim, Claim, Atomic!Restrict, Restrict

------------------------------------------------------------------------------
(* The invariant. *)

MutationKinds == {"register", "flip", "acquire", "finish", "rebase", "merge", "undo", "release"}

Working == {"load", "put", "settle"}

\* What the commands and the applies close over when they call update.
Asks(c, m) ==
    /\ m.name \in Overlays /\ m.kind \in MutationKinds
    /\ m.kind \in {"flip", "rebase", "acquire"} => m.etag \in Etags
    /\ m.kind = "merge" => m.expected # Nil /\ m.claims \in Atomic!Learned(m.expected.claims)
    /\ m.kind = "acquire" =>
          /\ c \in Runs /\ calls[c].phase # "done" /\ calls[c].name \in {Nil, m.name}
          /\ m.claims \in ClaimMap /\ m.gone \in SUBSET (Addresses \ DOMAIN m.claims)
    /\ m.kind = "finish" =>
          /\ c \in Runs /\ m.ok \in BOOLEAN
          /\ calls[c].phase = "applying" =>
                /\ calls[c].name = m.name /\ m.claims \in Atomic!Learned(calls[c].claims)
                /\ m.gone \in SUBSET calls[c].released

\* Runs that no longer keep an overlay to themselves; a process that ends
\* leaves expired, so that expired alone may shrink after it was looked at.
Over == expired \cup {r \in Runs : calls[r].phase = "done"}

\* The callback did not refuse the document that was read.
Allowed(m, c, d) ==
    IF m.kind = "acquire" THEN ~AcquireRefused(d, m.name, m.claims, c, m.etag, Over)
    ELSE ~Refuses(m, c, d)

ClientFits(c) ==
    LET me == client[c]
    IN  /\ me = [pc |-> me.pc, mutation |-> me.mutation, seen |-> me.seen,
                 attempt |-> me.attempt, landed |-> me.landed]
        /\ me.pc \in Pc /\ me.attempt \in 0..MaxAttempts /\ me.landed \in BOOLEAN
        /\ me.pc \in {"load", "put"} => me.attempt < MaxAttempts
        /\ me.pc \in Working => Asks(c, me.mutation)
        /\ me.pc = "put" => IsDocument(me.seen) /\ Allowed(me.mutation, c, me.seen)
        /\ me.pc = "acquired" =>
              c \in Runs /\ calls[c].phase = "applying" /\ calls[c].name \in Overlays

CasInv ==
    /\ AP!IInv
    /\ \A r \in Runs : calls[r].phase = "new" => calls[r].name = Nil
    /\ DOMAIN client = Clients /\ lostAcks \in 0..MaxLostAcks
    /\ \A c \in Clients : ClientFits(c)

LEMMA InvFacts ==
    ASSUME CasInv
    PROVE  /\ Atomic!TypeOK /\ IsDocument(doc) /\ AP!RunsAccountedFor
           /\ DOMAIN calls = Runs
           /\ \A r \in Runs : calls[r].phase \in {"new", "applying", "done"}
<1>1. AP!TypeOK /\ AP!RunsAccountedFor
  BY DEF CasInv, AP!IInv
<1>2. AP!IsDocument(doc) /\ calls \in [Runs -> AP!Call]
  BY <1>1 DEF AP!TypeOK
<1>3. DOMAIN calls = Runs /\ \A r \in Runs : calls[r].phase \in {"new", "applying", "done"}
  BY <1>2 DEF AP!Call
<1>4. QED  BY <1>1, <1>2, <1>3, SameType

LEMMA Assumptions == AP!NilAssumption /\ AP!KindsAssumption
BY NilAssumption, KindsAssumption DEF AP!NilAssumption, AP!KindsAssumption

LEMMA NewClientIs ==
    ASSUME NEW pc, NEW m, NEW l, l = Client(pc, m)
    PROVE  /\ l = [pc |-> l.pc, mutation |-> l.mutation, seen |-> l.seen,
                   attempt |-> l.attempt, landed |-> l.landed]
           /\ l.pc = pc /\ l.mutation = m /\ l.landed = FALSE
           /\ l.attempt \in 0..MaxAttempts /\ l.attempt < MaxAttempts
BY AttemptsAssumption DEF Client

LEMMA InitCas == Init => CasInv
<1> SUFFICES ASSUME Init  PROVE CasInv
  OBVIOUS
<1>1. AP!IInv
  BY SameInit, AP!InitIInv, Assumptions DEF Init
<1>2. \A r \in Runs : calls[r].phase = "new" => calls[r].name = Nil
  BY DEF Init, Atomic!Init, Atomic!IdleCall
<1>3. DOMAIN client = Clients /\ lostAcks \in 0..MaxLostAcks
  BY AttemptsAssumption DEF Init
<1>4. ASSUME NEW c \in Clients  PROVE ClientFits(c)
  <2>1. client[c] = Client("idle", Nil)
    BY DEF Init
  <2>2. /\ client[c] = [pc |-> client[c].pc, mutation |-> client[c].mutation,
                         seen |-> client[c].seen, attempt |-> client[c].attempt,
                         landed |-> client[c].landed]
        /\ client[c].pc = "idle" /\ client[c].landed = FALSE
        /\ client[c].attempt \in 0..MaxAttempts
    BY <2>1, AttemptsAssumption DEF Client
  <2>3. QED  BY <2>2 DEF ClientFits, Pc, Working
<1>5. QED  BY <1>1, <1>2, <1>3, <1>4 DEF CasInv

------------------------------------------------------------------------------
(* Every step is a step of the atomic registry, or invisible in it. *)

\* A mutation that was allowed on the document that was read is allowed when
\* that is still the current one, although the clock has moved on since.
LEMMA StillAllowed ==
    ASSUME CasInv, NEW c \in Clients, client[c].pc = "put", doc = client[c].seen
    PROVE  ~Refuses(client[c].mutation, c, doc) /\ Asks(c, client[c].mutation)
<1> DEFINE m == client[c].mutation
<1>1. Asks(c, m) /\ Allowed(m, c, doc)
  BY DEF CasInv, ClientFits, Working
<1>2. CASE m.kind # "acquire"
  BY <1>1, <1>2 DEF Allowed
<1>3. CASE m.kind = "acquire"
  <2>1. Registered(doc, m.name) /\ ~AcquireRefused(doc, m.name, m.claims, c, m.etag, Over)
    BY <1>1, <1>3 DEF Allowed, AcquireRefused
  <2>2. doc.overlays[m.name].status = "applying" /\ doc.overlays[m.name].run \in Over
          => doc.overlays[m.name].run \in expired
    BY <2>1, InvFacts DEF AP!RunsAccountedFor, Registered, Over
  <2>3. ~AcquireRefused(doc, m.name, m.claims, c, m.etag, expired)
    BY <2>1, <2>2 DEF AcquireRefused, CanApply, StaleApplying
  <2>4. QED  BY <1>1, <1>3, <2>3 DEF Refuses
<1>4. QED  BY <1>1, <1>2, <1>3

LEMMA WriteRefines ==
    ASSUME CasInv, NEW c \in Clients, NEW next, Write(c, next)
    PROVE  Atomic!Next
<1> DEFINE m == client[c].mutation
<1>1. /\ client[c].pc = "put" /\ doc = client[c].seen
      /\ doc' = Mutated(m, c, doc) /\ RecordCall(c)
  BY DEF Write
<1>2. ~Refuses(m, c, doc) /\ Asks(c, m)
  BY <1>1, StillAllowed
<1>3. m.name \in Overlays /\ m.kind \in MutationKinds
  BY <1>2 DEF Asks
<1> HIDE DEF m
<1>4. m.kind \notin {"acquire", "finish"} => UNCHANGED <<expired, calls>>
  BY <1>1, <1>3 DEF RecordCall, MutationKinds, m
<1>5. CASE m.kind = "register"
  <2>1. Atomic!Register(m.name)
    BY <1>1, <1>4, <1>5, SameMutations DEF Mutated, Atomic!Register
  <2>2. QED  BY <1>3, <2>1 DEF Atomic!Next
<1>6. CASE m.kind = "flip"
  <2>1. m.etag \in Etags /\ Atomic!Activate(m.name, m.etag)
    BY <1>1, <1>2, <1>4, <1>6, SameMutations DEF Asks, Refuses, Mutated, Atomic!Activate
  <2>2. QED  BY <1>3, <2>1 DEF Atomic!Next
<1>7. CASE m.kind = "acquire"
  <2>1. /\ c \in Runs /\ calls[c].phase # "done" /\ calls[c].name \in {Nil, m.name}
        /\ m.claims \in ClaimMap /\ m.gone \in SUBSET (Addresses \ DOMAIN m.claims)
        /\ m.etag \in Etags
        /\ ~AcquireRefused(doc, m.name, m.claims, c, m.etag, expired)
        /\ doc' = AcquireClaims(doc, m.name, m.claims, c)
    BY <1>1, <1>2, <1>7 DEF Asks, Refuses, Mutated
  <2>2. /\ UNCHANGED expired
        /\ calls' = [calls EXCEPT ![c] =
              [phase |-> "applying", name |-> m.name, released |-> m.gone,
               claims |-> Restrict(doc'.overlays[m.name].claims,
                                   DOMAIN doc'.overlays[m.name].claims \ m.gone)]]
    BY <1>1, <1>7 DEF RecordCall, m
  <2>3. /\ ~Atomic!AcquireRefused(doc, m.name, m.claims, c, m.etag, expired)
        /\ doc' = Atomic!AcquireClaims(doc, m.name, m.claims, c)
        /\ Restrict(doc'.overlays[m.name].claims, DOMAIN doc'.overlays[m.name].claims \ m.gone)
             = Atomic!Restrict(doc'.overlays[m.name].claims,
                               DOMAIN doc'.overlays[m.name].claims \ m.gone)
        /\ m.claims \in Atomic!ClaimMap
    BY <2>1, SameMutations, SameClaims
  <2>4. Atomic!Acquire(c, m.name, m.claims, m.gone, m.etag)
    BY <2>1, <2>2, <2>3 DEF Atomic!Acquire
  <2>5. QED  BY <1>3, <2>1, <2>3, <2>4 DEF Atomic!Next
<1>8. CASE m.kind = "finish"
  <2>1. /\ c \in Runs /\ m.ok \in BOOLEAN
        /\ ~FinishRefused(doc, m.name, c)
        /\ doc' = FinishApply(doc, m.name, m.ok, m.claims, m.gone)
    BY <1>1, <1>2, <1>8 DEF Asks, Refuses, Mutated
  <2>2. Registered(doc, m.name) /\ doc.overlays[m.name].run = c
    BY <2>1 DEF FinishRefused
  <2>3. calls[c].phase = "applying" /\ calls[c].name = m.name
    BY <2>1, <2>2, InvFacts, NilAssumption DEF AP!RunsAccountedFor, Registered
  <2>4. m.claims \in Atomic!Learned(calls[c].claims) /\ m.gone \in SUBSET calls[c].released
    BY <1>2, <1>8, <2>3 DEF Asks
  <2>5. ~Atomic!FinishRefused(doc, m.name, c)
        /\ doc' = Atomic!FinishApply(doc, m.name, m.ok, m.claims, m.gone)
    BY <2>1, SameMutations
  <2>6. Atomic!End(c)
    BY <1>1, <1>8 DEF RecordCall, m
  <2>7. Atomic!Finish(c, m.ok, m.claims, m.gone)
    BY <2>3, <2>5, <2>6 DEF Atomic!Finish
  <2>8. QED  BY <2>1, <2>4, <2>7 DEF Atomic!Next
<1>9. CASE m.kind = "rebase"
  <2>1. /\ m.etag \in Etags /\ ~SetStatusRefused(doc, m.name, "active", m.expected)
        /\ doc' = SetStatus(doc, m.name, "active", m.etag, << >>)
    BY <1>1, <1>2, <1>9 DEF Asks, Refuses, Mutated
  <2>2. ~SetStatusRefused(doc, m.name, "active", Nil)
    BY <2>1 DEF SetStatusRefused
  <2>3. Atomic!Rebase(m.name, m.etag)
    BY <1>4, <1>9, <2>1, <2>2, SameMutations DEF Atomic!Rebase
  <2>4. QED  BY <1>3, <2>1, <2>3 DEF Atomic!Next
<1>10. CASE m.kind = "merge"
  <2>1. /\ m.expected # Nil /\ m.claims \in Atomic!Learned(m.expected.claims)
        /\ ~SetStatusRefused(doc, m.name, "active", m.expected)
        /\ doc' = SetStatus(doc, m.name, "merging", doc.overlays[m.name].etag, m.claims)
    BY <1>1, <1>2, <1>10 DEF Asks, Refuses, Mutated
  <2>2. /\ ~SetStatusRefused(doc, m.name, "active", Nil)
        /\ Registered(doc, m.name) /\ doc.overlays[m.name] = m.expected
    BY <2>1 DEF SetStatusRefused
  <2>3. m.claims \in Atomic!Learned(Atomic!ClaimsOf(m.name))
    BY <2>1, <2>2 DEF Atomic!ClaimsOf, Atomic!Registered, Registered
  <2>4. /\ ~Atomic!SetStatusRefused(doc, m.name, "active", Nil)
        /\ doc' = Atomic!SetStatus(doc, m.name, "merging", doc.overlays[m.name].etag, m.claims)
    BY <2>1, <2>2, SameMutations
  <2>5. Atomic!Merge(m.name, m.claims)
    BY <1>4, <1>10, <2>4 DEF Atomic!Merge
  <2>6. QED  BY <1>3, <2>3, <2>5 DEF Atomic!Next
<1>11. CASE m.kind = "undo"
  <2>1. /\ ~SetStatusRefused(doc, m.name, "merging", Nil)
        /\ doc' = SetStatus(doc, m.name, "active", doc.overlays[m.name].etag, << >>)
    BY <1>1, <1>2, <1>11 DEF Refuses, Mutated
  <2>2. /\ ~Atomic!SetStatusRefused(doc, m.name, "merging", Nil)
        /\ doc' = Atomic!SetStatus(doc, m.name, "active", doc.overlays[m.name].etag, << >>)
    BY <2>1, SameMutations
  <2>3. Atomic!Undo(m.name)
    BY <1>4, <1>11, <2>2 DEF Atomic!Undo
  <2>4. QED  BY <1>3, <2>3 DEF Atomic!Next
<1>12. CASE m.kind = "release"
  <2>1. Atomic!Release(m.name)
    BY <1>1, <1>2, <1>4, <1>12, SameMutations DEF Refuses, Mutated, Atomic!Release
  <2>2. QED  BY <1>3, <2>1 DEF Atomic!Next
<1>13. QED
  BY <1>3, <1>5, <1>6, <1>7, <1>8, <1>9, <1>10, <1>11, <1>12 DEF MutationKinds

\* A refused finish_apply, a run's age and a write are what the atomic
\* registry sees of an update.
LEMMA StepRefines ==
    ASSUME CasInv, [Next]_vars
    PROVE  [Atomic!Next]_Atomic!vars
<1>1. CASE UNCHANGED vars
  BY <1>1 DEF vars, Atomic!vars
<1>2. CASE \E c \in Commands : BeginCommand(c)
  BY <1>2 DEF BeginCommand, Ask, Start, Atomic!vars
<1>3. CASE \E r \in Runs : BeginAcquire(r) \/ BeginFinish(r)
  BY <1>3 DEF BeginAcquire, BeginFinish, Start, Atomic!vars
<1>4. CASE \E r \in Runs : Timeout(r)
  BY <1>4 DEF Timeout, Atomic!Next
<1>5. ASSUME NEW c \in Clients, client[c].pc \in Working, Raise(c)
      PROVE  [Atomic!Next]_Atomic!vars
  <2> DEFINE m == client[c].mutation
  <2>1. CASE m.kind = "finish" /\ calls[c].phase = "applying" /\ Refuses(m, c, doc)
    <3>1. Asks(c, m)
      BY <1>5 DEF CasInv, ClientFits
    <3>2. c \in Runs /\ calls[c].name = m.name /\ FinishRefused(doc, m.name, c)
      BY <2>1, <3>1 DEF Asks, Refuses
    <3>3. Atomic!FinishRefused(doc, calls[c].name, c)
      BY <3>2, SameMutations
    <3>4. Atomic!FinishSuperseded(c)
      BY <1>5, <2>1, <3>3 DEF Raise, Atomic!FinishSuperseded
    <3>5. QED  BY <3>2, <3>4 DEF Atomic!Next
  <2>2. CASE ~(m.kind = "finish" /\ calls[c].phase = "applying" /\ Refuses(m, c, doc))
    BY <1>5, <2>2 DEF Raise, Atomic!vars
  <2>3. QED  BY <2>1, <2>2
<1>6. ASSUME NEW c \in Clients, Update(c)  PROVE [Atomic!Next]_Atomic!vars
  <2>1. CASE Load(c) \/ Settle(c)
    BY <1>5, <2>1 DEF Load, Settle, Working, Atomic!vars
  <2>2. CASE Conflict(c)
    BY <2>2 DEF Conflict, Atomic!vars
  <2>3. CASE PutLands(c) \/ PutLandsAckLost(c)
    BY <2>3, WriteRefines DEF PutLands, PutLandsAckLost
  <2>4. QED  BY <1>6, <2>1, <2>2, <2>3 DEF Update
<1>7. QED  BY <1>1, <1>2, <1>3, <1>4, <1>6 DEF Next

------------------------------------------------------------------------------
(* The invariant is kept. *)

Fields(l) ==
    l = [pc |-> l.pc, mutation |-> l.mutation, seen |-> l.seen, attempt |-> l.attempt,
         landed |-> l.landed]

\* A client that only watches.
LEMMA OthersFit ==
    ASSUME NEW c, ClientFits(c), Fields(client'[c]),
           client'[c].pc = client[c].pc, client'[c].mutation = client[c].mutation,
           client'[c].seen = client[c].seen, client'[c].attempt = client[c].attempt,
           client'[c].landed \in BOOLEAN,
           c \in Runs => calls'[c] = calls[c], Over \subseteq Over'
    PROVE  ClientFits(c)'
<1> DEFINE m == client[c].mutation
<1>1. ASSUME client[c].pc \in Working  PROVE Asks(c, m)'
  <2>1. Asks(c, m)
    BY <1>1 DEF ClientFits
  <2>2. QED  BY <2>1 DEF Asks
<1>2. ASSUME client[c].pc = "put"  PROVE Allowed(m, c, client[c].seen)'
  <2>1. Allowed(m, c, client[c].seen) /\ m.kind \in MutationKinds
    BY <1>2 DEF ClientFits, Working, Asks
  <2>2. QED
    BY <2>1 DEF Allowed, Refuses, AcquireRefused, CanApply, StaleApplying, MutationKinds
<1>3. QED  BY <1>1, <1>2 DEF ClientFits, Fields, Working

\* A client that starts, returns or raises.
LEMMA NewClientFits ==
    ASSUME NEW c, NEW pc \in {"idle", "load", "acquired", "failed"}, NEW m,
           client'[c] = Client(pc, m),
           pc = "load" => Asks(c, m)',
           pc = "acquired" => c \in Runs /\ calls'[c].phase = "applying" /\ calls'[c].name \in Overlays
    PROVE  ClientFits(c)'
<1>1. /\ Fields(client'[c]) /\ client'[c].pc = pc /\ client'[c].mutation = m
      /\ client'[c].landed = FALSE
      /\ client'[c].attempt \in 0..MaxAttempts /\ client'[c].attempt < MaxAttempts
  BY AttemptsAssumption DEF Client, Fields
<1>2. QED  BY <1>1 DEF ClientFits, Fields, Pc, Working

\* What a step of the atomic registry does to the calls and to their ages.
LEMMA OverGrows ==
    ASSUME CasInv, [Next]_vars
    PROVE  /\ Over \subseteq Over' /\ DOMAIN calls' = Runs
           /\ \A r \in Runs : calls'[r] = calls[r] \/ calls'[r].phase \in {"applying", "done"}
<1>1. [Atomic!Next]_Atomic!vars
  BY StepRefines
<1>2. DOMAIN calls = Runs
  BY InvFacts
<1>3. ASSUME NEW r \in Runs, calls' = [calls EXCEPT ![r] = calls'[r]],
             \/ calls[r].phase # "done" /\ calls'[r].phase = "applying" /\ UNCHANGED expired
             \/ calls'[r].phase = "done" /\ expired' = expired \ {r}
      PROVE  /\ Over \subseteq Over' /\ DOMAIN calls' = Runs
             /\ \A q \in Runs : calls'[q] = calls[q] \/ calls'[q].phase \in {"applying", "done"}
  BY <1>2, <1>3 DEF Over
<1>4. CASE expired \subseteq expired' /\ UNCHANGED calls
  BY <1>2, <1>4 DEF Over
<1>5. ASSUME NEW r \in Runs, Atomic!End(r)
      PROVE  calls' = [calls EXCEPT ![r] = calls'[r]] /\ calls'[r].phase = "done"
             /\ expired' = expired \ {r}
  BY <1>2, <1>5 DEF Atomic!End, Atomic!IdleCall
<1>6. ASSUME NEW r \in Runs, NEW n, NEW w, NEW released, NEW etag,
             Atomic!Acquire(r, n, w, released, etag)
      PROVE  calls' = [calls EXCEPT ![r] = calls'[r]] /\ calls[r].phase # "done"
             /\ calls'[r].phase = "applying" /\ UNCHANGED expired
  BY <1>2, <1>6 DEF Atomic!Acquire
<1>7. CASE \E r \in Runs : Atomic!End(r)
  BY <1>3, <1>5, <1>7
<1>8. CASE \E r \in Runs : \E n, w, released, etag : Atomic!Acquire(r, n, w, released, etag)
  BY <1>3, <1>6, <1>8
<1>9. CASE \E r \in Runs : Atomic!Timeout(r)
  BY <1>4, <1>9 DEF Atomic!Timeout
<1>10. QED
  BY <1>1, <1>4, <1>7, <1>8, <1>9
     DEF Atomic!vars, Atomic!Next, Atomic!Register, Atomic!Activate,
         Atomic!Finish, Atomic!FinishSuperseded, Atomic!Rebase,
         Atomic!Merge, Atomic!Undo, Atomic!Release

LEMMA UnlandedIs ==
    ASSUME NEW l, Fields(l), NEW b
    PROVE  LET l2 == [l EXCEPT !.landed = b]
           IN  /\ Fields(l2) /\ l2.landed = b /\ l2.pc = l.pc /\ l2.mutation = l.mutation
               /\ l2.seen = l.seen /\ l2.attempt = l.attempt
BY DEF Fields

\* One client moves and the others watch.
LEMMA OneMoves ==
    ASSUME CasInv, [Next]_vars, NEW c \in Clients, ClientFits(c)', DOMAIN client' = Clients,
           \A d \in Clients \ {c} :
              client'[d] = client[d] \/ client'[d] = [client[d] EXCEPT !.landed = FALSE],
           \A r \in Runs \ {c} : calls'[r] = calls[r]
    PROVE  \A d \in Clients : ClientFits(d)'
<1> SUFFICES ASSUME NEW d \in Clients, d # c  PROVE ClientFits(d)'
  OBVIOUS
<1>1. ClientFits(d) /\ Fields(client[d]) /\ client[d].landed \in BOOLEAN
  BY DEF CasInv, ClientFits, Fields
<1>2. /\ Fields(client'[d]) /\ client'[d].landed \in BOOLEAN
      /\ client'[d].pc = client[d].pc /\ client'[d].mutation = client[d].mutation
      /\ client'[d].seen = client[d].seen /\ client'[d].attempt = client[d].attempt
  <2>1. CASE client'[d] = client[d]
    BY <1>1, <2>1
  <2>2. CASE client'[d] = [client[d] EXCEPT !.landed = FALSE]
    BY <1>1, <2>2, UnlandedIs
  <2>3. QED  BY <2>1, <2>2
<1>3. QED  BY <1>1, <1>2, OverGrows, OthersFit

LEMMA BeginFits ==
    ASSUME CasInv, [Next]_vars, NEW c \in Clients, NEW m, Start(c, m), Asks(c, m)
    PROVE  \A d \in Clients : ClientFits(d)'
<1>1. /\ DOMAIN client = Clients /\ client' = [client EXCEPT ![c] = Client("load", m)]
      /\ UNCHANGED calls
  BY DEF CasInv, Start
<1>2. Asks(c, m)'
  BY <1>1 DEF Asks
<1>3. ClientFits(c)'
  BY <1>1, <1>2, NewClientFits
<1>4. QED  BY <1>1, <1>3, OneMoves

LEMMA RaiseFits ==
    ASSUME CasInv, [Next]_vars, NEW c \in Clients, client[c].pc \in Working, Raise(c)
    PROVE  \A d \in Clients : ClientFits(d)'
<1>1. /\ DOMAIN client = Clients /\ client' = [client EXCEPT ![c] = Client("failed", Nil)]
  BY DEF CasInv, Raise
<1>2. ClientFits(c)'
  BY <1>1, NewClientFits
<1>3. \A r \in Runs \ {c} : calls'[r] = calls[r]
  BY InvFacts DEF Raise, Atomic!End
<1>4. QED  BY <1>1, <1>2, <1>3, OneMoves

\* An acquire that finds nothing left to change has been made before: the run
\* is the current one of the entry.
LEMMA AcquiredBefore ==
    ASSUME CasInv, NEW c \in Clients, NEW m, Asks(c, m), m.kind = "acquire",
           ~Refuses(m, c, doc), Mutated(m, c, doc) = doc
    PROVE  c \in Runs /\ calls[c].phase = "applying" /\ calls[c].name = m.name
<1>1. c \in Runs /\ c # Nil
  BY NilAssumption DEF Asks
<1>2. Registered(doc, m.name) /\ AcquireClaims(doc, m.name, m.claims, c) = doc
  BY DEF Refuses, AcquireRefused, Mutated
<1>3. doc.overlays[m.name] \in Entry
  BY <1>2, InvFacts DEF IsDocument, Registered
<1> DEFINE e == [doc.overlays[m.name] EXCEPT !.status = "applying", !.run = c,
                                             !.claims = MergeClaims(@, m.claims)]
<1>4. e.run = c
  BY <1>3 DEF Entry
<1>5. doc.overlays[m.name].run = c
  <2>1. WithEntry(doc, m.name, e) = doc
    BY <1>2 DEF AcquireClaims
  <2> HIDE DEF e
  <2>2. WithEntry(doc, m.name, e).overlays[m.name] = e
    BY DEF WithEntry
  <2>3. QED  BY <1>4, <2>1, <2>2
<1>6. QED  BY <1>1, <1>2, <1>5, InvFacts DEF AP!RunsAccountedFor, Registered

\* An update that returns because there is nothing to change.
LEMMA ReturnFits ==
    ASSUME CasInv, [Next]_vars, NEW c \in Clients, client[c].pc \in Working,
           ~Refuses(client[c].mutation, c, doc),
           Mutated(client[c].mutation, c, doc) = doc,
           Return(c), UNCHANGED calls
    PROVE  \A d \in Clients : ClientFits(d)'
<1> DEFINE m == client[c].mutation
           pc == IF m.kind = "acquire" THEN "acquired" ELSE "idle"
<1>1. Asks(c, m)
  BY DEF CasInv, ClientFits
<1>2. m.kind = "acquire" => c \in Runs /\ calls[c].phase = "applying" /\ calls[c].name \in Overlays
  BY <1>1, AcquiredBefore DEF Asks
<1>3. DOMAIN client = Clients /\ client' = [client EXCEPT ![c] = Client(pc, Nil)]
  BY DEF CasInv, Return, Returned
<1>4. ClientFits(c)'
  BY <1>2, <1>3, NewClientFits
<1>5. QED  BY <1>3, <1>4, OneMoves

\* The callback has run, the PUT comes next.
LEMMA ReadFits ==
    ASSUME CasInv, [Next]_vars, NEW c \in Clients, client[c].pc = "load",
           ~Refuses(client[c].mutation, c, doc),
           client' = [client EXCEPT ![c].pc = "put", ![c].seen = doc],
           UNCHANGED <<expired, calls>>
    PROVE  \A d \in Clients : ClientFits(d)'
<1>1. ClientFits(c) /\ DOMAIN client = Clients
  BY DEF CasInv
<1>2. Fields(client[c])
  BY <1>1 DEF ClientFits, Fields
<1>3. /\ Fields(client'[c]) /\ client'[c].pc = "put" /\ client'[c].seen = doc
      /\ client'[c].mutation = client[c].mutation /\ client'[c].attempt = client[c].attempt
      /\ client'[c].landed = client[c].landed
  BY <1>1, <1>2 DEF Fields
<1>4. Asks(c, client[c].mutation)
  BY <1>1 DEF ClientFits, Working
<1>5. Allowed(client[c].mutation, c, doc)
  BY DEF Allowed, Refuses, AcquireRefused, CanApply, StaleApplying, Over
<1>6. Asks(c, client[c].mutation)' /\ Allowed(client[c].mutation, c, client[c].seen)'
  <2>1. Asks(c, client[c].mutation)'
    BY <1>3, <1>4 DEF Asks
  <2>2. Allowed(client[c].mutation, c, client[c].seen)'
    BY <1>3, <1>5 DEF Allowed, Over, Refuses
  <2>3. QED  BY <2>1, <2>2
<1>7. ClientFits(c)'
  BY <1>1, <1>3, <1>6, InvFacts DEF ClientFits, Fields, Pc, Working
<1>8. QED  BY <1>1, <1>7, OneMoves

\* The next round, with the same mutation.
LEMMA RetryFits ==
    ASSUME NEW c \in Clients, ClientFits(c), client[c].pc = "put", NEW landed \in BOOLEAN,
           client'[c] = Retry(c, landed), NEW m, m = client[c].mutation, Asks(c, m)'
    PROVE  ClientFits(c)'
<1>1. /\ Fields(client[c])
      /\ client[c].attempt \in 0..MaxAttempts /\ client[c].attempt < MaxAttempts
  BY DEF ClientFits, Fields, Working
<1>2. /\ Fields(client'[c]) /\ client'[c].mutation = m
      /\ client'[c].landed = landed /\ client'[c].attempt = client[c].attempt + 1
      /\ client'[c].pc = IF client[c].attempt + 1 < MaxAttempts THEN "load" ELSE "settle"
  BY <1>1 DEF Retry, Fields
<1>3. client'[c].attempt \in 0..MaxAttempts
      /\ (client'[c].pc = "load" => client'[c].attempt < MaxAttempts)
      /\ client'[c].pc \in {"load", "settle"}
  BY <1>1, <1>2, AttemptsAssumption
<1>4. Asks(c, client[c].mutation)'
  BY <1>2 DEF Asks
<1>5. QED  BY <1>2, <1>3, <1>4 DEF ClientFits, Fields, Pc, Working

\* A landed write: the writer goes on, nobody else's write is current.
LEMMA WrittenBy ==
    ASSUME CasInv, NEW c \in Clients, NEW next, Write(c, next)
    PROVE  /\ DOMAIN client' = Clients /\ client'[c] = next
           /\ \A d \in Clients \ {c} : client'[d] = [client[d] EXCEPT !.landed = FALSE]
           /\ \A r \in Runs \ {c} : calls'[r] = calls[r]
           /\ \A m : m = client[c].mutation => Asks(c, m)'
           /\ client[c].mutation.kind = "acquire" =>
                 c \in Runs /\ calls'[c].phase = "applying" /\ calls'[c].name \in Overlays
<1>1. Asks(c, client[c].mutation) /\ RecordCall(c) /\ DOMAIN calls = Runs
  BY StillAllowed, InvFacts DEF Write
<1>2. client' = [d \in Clients |-> IF d = c THEN next ELSE [client[d] EXCEPT !.landed = FALSE]]
  BY DEF Write
<1>3. DOMAIN client' = Clients /\ client'[c] = next
      /\ \A d \in Clients \ {c} : client'[d] = [client[d] EXCEPT !.landed = FALSE]
  BY <1>2
<1> SUFFICES ASSUME NEW m, m = client[c].mutation
             PROVE  /\ \A r \in Runs \ {c} : calls'[r] = calls[r]
                    /\ Asks(c, m)'
                    /\ m.kind = "acquire" =>
                          c \in Runs /\ calls'[c].phase = "applying" /\ calls'[c].name \in Overlays
  BY <1>3
<1>4. CASE m.kind = "acquire"
  <2>1. c \in Runs /\ m.name \in Overlays
    BY <1>1, <1>4 DEF Asks
  <2>2. /\ \A r \in Runs \ {c} : calls'[r] = calls[r]
        /\ calls'[c].phase = "applying" /\ calls'[c].name = m.name
    BY <1>1, <1>4, <2>1 DEF RecordCall
  <2>3. QED  BY <1>1, <1>4, <2>1, <2>2 DEF Asks
<1>5. CASE m.kind = "finish"
  <2>1. c \in Runs /\ Atomic!End(c)
    BY <1>1, <1>5 DEF Asks, RecordCall
  <2>2. calls'[c].phase = "done" /\ \A r \in Runs \ {c} : calls'[r] = calls[r]
    BY <1>1, <2>1 DEF Atomic!End, Atomic!IdleCall
  <2>3. QED  BY <1>1, <1>5, <2>1, <2>2 DEF Asks
<1>6. CASE m.kind \notin {"acquire", "finish"}
  <2>1. UNCHANGED calls
    BY <1>1, <1>6 DEF Asks, RecordCall, MutationKinds
  <2>2. QED  BY <1>1, <1>6, <2>1 DEF Asks
<1>7. QED  BY <1>4, <1>5, <1>6

LEMMA PutFits ==
    ASSUME CasInv, [Next]_vars, NEW c \in Clients, PutLands(c) \/ PutLandsAckLost(c)
    PROVE  \A d \in Clients : ClientFits(d)'
<1>1. CASE PutLands(c)
  <2> DEFINE pc == IF client[c].mutation.kind = "acquire" THEN "acquired" ELSE "idle"
  <2>1. client'[c] = Client(pc, Nil)
    BY <1>1, WrittenBy DEF PutLands, Returned
  <2>2. ClientFits(c)'
    BY <1>1, <2>1, WrittenBy, NewClientFits DEF PutLands
  <2>3. QED  BY <1>1, <2>2, WrittenBy, OneMoves DEF PutLands
<1>2. CASE PutLandsAckLost(c)
  <2>1. client'[c] = Retry(c, TRUE) /\ ClientFits(c) /\ client[c].pc = "put"
    BY <1>2, WrittenBy DEF PutLandsAckLost, CasInv, Write
  <2>2. PICK m : m = client[c].mutation
    OBVIOUS
  <2>3. Asks(c, m)'
    BY <1>2, <2>2, WrittenBy DEF PutLandsAckLost
  <2>4. ClientFits(c)'
    BY <2>1, <2>2, <2>3, RetryFits
  <2>5. QED  BY <1>2, <2>4, WrittenBy, OneMoves DEF PutLandsAckLost
<1>3. QED  BY <1>1, <1>2

LEMMA UpdateFits ==
    ASSUME CasInv, [Next]_vars, NEW c \in Clients, Update(c)
    PROVE  \A d \in Clients : ClientFits(d)'
<1>1. CASE Load(c)
  BY <1>1, RaiseFits, ReturnFits, ReadFits DEF Load, Working
<1>2. CASE Settle(c)
  BY <1>2, RaiseFits, ReturnFits DEF Settle, Working
<1>3. CASE Conflict(c)
  <2>1. /\ ClientFits(c) /\ DOMAIN client = Clients /\ UNCHANGED calls
        /\ client' = [client EXCEPT ![c] = Retry(c, @.landed)] /\ client[c].pc = "put"
    BY <1>3 DEF CasInv, Conflict
  <2>2. client[c].landed \in BOOLEAN /\ client'[c] = Retry(c, client[c].landed)
    BY <2>1 DEF ClientFits
  <2>3. PICK m : m = client[c].mutation
    OBVIOUS
  <2>4. Asks(c, m)'
    BY <2>1, <2>3 DEF ClientFits, Working, Asks
  <2>5. ClientFits(c)'
    BY <2>1, <2>2, <2>3, <2>4, RetryFits
  <2>6. QED  BY <2>1, <2>5, OneMoves
<1>4. QED  BY <1>1, <1>2, <1>3, PutFits DEF Update

\* What a client closes over is what the code passes to update.
LEMMA BeginCommandFits ==
    ASSUME CasInv, [Next]_vars, NEW c \in Commands, BeginCommand(c)
    PROVE  \A d \in Clients : ClientFits(d)'
<1>1. PICK n \in Overlays :
          \/ Ask(c, Mutation("register", n))
          \/ \E etag \in Etags : Ask(c, [Mutation("flip", n) EXCEPT !.etag = etag])
          \/ /\ LoadedActive(n)
             /\ \E etag \in Etags :
                   Ask(c, [Mutation("rebase", n) EXCEPT
                                !.etag = etag, !.expected = doc.overlays[n]])
          \/ /\ LoadedActive(n)
             /\ \E learned \in Atomic!Learned(doc.overlays[n].claims) :
                   Ask(c, [Mutation("merge", n) EXCEPT
                                !.claims = learned, !.expected = doc.overlays[n]])
          \/ Ask(c, Mutation("undo", n))
          \/ Ask(c, Mutation("release", n))
  BY DEF BeginCommand
<1>2. SUFFICES \E m : Start(c, m) /\ Asks(c, m)
  BY BeginFits DEF Clients
<1>3. CASE Ask(c, Mutation("register", n)) \/ Ask(c, Mutation("undo", n))
           \/ Ask(c, Mutation("release", n))
  BY <1>3 DEF Ask, Mutation, Asks, MutationKinds
<1>4. ASSUME NEW etag \in Etags, Ask(c, [Mutation("flip", n) EXCEPT !.etag = etag])
      PROVE  \E m : Start(c, m) /\ Asks(c, m)
  BY <1>4 DEF Ask, Mutation, Asks, MutationKinds
<1>5. ASSUME NEW etag \in Etags,
             Ask(c, [Mutation("rebase", n) EXCEPT !.etag = etag, !.expected = doc.overlays[n]])
      PROVE  \E m : Start(c, m) /\ Asks(c, m)
  <2> DEFINE m == [Mutation("rebase", n) EXCEPT !.etag = etag, !.expected = doc.overlays[n]]
  <2>1. m.kind = "rebase" /\ m.name = n /\ m.etag = etag
    BY DEF Mutation
  <2>2. Start(c, m)
    BY <1>5 DEF Ask
  <2> HIDE DEF m
  <2>3. QED  BY <2>1, <2>2 DEF Asks, MutationKinds
<1>6. ASSUME LoadedActive(n), NEW learned \in Atomic!Learned(doc.overlays[n].claims),
             Ask(c, [Mutation("merge", n) EXCEPT !.claims = learned, !.expected = doc.overlays[n]])
      PROVE  \E m : Start(c, m) /\ Asks(c, m)
  <2>1. doc.overlays[n] # Nil
    BY <1>6, InvFacts, EntryAssumption DEF LoadedActive, Registered, IsDocument
  <2> DEFINE m == [Mutation("merge", n) EXCEPT !.claims = learned, !.expected = doc.overlays[n]]
  <2>2. m.kind = "merge" /\ m.name = n /\ m.claims = learned /\ m.expected = doc.overlays[n]
    BY DEF Mutation
  <2>3. Start(c, m)
    BY <1>6 DEF Ask
  <2> HIDE DEF m
  <2>4. QED  BY <2>1, <2>2, <2>3 DEF Asks, MutationKinds
<1>7. QED  BY <1>1, <1>3, <1>4, <1>5, <1>6

LEMMA BeginApplyFits ==
    ASSUME CasInv, [Next]_vars, NEW r \in Runs, BeginAcquire(r) \/ BeginFinish(r)
    PROVE  \A d \in Clients : ClientFits(d)'
<1>1. SUFFICES \E m : Start(r, m) /\ Asks(r, m)
  BY BeginFits DEF Clients
<1>2. CASE BeginAcquire(r)
  <2>1. PICK n \in Overlays, wanted \in ClaimMap, etag \in Etags :
               \E released \in SUBSET (Addresses \ DOMAIN wanted) :
                  Start(r, [Mutation("acquire", n) EXCEPT
                               !.claims = wanted, !.etag = etag, !.gone = released])
    BY <1>2 DEF BeginAcquire
  <2>2. calls[r].phase = "new" /\ calls[r].name = Nil
    BY <1>2 DEF BeginAcquire, CasInv
  <2>3. PICK released \in SUBSET (Addresses \ DOMAIN wanted) :
             Start(r, [Mutation("acquire", n) EXCEPT
                          !.claims = wanted, !.etag = etag, !.gone = released])
    BY <2>1
  <2> DEFINE m == [Mutation("acquire", n) EXCEPT
                      !.claims = wanted, !.etag = etag, !.gone = released]
  <2>4. m.kind = "acquire" /\ m.name = n /\ m.claims = wanted /\ m.etag = etag
        /\ m.gone = released
    BY DEF Mutation
  <2>5. Start(r, m)
    BY <2>3
  <2> HIDE DEF m
  <2>6. QED  BY <2>2, <2>4, <2>5 DEF Asks, MutationKinds
<1>3. CASE BeginFinish(r)
  <2>1. PICK ok \in BOOLEAN, learned \in Atomic!Learned(calls[r].claims),
             gone \in SUBSET calls[r].released :
               Start(r, [Mutation("finish", calls[r].name) EXCEPT
                            !.claims = learned, !.ok = ok, !.gone = gone])
    BY <1>3 DEF BeginFinish
  <2>2. calls[r].name \in Overlays
    BY <1>3 DEF BeginFinish, CasInv, ClientFits, Clients
  <2> DEFINE m == [Mutation("finish", calls[r].name) EXCEPT
                      !.claims = learned, !.ok = ok, !.gone = gone]
  <2>3. m.kind = "finish" /\ m.name = calls[r].name /\ m.claims = learned
        /\ m.ok = ok /\ m.gone = gone
    BY DEF Mutation
  <2>4. Start(r, m)
    BY <2>1
  <2> HIDE DEF m
  <2>5. QED  BY <2>2, <2>3, <2>4 DEF Asks, MutationKinds
<1>4. QED  BY <1>2, <1>3

LEMMA NextCas == CasInv /\ [Next]_vars => CasInv'
<1> SUFFICES ASSUME CasInv, [Next]_vars  PROVE CasInv'
  OBVIOUS
<1>1. AP!IInv'
  <2>1. [Atomic!Next]_Atomic!vars
    BY StepRefines
  <2>2. [AP!Next]_AP!vars
    BY <2>1, SameNext DEF Atomic!vars, AP!vars
  <2>3. QED  BY <2>2, AP!NextIInv, Assumptions DEF CasInv
<1>2. \A r \in Runs : calls'[r].phase = "new" => calls'[r].name = Nil
  BY OverGrows DEF CasInv
<1>3. \A c \in Clients : ClientFits(c)'
  <2>1. CASE UNCHANGED vars
    <3>1. ASSUME NEW c \in Clients  PROVE ClientFits(c)'
      BY <2>1, OthersFit, OverGrows DEF CasInv, ClientFits, Fields, vars
    <3>2. QED  BY <3>1
  <2>2. CASE \E r \in Runs : Timeout(r)
    <3>1. UNCHANGED <<client, calls>>
      BY <2>2 DEF Timeout, Atomic!Timeout
    <3>2. ASSUME NEW c \in Clients  PROVE ClientFits(c)'
      BY <3>1, OthersFit, OverGrows DEF CasInv, ClientFits, Fields
    <3>3. QED  BY <3>2
  <2>3. QED  BY <2>1, <2>2, BeginCommandFits, BeginApplyFits, UpdateFits DEF Next
<1>4. DOMAIN client' = Clients /\ lostAcks' \in 0..MaxLostAcks
  <2>1. DOMAIN client = Clients /\ lostAcks \in 0..MaxLostAcks
    BY DEF CasInv
  <2>2. CASE UNCHANGED vars \/ \E r \in Runs : Timeout(r)
    BY <2>1, <2>2 DEF Timeout, vars
  <2>3. ASSUME NEW c, NEW m, Start(c, m)
        PROVE  DOMAIN client' = Clients /\ lostAcks' \in 0..MaxLostAcks
    BY <2>1, <2>3 DEF Start
  <2>4. CASE (\E c \in Commands : BeginCommand(c))
             \/ \E r \in Runs : BeginAcquire(r) \/ BeginFinish(r)
    BY <2>3, <2>4 DEF BeginCommand, Ask, BeginAcquire, BeginFinish
  <2>5. ASSUME NEW c \in Clients, Update(c)
        PROVE  DOMAIN client' = Clients /\ lostAcks' \in 0..MaxLostAcks
    <3>1. CASE Load(c) \/ Conflict(c) \/ Settle(c)
      BY <2>1, <3>1 DEF Load, Conflict, Settle, Raise, Return
    <3>2. CASE PutLands(c)
      BY <2>1, <3>2, WrittenBy DEF PutLands
    <3>3. CASE PutLandsAckLost(c)
      <4>1. DOMAIN client' = Clients
        BY <3>3, WrittenBy DEF PutLandsAckLost
      <4>2. QED  BY <2>1, <3>3, <4>1, AttemptsAssumption DEF PutLandsAckLost
    <3>4. QED  BY <2>5, <3>1, <3>2, <3>3 DEF Update
  <2>6. QED  BY <2>2, <2>4, <2>5 DEF Next
<1>5. QED  BY <1>1, <1>2, <1>3, <1>4 DEF CasInv

\* TypeOK of RegistryCas, from the invariant that the refinement rests on:
\* what a client closes over, and that what it is about to PUT was allowed on
\* the document it read.
THEOREM CasTypeCorrect == Spec => []TypeOK
<1>1. CasInv => TypeOK
  BY InvFacts DEF CasInv, ClientFits, TypeOK
<1>2. QED  BY <1>1, InitCas, NextCas, PTL DEF Spec

\* UpdatesAreAtomic of RegistryCas: the load, mutate, PUT-If-Match loop of
\* Registry.update, with its retries and its last look, implements a registry
\* in which every mutation is one step.
THEOREM UpdatesRefineTheRegistry == Spec => UpdatesAreAtomic
<1>1. Init => Atomic!Init
  BY DEF Init
<1>2. CasInv /\ [Next]_vars => [Atomic!Next]_Atomic!vars
  BY StepRefines
<1>3. QED  BY <1>1, <1>2, InitCas, NextCas, PTL DEF Spec, UpdatesAreAtomic, Atomic!Spec

\* With any number of clients in the loop at once, no two live overlays hold a
\* claim on the same address (ClaimsNeverOverlap carried over to update).
THEOREM ConcurrentUpdatesKeepClaimsApart == Spec => []Atomic!AddressesDisjoint
<1>1. CasInv => Atomic!AddressesDisjoint
  BY DEF CasInv, AP!IInv, AP!AddressesDisjoint, Atomic!AddressesDisjoint
<1>2. QED  BY <1>1, InitCas, NextCas, PTL DEF Spec

\* What ClaimsLive says of atomic updates holds of the loop too: an entry that
\* survives loses a claim only to its current run's success, for an address
\* that this run deleted.
THEOREM ConcurrentUpdatesKeepClaims == Spec => Atomic!ClaimsLiveUntilReleased
<1>1. Init => AP!Init
  BY SameInit DEF Init
<1>2. CasInv /\ [Next]_vars => [AP!Next]_AP!vars
  BY StepRefines, SameNext DEF Atomic!vars, AP!vars
<1>3. Spec => AP!Spec
  BY <1>1, <1>2, InitCas, NextCas, PTL DEF Spec, AP!Spec
<1>4. AP!Spec => AP!ClaimsLiveUntilReleased
  BY AP!ClaimsLive, Assumptions
<1>5. AP!ClaimsLiveUntilReleased => Atomic!ClaimsLiveUntilReleased
  BY DEF AP!ClaimsLiveUntilReleased, Atomic!ClaimsLiveUntilReleased, AP!Survives, Atomic!Survives,
         AP!LossIsRelease, Atomic!LossIsRelease, AP!vars, Atomic!vars
<1>6. QED  BY <1>3, <1>4, <1>5, PTL

==============================================================================
