------------------------ MODULE OverlayLifecycleProofs ------------------------
(***************************************************************************)
(* Theorems about OverlayLifecycle: first its types, for commands that     *)
(* overlap in any way, then crash safety: when the commands of an overlay  *)
(* run one after the other, any number of them, each may stop or crash at  *)
(* any step while the base moves; then, what the trunk has adopted is      *)
(* never destroyed by the overlay that made it; then applies and merges    *)
(* that overlap; last, what other overlaps break and sequences do not.     *)
(***************************************************************************)
EXTENDS OverlayLifecycle, FiniteSetTheorems, TLAPS

(* The lemmas about the mutation callbacks, which the theorems about the   *)
(* atomic registry rest on as well.  An instance has copies of the         *)
(* operators; what the registry keeps in calls plays no part in them.      *)

Reg == INSTANCE ClaimRegistryProofs WITH calls <- proc

LEMMA SameAssumptions == Reg!NilAssumption /\ Reg!KindsAssumption
BY NilAssumption, KindsAssumption DEF Reg!NilAssumption, Reg!KindsAssumption

LEMMA SameSets ==
    /\ Reg!Claim = Claim /\ Reg!ClaimMap = ClaimMap /\ Reg!Entry = Entry
    /\ Reg!LiveStatuses = LiveStatuses
    /\ \A d : Reg!IsDocument(d) <=> IsDocument(d)
BY DEF Reg!IsDocument, IsDocument, Reg!Entry, Entry, Reg!ClaimMap, ClaimMap, Reg!Claim, Claim,
       Reg!LiveStatuses, LiveStatuses

LEMMA SameHelpers ==
    /\ \A f, S : Reg!Restrict(f, S) = Restrict(f, S)
    /\ \A d, n, e : Reg!WithEntry(d, n, e) = WithEntry(d, n, e)
    /\ \A f, g : Reg!MergeClaims(f, g) = MergeClaims(f, g)
    /\ \A f, g, gone, S : Reg!FinishClaims(f, g, gone, S) = FinishClaims(f, g, gone, S)
BY DEF Reg!Restrict, Restrict, Reg!WithEntry, WithEntry, Reg!MergeClaims, MergeClaims,
       Reg!MergeClaim, MergeClaim, Reg!KnownOr, KnownOr, Reg!FinishClaims, FinishClaims

LEMMA SameCallbacks ==
    ASSUME NEW d, NEW n
    PROVE  /\ Reg!RegisterCreating(d, n) = RegisterCreating(d, n)
           /\ Reg!FlipRefused(d, n) <=> FlipRefused(d, n)
           /\ Reg!ReleaseOverlay(d, n) = ReleaseOverlay(d, n)
BY SameHelpers DEF Reg!Registered, Registered, Reg!RegisterCreating, RegisterCreating,
   Reg!FlipRefused, FlipRefused, Reg!ReleaseOverlay, ReleaseOverlay

LEMMA SameFlip ==
    ASSUME NEW d, NEW n, NEW etag
    PROVE  Reg!Flip(d, n, etag) = Flip(d, n, etag)
BY SameHelpers DEF Reg!Flip, Flip

LEMMA SameAcquire ==
    ASSUME NEW d, NEW n, NEW w, NEW r
    PROVE  Reg!AcquireClaims(d, n, w, r) = AcquireClaims(d, n, w, r)
BY SameHelpers DEF Reg!AcquireClaims, AcquireClaims

LEMMA SameFinish ==
    ASSUME NEW d, NEW n, NEW ok, NEW w, NEW gone
    PROVE  Reg!FinishApply(d, n, ok, w, gone) = FinishApply(d, n, ok, w, gone)
BY DEF Reg!Restrict, Restrict, Reg!WithEntry, WithEntry, Reg!MergeClaims, MergeClaims,
       Reg!MergeClaim, MergeClaim, Reg!KnownOr, KnownOr, Reg!FinishClaims, FinishClaims,
       Reg!FinishApply, FinishApply

LEMMA SameSetStatus ==
    ASSUME NEW d, NEW n, NEW s, NEW etag, NEW w
    PROVE  Reg!SetStatus(d, n, s, etag, w) = SetStatus(d, n, s, etag, w)
BY SameHelpers DEF Reg!SetStatus, SetStatus

LEMMA WithEntryIs ==
    ASSUME NEW d, NEW n, NEW e
    PROVE  /\ DOMAIN WithEntry(d, n, e).overlays = DOMAIN d.overlays \cup {n}
           /\ WithEntry(d, n, e).overlays[n] = e
           /\ \A m \in DOMAIN d.overlays :
                 m # n => WithEntry(d, n, e).overlays[m] = d.overlays[m]
           /\ WithEntry(d, n, e).tombstones = d.tombstones
BY Reg!WithEntryIs, SameAssumptions, SameSets, SameHelpers

LEMMA ClaimMapIs ==
    ASSUME NEW S \in SUBSET Addresses, NEW f \in [S -> Claim]
    PROVE  f \in ClaimMap
BY Reg!ClaimMapIs, SameAssumptions, SameSets, SameHelpers

LEMMA MergeClaimsIs ==
    ASSUME NEW c \in ClaimMap, NEW w \in ClaimMap
    PROVE  /\ MergeClaims(c, w) \in ClaimMap
           /\ DOMAIN MergeClaims(c, w) = DOMAIN c \cup DOMAIN w
BY Reg!MergeClaimsIs, SameAssumptions, SameSets, SameHelpers

LEMMA RestrictIs ==
    ASSUME NEW c \in ClaimMap, NEW S
    PROVE  /\ Restrict(c, DOMAIN c \ S) \in ClaimMap
           /\ DOMAIN Restrict(c, DOMAIN c \ S) = DOMAIN c \ S
BY Reg!RestrictIs, SameAssumptions, SameSets, SameHelpers

LEMMA EmptyIsClaims == << >> \in ClaimMap /\ DOMAIN << >> = {}
BY Reg!EmptyIsClaims, SameAssumptions, SameSets, SameHelpers

LEMMA RegisterType ==
    ASSUME NEW d, IsDocument(d), NEW n \in Overlays
    PROVE  IsDocument(RegisterCreating(d, n))
BY Reg!RegisterType, SameAssumptions, SameSets, SameCallbacks

LEMMA FlipType ==
    ASSUME NEW d, IsDocument(d), NEW n \in Overlays, NEW etag \in Etags, ~FlipRefused(d, n)
    PROVE  IsDocument(Flip(d, n, etag))
BY Reg!FlipType, SameAssumptions, SameSets, SameCallbacks, SameFlip

LEMMA AcquireType ==
    ASSUME NEW d, IsDocument(d), NEW n \in DOMAIN d.overlays, NEW w \in ClaimMap,
           NEW r \in Runs
    PROVE  IsDocument(AcquireClaims(d, n, w, r))
BY Reg!AcquireType, SameAssumptions, SameSets, SameHelpers, SameAcquire

LEMMA FinishClaimsIs ==
    ASSUME NEW c \in ClaimMap, NEW l \in ClaimMap, NEW gone, NEW dropped
    PROVE  /\ FinishClaims(c, l, gone, dropped) \in ClaimMap
           /\ \A a : a \in DOMAIN FinishClaims(c, l, gone, dropped) <=>
                 (a \in DOMAIN c \/ a \in DOMAIN l \ gone) /\ a \notin dropped
BY Reg!FinishClaimsIs, SameAssumptions, SameSets, SameHelpers

LEMMA FinishType ==
    ASSUME NEW d, IsDocument(d), NEW n \in DOMAIN d.overlays, NEW ok \in BOOLEAN,
           NEW l \in ClaimMap, NEW gone
    PROVE  IsDocument(FinishApply(d, n, ok, l, gone))
BY Reg!FinishType, SameAssumptions, SameSets, SameHelpers, SameFinish

LEMMA SetStatusType ==
    ASSUME NEW d, IsDocument(d), NEW n \in DOMAIN d.overlays, NEW s \in LiveStatuses,
           NEW etag \in Etags \cup {Nil}, NEW c \in ClaimMap
    PROVE  IsDocument(SetStatus(d, n, s, etag, c))
BY Reg!SetStatusType, SameAssumptions, SameSets, SameHelpers, SameSetStatus

LEMMA ReleaseType ==
    ASSUME NEW d, IsDocument(d), NEW n \in Overlays
    PROVE  IsDocument(ReleaseOverlay(d, n))
BY Reg!ReleaseType, SameAssumptions, SameSets, SameCallbacks

\* d2 differs from d in the entry of n only.
OnlyEntry(d, d2, n) ==
    /\ DOMAIN d2.overlays = DOMAIN d.overlays
    /\ \A m \in DOMAIN d.overlays : m # n => d2.overlays[m] = d.overlays[m]

LEMMA WithEntryOnly ==
    ASSUME NEW d, NEW n \in DOMAIN d.overlays, NEW e
    PROVE  /\ OnlyEntry(d, WithEntry(d, n, e), n)
           /\ WithEntry(d, n, e).overlays[n] = e
BY Reg!WithEntryOnly, SameAssumptions, SameSets, SameHelpers DEF Reg!OnlyEntry, OnlyEntry

LEMMA FlipIs ==
    ASSUME NEW d, IsDocument(d), NEW n \in DOMAIN d.overlays, NEW etag
    PROVE  LET d2 == Flip(d, n, etag)
           IN  /\ OnlyEntry(d, d2, n)
               /\ d2.overlays[n].claims = d.overlays[n].claims
               /\ d2.overlays[n].run = d.overlays[n].run
               /\ d2.overlays[n].status = "active"
BY Reg!FlipIs, SameAssumptions, SameSets, SameCallbacks, SameFlip DEF Reg!OnlyEntry, OnlyEntry

LEMMA SetStatusIs ==
    ASSUME NEW d, IsDocument(d), NEW n \in DOMAIN d.overlays, NEW s, NEW etag, NEW c \in ClaimMap
    PROVE  LET d2 == SetStatus(d, n, s, etag, c)
           IN  /\ OnlyEntry(d, d2, n)
               /\ d2.overlays[n].claims = MergeClaims(d.overlays[n].claims, c)
               /\ d2.overlays[n].run = d.overlays[n].run
               /\ d2.overlays[n].status = s
BY Reg!SetStatusIs, SameAssumptions, SameSets, SameHelpers, SameSetStatus DEF Reg!OnlyEntry, OnlyEntry

LEMMA AcquireIs ==
    ASSUME NEW d, IsDocument(d), NEW n \in DOMAIN d.overlays, NEW w \in ClaimMap, NEW r
    PROVE  LET d2 == AcquireClaims(d, n, w, r)
           IN  /\ OnlyEntry(d, d2, n)
               /\ d2.overlays[n].claims = MergeClaims(d.overlays[n].claims, w)
               /\ d2.overlays[n].run = r
               /\ d2.overlays[n].status = "applying"
BY Reg!AcquireIs, SameAssumptions, SameSets, SameHelpers, SameAcquire DEF Reg!OnlyEntry, OnlyEntry

LEMMA FinishIs ==
    ASSUME NEW d, IsDocument(d), NEW n \in DOMAIN d.overlays, NEW ok,
           NEW l \in ClaimMap, NEW gone
    PROVE  LET d2 == FinishApply(d, n, ok, l, gone)
           IN  /\ OnlyEntry(d, d2, n)
               /\ d2.overlays[n].run = Nil
               /\ d2.overlays[n].status # "applying"
               /\ ok => d2.overlays[n].status = "active"
<1> DEFINE d2 == Reg!FinishApply(d, n, ok, l, gone)
<1>1. Reg!IsDocument(d) /\ l \in Reg!ClaimMap
  BY SameSets
<1>2. /\ Reg!OnlyEntry(d, d2, n)
      /\ d2.overlays[n].run = Nil
      /\ d2.overlays[n].status # "applying"
      /\ ok => d2.overlays[n].status = "active"
  BY <1>1, Reg!FinishIs, SameAssumptions
<1>3. d2 = FinishApply(d, n, ok, l, gone)
  BY SameFinish
<1> HIDE DEF d2
<1>4. OnlyEntry(d, d2, n)
  BY <1>2 DEF Reg!OnlyEntry, OnlyEntry
<1>5. QED  BY <1>2, <1>3, <1>4

LEMMA RegisterIs ==
    ASSUME NEW d, NEW n, n \notin DOMAIN d.overlays
    PROVE  LET d2 == RegisterCreating(d, n)
           IN  /\ DOMAIN d2.overlays = DOMAIN d.overlays \cup {n}
               /\ \A m \in DOMAIN d.overlays : d2.overlays[m] = d.overlays[m]
               /\ d2.overlays[n].run = Nil
               /\ d2.overlays[n].status = "creating"
BY Reg!RegisterIs, SameAssumptions, SameSets, SameCallbacks

LEMMA ReleaseIs ==
    ASSUME NEW d, NEW n
    PROVE  LET d2 == ReleaseOverlay(d, n)
           IN  /\ DOMAIN d2.overlays = DOMAIN d.overlays \ {n}
               /\ \A m \in DOMAIN d2.overlays : d2.overlays[m] = d.overlays[m]
BY Reg!ReleaseIs, SameAssumptions, SameSets, SameCallbacks

------------------------------------------------------------------------------
(* Instances and claims. *)

LEMMA InstancesAre ==
    ASSUME NEW f
    PROVE  f \in Instances <=> /\ f = [a \in DOMAIN f |-> f[a]] /\ DOMAIN f \subseteq Addresses
                               /\ \A a \in DOMAIN f : f[a] \in Ids
BY DEF Instances

LEMMA NothingIsInstances == << >> \in Instances /\ DOMAIN << >> = {} /\ ObjectsOf(<< >>) = {}
<1>1. << >> \in Instances /\ DOMAIN << >> = {}
  BY DEF Instances
<1>2. QED  BY <1>1 DEF ObjectsOf

LEMMA RestrictedIs ==
    ASSUME NEW own \in Instances, NEW S \in SUBSET DOMAIN own
    PROVE  /\ Restrict(own, S) \in Instances /\ DOMAIN Restrict(own, S) = S
           /\ \A a \in S : Restrict(own, S)[a] = own[a]
<1>1. DOMAIN Restrict(own, S) = S /\ \A a \in S : Restrict(own, S)[a] = own[a]
  BY DEF Restrict
<1>2. Restrict(own, S) \in [S -> Ids] /\ S \in SUBSET Addresses
  BY InstancesAre DEF Restrict
<1>3. QED  BY <1>1, <1>2 DEF Instances

LEMMA ObjectsAre ==
    ASSUME NEW own \in Instances
    PROVE  /\ ObjectsOf(own) \subseteq Addresses \X Ids
           /\ \A k : k \in ObjectsOf(own) <=> \E a \in DOMAIN own : k = <<a, own[a]>>
BY InstancesAre DEF ObjectsOf

LEMMA RefreshedClaimsAre ==
    ASSUME NEW c \in ClaimMap, NEW o \in StateObject
    PROVE  /\ ClaimsFromState(c, o) \in ClaimMap /\ DOMAIN ClaimsFromState(c, o) = DOMAIN c
           /\ \A a \in DOMAIN c :
                 /\ ClaimsFromState(c, o)[a].kind = c[a].kind
                 /\ ClaimsFromState(c, o)[a].id = IF c[a].kind = "create" /\ a \in DOMAIN o.own
                                                  THEN o.own[a] ELSE c[a].id
<1> DEFINE r == ClaimsFromState(c, o)
<1>1. o.own \in Instances
  BY DEF StateObject
<1>2. DOMAIN r = DOMAIN c
  BY DEF ClaimsFromState
<1>3. ASSUME NEW a \in DOMAIN c
      PROVE  /\ r[a] \in Claim /\ r[a].kind = c[a].kind
             /\ r[a].id = IF c[a].kind = "create" /\ a \in DOMAIN o.own THEN o.own[a] ELSE c[a].id
  <2>1. c[a] \in Claim
    BY DEF ClaimMap
  <2>2. CASE c[a].kind = "create" /\ a \in DOMAIN o.own
    <3>1. r[a] = [c[a] EXCEPT !.id = o.own[a]] /\ o.own[a] \in Ids
      BY <1>1, <2>2, InstancesAre DEF ClaimsFromState
    <3>2. QED  BY <2>1, <2>2, <3>1 DEF Claim
  <2>3. CASE ~(c[a].kind = "create" /\ a \in DOMAIN o.own)
    <3>1. r[a] = c[a]
      BY <2>3 DEF ClaimsFromState
    <3>2. QED  BY <2>1, <2>3, <3>1
  <2>4. QED  BY <2>2, <2>3
<1>4. r \in [DOMAIN c -> Claim] /\ DOMAIN c \in SUBSET Addresses
  BY <1>3 DEF ClaimsFromState, ClaimMap
<1> HIDE DEF r
<1>5. r \in ClaimMap
  BY <1>4, ClaimMapIs
<1>6. QED  BY <1>2, <1>3, <1>5 DEF r

LEMMA PlannedClaimsAre ==
    ASSUME NEW e \in Entry, NEW created \in SUBSET Addresses, NEW deleted
    PROVE  /\ PlannedClaims(e, created, deleted) \in ClaimMap
           /\ DOMAIN PlannedClaims(e, created, deleted) = (DOMAIN e.claims \ deleted) \cup created
<1>1. e.claims \in ClaimMap
  BY DEF Entry
<1>2. NewClaim \in Claim
  BY LifecycleAssumption DEF NewClaim, Claim
<1>3. [a \in created |-> NewClaim] \in ClaimMap /\ DOMAIN [a \in created |-> NewClaim] = created
  BY <1>2, ClaimMapIs
<1>4. /\ Restrict(e.claims, DOMAIN e.claims \ deleted) \in ClaimMap
      /\ DOMAIN Restrict(e.claims, DOMAIN e.claims \ deleted) = DOMAIN e.claims \ deleted
  BY <1>1, RestrictIs
<1>5. QED  BY <1>3, <1>4, MergeClaimsIs DEF PlannedClaims

------------------------------------------------------------------------------
(***************************************************************************)
(* Types.  The locals of a command have a value once a step has set them.  *)
(***************************************************************************)

Resting == {"idle", "returned", "stopped"}

Cmds == {"create", "apply", "rebase", "merge", "undo", "abandon", "abandon keep", "finalize"}

Pcs == Resting \cup
    {"loaded", "registered", "pulled", "pushed", "read back", "planned", "acquired", "applying",
     "applied", "refreshed", "read", "verified", "unlinked", "checked", "removed", "emptied",
     "destroyed", "archived"}

Locals ==
    [cmd: Cmds \cup {Nil}, pc: Pcs, entry: Entry \cup {Nil}, recorded: Procs \cup {Nil},
     etag: Etags \cup {Nil}, object: StateObject \cup {Nil}, base: BaseState \cup {Nil},
     claims: ClaimMap, released: SUBSET Addresses, want: SUBSET Addresses,
     replaced: SUBSET Addresses, ok: BOOLEAN]

LocalsFit(me) ==
    /\ me.cmd = "create" => me.etag \in Etags
    /\ me.cmd = "create" /\ me.pc = "pulled" => me.base \in BaseState
    /\ me.cmd \in Cmds \ {"create"} => me.entry \in Entry
    /\ me.cmd = "apply" /\ me.pc \in {"planned", "acquired", "applying"}
          => me.object \in StateObject
    /\ me.cmd = "rebase" /\ me.pc \in {"read", "pulled", "pushed"}
          => me.object \in StateObject /\ me.etag \in Etags
    /\ me.cmd = "rebase" /\ me.pc = "pulled" => me.base \in BaseState
    /\ me.cmd = "abandon" /\ me.pc \in {"checked", "planned"} => me.object \in StateObject

StateTyped ==
    /\ object \in StateObject \cup {Nil}
    /\ lock \in Procs \cup {Nil}
    /\ base \in BaseState /\ base.version \in Etags
    /\ cloud \subseteq Addresses \X Ids /\ kept \subseteq Addresses \X Ids
    /\ imports \in Instances \cup {Nil}

Typed ==
    /\ IsDocument(doc) /\ expired \subseteq Runs /\ lineage \in Procs \cup {Nil}
    /\ StateTyped
    /\ proc \in [Procs -> Locals]
    /\ \A p \in Running : LocalsFit(proc[p])

LEMMA IdleIs == Idle \in Locals /\ Idle.pc = "idle" /\ Idle.claims = << >>
<1> DEFINE none == << >>
<1>1. none \in ClaimMap
  BY EmptyIsClaims
<1>2. Idle.claims = none /\ Idle.pc = "idle" /\ "idle" \in Pcs
  BY DEF Idle, Pcs, Resting
<1>3. Idle = [cmd |-> Nil, pc |-> "idle", entry |-> Nil, recorded |-> Nil, etag |-> Nil,
              object |-> Nil, base |-> Nil, claims |-> none, released |-> {}, want |-> {},
              replaced |-> {}, ok |-> FALSE]
  BY DEF Idle
<1> HIDE DEF none
<1>4. Idle \in Locals
  BY <1>1, <1>2, <1>3 DEF Locals
<1>5. QED  BY <1>2, <1>4 DEF none

LEMMA EndedIs ==
    ASSUME NEW pc \in Pcs
    PROVE  Ended(pc) \in Locals /\ Ended(pc).pc = pc /\ Ended(pc).claims = << >>
BY IdleIs DEF Ended, Locals

LEMMA InitTyped == Init => Typed
<1> SUFFICES ASSUME Init  PROVE Typed
  OBVIOUS
<1>1. IsDocument(doc) /\ expired \subseteq Runs /\ lineage \in Procs \cup {Nil}
  BY DEF Init, EmptyDoc, IsDocument
<1>2. StateTyped
  BY LifecycleAssumption, NothingIsInstances DEF Init, StateTyped, BaseState
<1>3. proc \in [Procs -> Locals] /\ Running = {}
  BY IdleIs DEF Init, Running
<1>4. QED  BY <1>1, <1>2, <1>3 DEF Typed

\* A step of p is typed if what it writes and its locals are.
LEMMA StepTyped ==
    ASSUME Typed, NEW p \in Procs, NEW m \in Locals, proc' = [proc EXCEPT ![p] = m],
           m.pc \notin Resting => LocalsFit(m),
           IsDocument(doc'), expired' \subseteq Runs, lineage' \in Procs \cup {Nil}, StateTyped'
    PROVE  Typed'
<1>1. proc' \in [Procs -> Locals] /\ proc'[p] = m /\ \A q \in Procs \ {p} : proc'[q] = proc[q]
  BY DEF Typed
<1>2. ASSUME NEW q \in Procs, q \in Running'  PROVE LocalsFit(proc'[q])
  <2>1. CASE q = p
    BY <1>1, <1>2, <2>1 DEF Running, Resting
  <2>2. CASE q # p
    BY <1>1, <1>2, <2>2 DEF Running, Typed
  <2>3. QED  BY <2>1, <2>2
<1>3. \A q \in Running' : q \in Procs
  BY DEF Running
<1>4. IsDocument(doc)' /\ (\A q \in Running : LocalsFit(proc[q]))'
  BY <1>2, <1>3
<1>5. QED  BY <1>1, <1>4 DEF Typed

\* Most steps write neither the registry nor a state.
LEMMA LocalStepTyped ==
    ASSUME Typed, NEW p \in Procs, NEW m \in Locals, proc' = [proc EXCEPT ![p] = m],
           m.pc \notin Resting => LocalsFit(m), UNCHANGED <<registry, state, world>>
    PROVE  Typed'
<1>1. IsDocument(doc') /\ expired' \subseteq Runs /\ lineage' \in Procs \cup {Nil} /\ StateTyped'
  BY DEF Typed, StateTyped, registry, state, world
<1>2. QED  BY <1>1, StepTyped

\* The locals of a command under way.
LEMMA UnderWay ==
    ASSUME Typed, NEW p \in Procs, NEW cmd, NEW pc \in Pcs \ Resting, At(p, cmd, pc)
    PROVE  proc[p] \in Locals /\ LocalsFit(proc[p]) /\ proc[p].cmd = cmd /\ proc[p].pc = pc
BY DEF Typed, At, Running, Resting

\* What the steps of a command write into its locals.
LEMMA GotoIs ==
    ASSUME Typed, NEW p \in Procs, NEW pc \in Pcs, Goto(p, pc)
    PROVE  \E m \in Locals :
              /\ proc' = [proc EXCEPT ![p] = m] /\ m.pc = pc
              /\ m.cmd = proc[p].cmd /\ m.entry = proc[p].entry /\ m.etag = proc[p].etag
              /\ m.object = proc[p].object /\ m.base = proc[p].base
              /\ m.claims = proc[p].claims /\ m.recorded = proc[p].recorded
<1> DEFINE m == [proc[p] EXCEPT !.pc = pc]
<1>1. proc[p] \in Locals
  BY DEF Typed
<1>2. /\ m \in Locals /\ m.pc = pc
      /\ m.cmd = proc[p].cmd /\ m.entry = proc[p].entry /\ m.etag = proc[p].etag
      /\ m.object = proc[p].object /\ m.base = proc[p].base
      /\ m.claims = proc[p].claims /\ m.recorded = proc[p].recorded
  BY <1>1 DEF Locals
<1>3. proc' = [proc EXCEPT ![p] = m]
  BY DEF Goto
<1>4. QED  BY <1>2, <1>3

\* Going on needs what the next step is to find in the locals.
LEMMA GotoTyped ==
    ASSUME Typed, NEW p \in Procs, NEW cmd \in Cmds, NEW old \in Pcs \ Resting, NEW pc \in Pcs,
           At(p, cmd, old), Goto(p, pc),
           cmd = "create" => pc # "pulled",
           cmd = "apply" /\ pc \in {"planned", "acquired", "applying"} =>
              old \in {"planned", "acquired", "applying"},
           cmd = "rebase" => old \in {"read", "pulled", "pushed"} /\ pc = "pushed",
           cmd = "abandon" => pc \notin {"checked", "planned"},
           IsDocument(doc'), expired' \subseteq Runs, lineage' \in Procs \cup {Nil}, StateTyped'
    PROVE  Typed'
<1>1. /\ LocalsFit(proc[p]) /\ proc[p].cmd = cmd /\ proc[p].pc = old
  BY UnderWay
<1>2. PICK m \in Locals :
         /\ proc' = [proc EXCEPT ![p] = m] /\ m.pc = pc
         /\ m.cmd = proc[p].cmd /\ m.entry = proc[p].entry /\ m.etag = proc[p].etag
         /\ m.object = proc[p].object /\ m.base = proc[p].base
  BY GotoIs
<1>3. LocalsFit(m)
  BY <1>1, <1>2 DEF LocalsFit
<1>4. QED  BY <1>2, <1>3, StepTyped

LEMMA StopTyped == ASSUME Typed, NEW p \in Procs, Stop(p)  PROVE Typed'
<1>1. Ended("stopped") \in Locals /\ Ended("stopped").pc = "stopped"
  BY EndedIs DEF Pcs, Resting
<1>2. StateTyped'
  BY DEF Stop, Typed, StateTyped, world
<1>3. QED  BY <1>1, <1>2, StepTyped DEF Stop, Typed, registry, Resting

LEMMA CreateTyped == ASSUME Typed, NEW p \in Procs, Create(p)  PROVE Typed'
<1>1. CASE CreateLoad(p)
  <2> DEFINE e == IF Entered THEN TheEntry ELSE Nil
             m == [Idle EXCEPT !.cmd = "create", !.pc = "loaded", !.etag = base.version, !.entry = e]
  <2>1. proc' = [proc EXCEPT ![p] = m]
    BY <1>1 DEF CreateLoad, Begin
  <2>2. e \in Entry \cup {Nil} /\ base.version \in Etags
    BY DEF Typed, StateTyped, IsDocument, Entered, Registered, TheEntry
  <2> HIDE DEF e
  <2>3. m \in Locals /\ m.cmd = "create" /\ m.pc = "loaded" /\ m.etag = base.version
    BY <2>2, IdleIs DEF Locals, Cmds, Pcs
  <2>4. LocalsFit(m)
    BY <2>2, <2>3 DEF LocalsFit, Cmds
  <2>5. QED  BY <1>1, <2>1, <2>3, <2>4, LocalStepTyped DEF CreateLoad
<1>2. CASE CreateRegister(p)
  <2> DEFINE m == [proc[p] EXCEPT !.pc = "registered", !.recorded = lineage]
  <2>1. proc' = [proc EXCEPT ![p] = m]
    BY <1>2 DEF CreateRegister
  <2>2. proc[p] \in Locals /\ LocalsFit(proc[p]) /\ proc[p].cmd = "create"
        /\ lineage \in Procs \cup {Nil}
    BY <1>2, UnderWay DEF CreateRegister, Pcs, Resting, Typed
  <2>3. m \in Locals /\ m.cmd = "create" /\ m.pc = "registered" /\ m.etag = proc[p].etag
    <3>1. "registered" \in Pcs
      BY DEF Pcs
    <3>2. QED  BY <2>2, <3>1 DEF Locals
  <2>4. LocalsFit(m)
    BY <2>2, <2>3 DEF LocalsFit, Cmds
  <2>5. IsDocument(doc')
    BY <1>2, RegisterType, LifecycleAssumption DEF CreateRegister, Typed
  <2>6. StateTyped'
    BY <1>2 DEF CreateRegister, Typed, StateTyped, state, world
  <2>7. QED  BY <1>2, <2>1, <2>3, <2>4, <2>5, <2>6, StepTyped DEF CreateRegister, Typed
<1>3. CASE CreatePull(p)
  <2> DEFINE m == [proc[p] EXCEPT !.pc = "pulled", !.base = base]
  <2>1. proc' = [proc EXCEPT ![p] = m]
    BY <1>3 DEF CreatePull
  <2>2. proc[p] \in Locals /\ LocalsFit(proc[p]) /\ proc[p].cmd = "create" /\ base \in BaseState
    BY <1>3, UnderWay DEF CreatePull, Pcs, Resting, Typed, StateTyped
  <2>3. m \in Locals /\ m.cmd = "create" /\ m.etag = proc[p].etag /\ m.base = base
    <3>1. "pulled" \in Pcs
      BY DEF Pcs
    <3>2. QED  BY <2>2, <3>1 DEF Locals
  <2>4. LocalsFit(m)
    BY <2>2, <2>3 DEF LocalsFit, Cmds
  <2>5. QED  BY <1>3, <2>1, <2>3, <2>4, LocalStepTyped DEF CreatePull
<1>4. CASE CreatePush(p)
  <2>1. PICK pc \in {"read back", "pushed"} : Goto(p, pc)
    BY <1>4 DEF CreatePush
  <2>2. proc[p] \in Locals /\ LocalsFit(proc[p]) /\ proc[p].cmd = "create"
        /\ proc[p].base \in BaseState
    BY <1>4, UnderWay DEF CreatePush, LocalsFit, Pcs, Resting
  <2>3. Forked(p, proc[p].base) \in StateObject
    BY <2>2, NothingIsInstances DEF Forked, StateObject
  <2>4. StateTyped'
    BY <1>4, <2>3 DEF CreatePush, Typed, StateTyped, world
  <2>5. pc \in Pcs /\ "pulled" \in Pcs \ Resting /\ pc # "pulled" /\ "create" \in Cmds
    BY DEF Pcs, Resting, Cmds
  <2>6. QED  BY <1>4, <2>1, <2>4, <2>5, GotoTyped DEF CreatePush, Typed, registry
<1>5. CASE CreateReadBack(p)
  <2> DEFINE m == [proc[p] EXCEPT !.pc = "read back", !.recorded = object.lineage]
  <2>1. proc' = [proc EXCEPT ![p] = m]
    BY <1>5 DEF CreateReadBack
  <2>2. proc[p] \in Locals /\ LocalsFit(proc[p]) /\ proc[p].cmd = "create"
        /\ object.lineage \in Procs
    BY <1>5, UnderWay DEF CreateReadBack, Pcs, Resting, Typed, StateTyped, StateObject
  <2>3. m \in Locals /\ m.cmd = "create" /\ m.pc = "read back" /\ m.etag = proc[p].etag
    <3>1. "read back" \in Pcs
      BY DEF Pcs
    <3>2. QED  BY <2>2, <3>1 DEF Locals
  <2>4. LocalsFit(m)
    BY <2>2, <2>3 DEF LocalsFit, Cmds
  <2>5. QED  BY <1>5, <2>1, <2>3, <2>4, LocalStepTyped DEF CreateReadBack
<1>6. CASE CreateFlip(p)
  <2>1. proc[p].etag \in Etags /\ proc[p].recorded \in Procs \cup {Nil}
    BY <1>6, UnderWay DEF CreateFlip, Locals, LocalsFit, Pcs, Resting
  <2>2. IsDocument(doc')
    BY <1>6, <2>1, FlipType, LifecycleAssumption DEF CreateFlip, Typed
  <2>3. Ended("returned") \in Locals /\ Ended("returned").pc = "returned"
    BY EndedIs DEF Pcs, Resting
  <2>4. StateTyped'
    BY <1>6 DEF CreateFlip, Typed, StateTyped, state, world
  <2>5. QED  BY <1>6, <2>1, <2>2, <2>3, <2>4, StepTyped DEF CreateFlip, Return, Typed, Resting
<1>7. QED  BY <1>1, <1>2, <1>3, <1>4, <1>5, <1>6 DEF Create

LEMMA EnteredIs == ASSUME Typed, Entered  PROVE TheEntry \in Entry /\ Me \in DOMAIN doc.overlays
BY DEF Typed, IsDocument, Entered, Registered, TheEntry

\* A command other than create that begins on an entry.
LEMMA BeginTyped ==
    ASSUME Typed, NEW p \in Procs, NEW cmd \in Cmds \ {"create"}, Entered,
           BeginLoaded(p, cmd, "loaded"), UNCHANGED <<registry, state, world>>
    PROVE  Typed'
<1> DEFINE m == [Idle EXCEPT !.cmd = cmd, !.pc = "loaded", !.entry = TheEntry,
                             !.recorded = lineage]
<1>1. proc' = [proc EXCEPT ![p] = m]
  BY DEF BeginLoaded, Begin
<1>2. TheEntry \in Entry /\ lineage \in Procs \cup {Nil} /\ cmd \in Cmds
      /\ "loaded" \in Pcs
  BY EnteredIs DEF Typed, Pcs
<1>3. m \in Locals /\ m.cmd = cmd /\ m.pc = "loaded" /\ m.entry = TheEntry
  BY <1>2, IdleIs DEF Locals
<1>4. LocalsFit(m)
  BY <1>2, <1>3 DEF LocalsFit, Cmds
<1>5. QED  BY <1>1, <1>3, <1>4, LocalStepTyped

LEMMA GateOpens == ASSUME NEW S, Gate(S)  PROVE Entered
BY DEF Gate

LEMMA ReturnTyped ==
    ASSUME Typed, NEW p \in Procs, Return(p),
           IsDocument(doc'), expired' \subseteq Runs, lineage' \in Procs \cup {Nil}, StateTyped'
    PROVE  Typed'
<1>1. Ended("returned") \in Locals /\ Ended("returned").pc = "returned"
  BY EndedIs DEF Pcs, Resting
<1>2. QED  BY <1>1, StepTyped DEF Return, Resting

LEMMA ApplyPlanTyped == ASSUME Typed, NEW p \in Procs, ApplyPlan(p)  PROVE Typed'
<1>1. PICK want \in SUBSET Addresses, replaced \in SUBSET DOMAIN object.own :
         LET created == (want \ DOMAIN object.own) \cup replaced
             deleted == DOMAIN object.own \ want
         IN  /\ replaced \subseteq want
             /\ proc' = [proc EXCEPT
                   ![p].pc = "planned", ![p].object = object,
                   ![p].want = want, ![p].replaced = replaced,
                   ![p].claims = PlannedClaims(TheEntry, created, deleted)]
  BY DEF ApplyPlan
<1> DEFINE created == (want \ DOMAIN object.own) \cup replaced
           deleted == DOMAIN object.own \ want
           claims == PlannedClaims(TheEntry, created, deleted)
           m == [proc[p] EXCEPT !.pc = "planned", !.object = object, !.want = want,
                                !.replaced = replaced, !.claims = claims]
<1>2. proc' = [proc EXCEPT ![p] = m]
  BY <1>1
<1>3. created \in SUBSET Addresses /\ replaced \in SUBSET Addresses
  BY <1>1
<1>4. claims \in ClaimMap
  BY <1>3, PlannedClaimsAre, EnteredIs, GateOpens DEF ApplyPlan
<1>5. /\ proc[p] \in Locals /\ LocalsFit(proc[p]) /\ proc[p].cmd = "apply"
      /\ object \in StateObject
  BY UnderWay DEF ApplyPlan, Pcs, Resting, Typed, StateTyped, Valid
<1> HIDE DEF created, deleted, claims
<1>6. m \in Locals /\ m.cmd = "apply" /\ m.pc = "planned" /\ m.entry = proc[p].entry
      /\ m.object = object
  <2>1. "planned" \in Pcs
    BY DEF Pcs
  <2>2. QED  BY <1>3, <1>4, <1>5, <2>1 DEF Locals
<1>7. LocalsFit(m)
  BY <1>5, <1>6 DEF LocalsFit, Cmds
<1>8. QED  BY <1>2, <1>6, <1>7, LocalStepTyped DEF ApplyPlan

LEMMA ApplyAcquireTyped == ASSUME Typed, NEW p \in Procs, ApplyAcquire(p)  PROVE Typed'
<1> DEFINE gone == DOMAIN proc[p].entry.claims \ DOMAIN proc[p].claims
           got == doc'.overlays[Me].claims
           claims == Restrict(got, DOMAIN got \ gone)
           m == [proc[p] EXCEPT !.pc = "acquired", !.released = gone, !.claims = claims]
<1>1. proc' = [proc EXCEPT ![p] = m]
  BY DEF ApplyAcquire
<1>2. /\ proc[p] \in Locals /\ LocalsFit(proc[p]) /\ proc[p].cmd = "apply"
      /\ proc[p].object \in StateObject /\ proc[p].entry \in Entry /\ proc[p].claims \in ClaimMap
  <2>1. proc[p] \in Locals /\ LocalsFit(proc[p]) /\ proc[p].cmd = "apply" /\ proc[p].pc = "planned"
    BY UnderWay DEF ApplyAcquire, Pcs, Resting
  <2>2. proc[p].claims \in ClaimMap
    BY <2>1 DEF Locals
  <2>3. QED  BY <2>1, <2>2 DEF LocalsFit, Cmds
<1>3. Me \in DOMAIN doc.overlays /\ IsDocument(doc)
  BY DEF ApplyAcquire, AcquireRefused, Registered, Typed
<1>4. IsDocument(doc') /\ doc'.overlays[Me] \in Entry
  <2>1. IsDocument(doc')
    BY <1>2, <1>3, AcquireType, LifecycleAssumption DEF ApplyAcquire
  <2>2. Me \in DOMAIN doc'.overlays
    BY <1>2, <1>3, AcquireIs DEF ApplyAcquire, OnlyEntry
  <2>3. QED  BY <2>1, <2>2 DEF IsDocument
<1>5. claims \in ClaimMap /\ gone \in SUBSET Addresses
  <2>1. got \in ClaimMap /\ proc[p].entry.claims \in ClaimMap
    BY <1>2, <1>4 DEF Entry
  <2>2. claims \in ClaimMap
    BY <2>1, RestrictIs
  <2>3. DOMAIN proc[p].entry.claims \subseteq Addresses
    BY <2>1 DEF ClaimMap
  <2>4. QED  BY <2>2, <2>3
<1> HIDE DEF gone, claims
<1>6. m \in Locals /\ m.cmd = "apply" /\ m.pc = "acquired" /\ m.entry = proc[p].entry
      /\ m.object = proc[p].object
  <2>1. "acquired" \in Pcs
    BY DEF Pcs
  <2>2. QED  BY <1>2, <1>5, <2>1 DEF Locals
<1>7. LocalsFit(m)
  BY <1>2, <1>6 DEF LocalsFit, Cmds
<1>8. StateTyped'
  BY DEF ApplyAcquire, Typed, StateTyped, state, world
<1>9. expired' \subseteq Runs /\ lineage' \in Procs \cup {Nil}
  BY DEF ApplyAcquire, Typed
<1>10. IsDocument(doc')
  BY <1>4
<1> HIDE DEF m
<1>11. QED  BY <1>1, <1>6, <1>7, <1>8, <1>9, <1>10, StepTyped

\* A state with other instances, as tofu writes it.
LEMMA WrittenIs ==
    ASSUME NEW o \in StateObject, NEW own \in Instances
    PROVE  LET w == [o EXCEPT !.own = own, !.serial = @ + 1]
           IN  /\ w \in StateObject /\ w.own = own /\ w.base = o.base /\ w.lineage = o.lineage
               /\ w.serial = o.serial + 1
<1> DEFINE n == o.serial + 1
           w == [o EXCEPT !.own = own, !.serial = n]
<1>1. n \in Nat
  BY DEF StateObject
<1> HIDE DEF n
<1>2. /\ w \in StateObject /\ w.own = own /\ w.base = o.base /\ w.lineage = o.lineage
      /\ w.serial = n
  BY <1>1 DEF StateObject
<1>3. [o EXCEPT !.own = own, !.serial = @ + 1] = w
  BY DEF StateObject, n
<1>4. QED  BY <1>2, <1>3 DEF n

LEMMA AfterIs ==
    ASSUME NEW p \in Procs, NEW some \in SUBSET Addresses, proc[p].object.own \in Instances,
           proc[p].want \in SUBSET Addresses
    PROVE  LET own == proc[p].object.own
           IN  /\ After(p, some) \in Instances
               /\ DOMAIN After(p, some) = (DOMAIN own \ some) \cup (some \cap proc[p].want)
               /\ \A a \in DOMAIN After(p, some) :
                     After(p, some)[a] = IF a \in some THEN p ELSE own[a]
<1> DEFINE own == proc[p].object.own
           D == (DOMAIN own \ some) \cup (some \cap proc[p].want)
<1>1. After(p, some) = [a \in D |-> IF a \in some THEN p ELSE own[a]]
  BY DEF After
<1>2. /\ DOMAIN own \subseteq Addresses /\ \A a \in DOMAIN own : own[a] \in Ids
      /\ p \in Ids
  BY InstancesAre, LifecycleAssumption
<1>3. D \in SUBSET Addresses /\ \A a \in D \ some : a \in DOMAIN own
  BY <1>2
<1>4. DOMAIN After(p, some) = D
  BY <1>1
<1> HIDE DEF D, own
<1>5. After(p, some) \in [D -> Ids]
  BY <1>1, <1>2, <1>3
<1>6. After(p, some) \in Instances
  BY <1>3, <1>5 DEF Instances
<1>7. QED  BY <1>1, <1>4, <1>6 DEF D, own

LEMMA ApplyWriteTyped == ASSUME Typed, NEW p \in Procs, ApplyWrite(p)  PROVE Typed'
<1> DEFINE me == proc[p]
           own == me.object.own
<1>1. /\ me \in Locals /\ LocalsFit(me) /\ me.cmd = "apply"
      /\ me.object \in StateObject /\ me.entry \in Entry
  <2>1. me \in Locals /\ LocalsFit(me) /\ me.cmd = "apply" /\ me.pc = "applying"
    BY UnderWay DEF ApplyWrite, Pcs, Resting
  <2>2. QED  BY <2>1 DEF LocalsFit, Cmds
<1>2. own \in Instances /\ me.want \in SUBSET Addresses
  BY <1>1 DEF StateObject, Locals
<1>3. Changes(p) \subseteq Addresses
  BY <1>1, <1>2, InstancesAre DEF Changes, Locals
<1>4. PICK some \in SUBSET Changes(p) :
         /\ cloud' = (cloud \ ObjectsOf(Restrict(own, DOMAIN own \cap some)))
                        \cup ObjectsOf(Restrict(After(p, some), DOMAIN After(p, some) \cap some))
         /\ object' = [me.object EXCEPT !.own = After(p, some), !.serial = @ + 1]
         /\ proc' = [proc EXCEPT ![p].pc = "applied", ![p].ok = (some = Changes(p))]
  BY DEF ApplyWrite
<1>5. After(p, some) \in Instances
  <2>1. some \in SUBSET Addresses
    BY <1>3
  <2>2. QED  BY <1>2, <2>1, AfterIs
<1>6. object' \in StateObject
  BY <1>1, <1>4, <1>5, WrittenIs
<1>7. cloud' \subseteq Addresses \X Ids
  <2>1. Restrict(After(p, some), DOMAIN After(p, some) \cap some) \in Instances
    BY <1>5, RestrictedIs
  <2>2. QED  BY <1>4, <2>1, ObjectsAre DEF Typed, StateTyped
<1>8. StateTyped'
  BY <1>6, <1>7 DEF ApplyWrite, Typed, StateTyped
<1>9. PICK ok \in BOOLEAN : proc' = [proc EXCEPT ![p].pc = "applied", ![p].ok = ok]
  <2>1. CASE some = Changes(p)
    BY <1>4, <2>1
  <2>2. CASE some # Changes(p)
    BY <1>4, <2>2
  <2>3. QED  BY <2>1, <2>2
<1> DEFINE m == [me EXCEPT !.pc = "applied", !.ok = ok]
<1>10. "applied" \in Pcs
  BY DEF Pcs
<1>11. /\ proc' = [proc EXCEPT ![p] = m]
       /\ m \in Locals /\ m.cmd = "apply" /\ m.pc = "applied" /\ m.entry = me.entry
  BY <1>1, <1>9, <1>10 DEF Locals
<1>12. LocalsFit(m)
  BY <1>1, <1>11 DEF LocalsFit, Cmds
<1>13. QED  BY <1>8, <1>11, <1>12, StepTyped DEF ApplyWrite, Typed, registry

\* A step that writes neither the registry nor a state leaves them typed.
LEMMA KeepsTyped ==
    ASSUME Typed, UNCHANGED <<registry, state, world>>
    PROVE  /\ IsDocument(doc') /\ expired' \subseteq Runs /\ lineage' \in Procs \cup {Nil}
           /\ StateTyped'
BY DEF Typed, StateTyped, registry, state, world

LEMMA ApplyPullTyped == ASSUME Typed, NEW p \in Procs, ApplyPull(p)  PROVE Typed'
<1>1. /\ proc[p] \in Locals /\ LocalsFit(proc[p]) /\ proc[p].cmd = "apply"
      /\ proc[p].claims \in ClaimMap /\ proc[p].released \in SUBSET Addresses
  <2>1. proc[p] \in Locals /\ LocalsFit(proc[p]) /\ proc[p].cmd = "apply"
    BY UnderWay DEF ApplyPull, Pcs, Resting
  <2>2. QED  BY <2>1 DEF Locals
<1>2. ASSUME NEW claims \in ClaimMap, NEW released \in SUBSET Addresses,
             proc' = [proc EXCEPT ![p].pc = "refreshed", ![p].claims = claims,
                                  ![p].released = released]
      PROVE  Typed'
  <2> DEFINE m == [proc[p] EXCEPT !.pc = "refreshed", !.claims = claims, !.released = released]
  <2>1. proc' = [proc EXCEPT ![p] = m]
    BY <1>2
  <2>2. "refreshed" \in Pcs
    BY DEF Pcs
  <2>3. m \in Locals /\ m.cmd = "apply" /\ m.pc = "refreshed" /\ m.entry = proc[p].entry
    BY <1>1, <2>2 DEF Locals
  <2>4. LocalsFit(m)
    BY <1>1, <2>3 DEF LocalsFit, Cmds
  <2>5. QED  BY <2>1, <2>3, <2>4, LocalStepTyped DEF ApplyPull
<1>3. CASE /\ object # Nil
           /\ proc' = [proc EXCEPT
                 ![p].pc = "refreshed", ![p].claims = ClaimsFromState(@, object),
                 ![p].released = @ \ Present(object)]
  <2> DEFINE claims == ClaimsFromState(proc[p].claims, object)
             released == proc[p].released \ Present(object)
  <2>1. object \in StateObject
    BY <1>3 DEF Typed, StateTyped
  <2>2. claims \in ClaimMap /\ released \in SUBSET Addresses
    BY <1>1, <2>1, RefreshedClaimsAre
  <2>3. proc' = [proc EXCEPT ![p].pc = "refreshed", ![p].claims = claims,
                             ![p].released = released]
    BY <1>3 DEF Typed
  <2> HIDE DEF claims, released
  <2>4. QED  BY <1>2, <2>2, <2>3
<1>4. CASE proc' = [proc EXCEPT ![p].pc = "refreshed", ![p].released = {}]
  <2> DEFINE claims == proc[p].claims
             m == [proc[p] EXCEPT !.pc = "refreshed", !.released = {}]
  <2>1. proc' = [proc EXCEPT ![p] = m]
    BY <1>4
  <2>2. "refreshed" \in Pcs
    BY DEF Pcs
  <2>3. m \in Locals /\ m.cmd = "apply" /\ m.pc = "refreshed" /\ m.entry = proc[p].entry
    BY <1>1, <2>2 DEF Locals
  <2>4. LocalsFit(m)
    BY <1>1, <2>3 DEF LocalsFit, Cmds
  <2>5. QED  BY <2>1, <2>3, <2>4, LocalStepTyped DEF ApplyPull
<1>5. QED  BY <1>3, <1>4 DEF ApplyPull

LEMMA ApplyTyped == ASSUME Typed, NEW p \in Procs, Apply(p)  PROVE Typed'
<1> USE DEF Pcs, Resting, Cmds
<1>1. CASE ApplyLoad(p)
  BY <1>1, GateOpens, BeginTyped DEF ApplyLoad
<1>2. CASE ApplyPlan(p)
  BY <1>2, ApplyPlanTyped
<1>3. CASE ApplyNothing(p)
  BY <1>3, ReturnTyped, KeepsTyped DEF ApplyNothing
<1>4. CASE ApplyAcquire(p)
  BY <1>4, ApplyAcquireTyped
<1>5. CASE ApplyStart(p)
  <2>1. StateTyped'
    BY <1>5 DEF ApplyStart, Typed, StateTyped, world
  <2>2. QED  BY <1>5, <2>1, GotoTyped DEF ApplyStart, Typed, registry
<1>6. CASE ApplyFails(p)
  BY <1>6, GotoTyped, KeepsTyped DEF ApplyFails
<1>7. CASE ApplyWrite(p)
  BY <1>7, ApplyWriteTyped
<1>8. CASE ApplyPull(p)
  BY <1>8, ApplyPullTyped
<1>9. CASE ApplyFinish(p)
  <2>1. /\ Me \in DOMAIN doc.overlays /\ proc[p].ok \in BOOLEAN /\ proc[p].claims \in ClaimMap
        /\ IsDocument(doc)
    BY <1>9 DEF ApplyFinish, FinishRefused, Registered, Typed, Locals
  <2>2. IsDocument(doc')
    BY <1>9, <2>1, FinishType DEF ApplyFinish
  <2>3. StateTyped'
    BY <1>9 DEF ApplyFinish, Typed, StateTyped, state, world
  <2>4. PICK pc \in Resting : proc' = [proc EXCEPT ![p] = Ended(pc)]
    BY <1>9 DEF ApplyFinish
  <2>5. Ended(pc) \in Locals /\ Ended(pc).pc = pc
    BY EndedIs
  <2>6. QED  BY <1>9, <2>2, <2>3, <2>4, <2>5, StepTyped DEF ApplyFinish, Typed
<1>10. QED
  BY <1>1, <1>2, <1>3, <1>4, <1>5, <1>6, <1>7, <1>8, <1>9 DEF Apply

LEMMA RebuiltIs ==
    ASSUME NEW p \in Procs, proc[p].object \in StateObject, proc[p].base \in BaseState
    PROVE  LET own    == proc[p].object.own
               claims == Creates(proc[p].entry.claims)
           IN  /\ Rebuilt(p) \in StateObject
               /\ Rebuilt(p).base = proc[p].base /\ Rebuilt(p).lineage = proc[p].object.lineage
               /\ Rebuilt(p).own \in Instances
               /\ DOMAIN Rebuilt(p).own = DOMAIN own \cap claims
               /\ \A a \in DOMAIN own \cap claims : Rebuilt(p).own[a] = own[a]
<1> DEFINE o == proc[p].object
           b == proc[p].base
           S == DOMAIN o.own \cap Creates(proc[p].entry.claims)
           own == Restrict(o.own, S)
           n == IF o.serial > b.version THEN o.serial + 1 ELSE b.version + 1
<1>1. o.own \in Instances /\ o.lineage \in Procs /\ o.serial \in Nat /\ b.version \in Nat
  BY LifecycleAssumption DEF StateObject, BaseState
<1>2. n \in Nat
  BY <1>1
<1>3. own \in Instances /\ DOMAIN own = S /\ \A a \in S : own[a] = o.own[a]
  <2>1. S \in SUBSET DOMAIN o.own
    OBVIOUS
  <2> HIDE DEF S, o
  <2>2. QED  BY <1>1, <2>1, RestrictedIs
<1>4. Rebuilt(p) = [lineage |-> o.lineage, serial |-> n, base |-> b, own |-> own]
  BY DEF Rebuilt
<1> HIDE DEF n, own
<1>5. Rebuilt(p) \in StateObject
  BY <1>1, <1>2, <1>3, <1>4 DEF StateObject
<1>6. QED  BY <1>3, <1>4, <1>5

LEMMA RebaseTyped == ASSUME Typed, NEW p \in Procs, Rebase(p)  PROVE Typed'
<1>1. CASE RebaseLoad(p)
  <2>1. "rebase" \in Cmds \ {"create"}
    BY DEF Cmds
  <2>2. QED  BY <1>1, <2>1, GateOpens, BeginTyped DEF RebaseLoad
<1>2. CASE RebaseRead(p)
  <2> DEFINE m == [proc[p] EXCEPT !.pc = "read", !.etag = base.version, !.object = object]
  <2>1. proc' = [proc EXCEPT ![p] = m]
    BY <1>2 DEF RebaseRead
  <2>2. proc[p] \in Locals /\ LocalsFit(proc[p]) /\ proc[p].cmd = "rebase"
        /\ base.version \in Etags /\ object \in StateObject
    BY <1>2, UnderWay DEF RebaseRead, Pcs, Resting, Typed, StateTyped, Valid
  <2>3. "read" \in Pcs
    BY DEF Pcs
  <2>4. m \in Locals /\ m.cmd = "rebase" /\ m.pc = "read" /\ m.entry = proc[p].entry
        /\ m.object = object /\ m.etag = base.version
    BY <2>2, <2>3 DEF Locals
  <2>5. LocalsFit(m)
    BY <2>2, <2>4 DEF LocalsFit, Cmds
  <2>6. QED  BY <1>2, <2>1, <2>4, <2>5, LocalStepTyped DEF RebaseRead
<1>3. CASE RebasePull(p)
  <2> DEFINE m == [proc[p] EXCEPT !.pc = "pulled", !.base = base]
  <2>1. proc' = [proc EXCEPT ![p] = m]
    BY <1>3 DEF RebasePull
  <2>2. /\ proc[p] \in Locals /\ LocalsFit(proc[p]) /\ proc[p].cmd = "rebase"
        /\ proc[p].pc = "read" /\ base \in BaseState
    BY <1>3, UnderWay DEF RebasePull, Pcs, Resting, Typed, StateTyped
  <2>3. "pulled" \in Pcs
    BY DEF Pcs
  <2>4. m \in Locals /\ m.cmd = "rebase" /\ m.entry = proc[p].entry /\ m.base = base
        /\ m.object = proc[p].object /\ m.etag = proc[p].etag
    BY <2>2, <2>3 DEF Locals
  <2>5. LocalsFit(m)
    BY <2>2, <2>4 DEF LocalsFit, Cmds
  <2>6. QED  BY <1>3, <2>1, <2>4, <2>5, LocalStepTyped DEF RebasePull
<1>4. CASE RebasePush(p)
  <2>1. proc[p].object \in StateObject /\ proc[p].base \in BaseState
    BY <1>4, UnderWay DEF RebasePush, LocalsFit, Pcs, Resting
  <2>2. StateTyped'
    BY <1>4, <2>1, RebuiltIs DEF RebasePush, Typed, StateTyped, world
  <2>3. "pushed" \in Pcs /\ "pulled" \in Pcs \ Resting /\ "rebase" \in Cmds
    BY DEF Pcs, Resting, Cmds
  <2>4. QED  BY <1>4, <2>2, <2>3, GotoTyped DEF RebasePush, Typed, registry
<1>5. CASE RebaseRecord(p)
  <2>1. proc[p].etag \in Etags
    BY <1>5, UnderWay DEF RebaseRecord, LocalsFit, Pcs, Resting
  <2>2. << >> \in ClaimMap /\ "active" \in LiveStatuses
    BY EmptyIsClaims DEF LiveStatuses
  <2>3. IsDocument(doc')
    BY <1>5, <2>1, <2>2, SetStatusType, LifecycleAssumption
       DEF RebaseRecord, Unchanged, SetStatusRefused, Registered, Typed
  <2>4. StateTyped'
    BY <1>5 DEF RebaseRecord, Typed, StateTyped, state, world
  <2>5. QED  BY <1>5, <2>3, <2>4, ReturnTyped DEF RebaseRecord, Typed
<1>6. QED  BY <1>1, <1>2, <1>3, <1>4, <1>5 DEF Rebase

LEMMA ImportsAre ==
    ASSUME NEW c \in ClaimMap
    PROVE  /\ ImportsOf(c) \in Instances
           /\ DOMAIN ImportsOf(c) = {a \in Creates(c) : c[a].id # Nil}
           /\ \A a \in DOMAIN ImportsOf(c) : ImportsOf(c)[a] = c[a].id
<1> DEFINE S == {a \in Creates(c) : c[a].id # Nil}
<1>1. S \in SUBSET Addresses /\ \A a \in S : c[a].id \in Ids
  BY DEF Creates, ClaimMap, Claim
<1>2. ImportsOf(c) = [a \in S |-> c[a].id]
  BY DEF ImportsOf
<1> HIDE DEF S
<1>3. ImportsOf(c) \in [S -> Ids] /\ DOMAIN ImportsOf(c) = S
  BY <1>1, <1>2
<1>4. ImportsOf(c) \in Instances
  BY <1>1, <1>3 DEF Instances
<1>5. QED  BY <1>2, <1>3, <1>4 DEF S

LEMMA MergeTyped == ASSUME Typed, NEW p \in Procs, Merge(p)  PROVE Typed'
<1>1. CASE MergeLoad(p)
  <2>1. "merge" \in Cmds \ {"create"}
    BY DEF Cmds
  <2>2. QED  BY <1>1, <2>1, GateOpens, BeginTyped DEF MergeLoad
<1>2. CASE MergeRead(p)
  <2> DEFINE claims == ClaimsFromState(proc[p].entry.claims, object)
             m == [proc[p] EXCEPT !.pc = "refreshed", !.claims = claims]
  <2>1. proc' = [proc EXCEPT ![p] = m]
    BY <1>2 DEF MergeRead
  <2>2. /\ proc[p] \in Locals /\ LocalsFit(proc[p]) /\ proc[p].cmd = "merge"
        /\ proc[p].pc = "loaded" /\ object \in StateObject
    BY <1>2, UnderWay DEF MergeRead, Pcs, Resting, Typed, StateTyped, Valid
  <2>3. claims \in ClaimMap
    <3>1. proc[p].entry \in Entry
      BY <2>2 DEF LocalsFit, Cmds
    <3>2. proc[p].entry.claims \in ClaimMap
      BY <3>1 DEF Entry
    <3>3. QED  BY <2>2, <3>2, RefreshedClaimsAre
  <2>4. "refreshed" \in Pcs
    BY DEF Pcs
  <2> HIDE DEF claims
  <2>5. m \in Locals /\ m.cmd = "merge" /\ m.entry = proc[p].entry
    BY <2>2, <2>3, <2>4 DEF Locals
  <2>6. LocalsFit(m)
    BY <2>2, <2>5 DEF LocalsFit, Cmds
  <2>7. QED  BY <1>2, <2>1, <2>5, <2>6, LocalStepTyped DEF MergeRead
<1>3. CASE MergeVerify(p)
  <2>1. "verified" \in Pcs /\ "refreshed" \in Pcs \ Resting /\ "merge" \in Cmds
    BY DEF Pcs, Resting, Cmds
  <2>2. QED  BY <1>3, <2>1, GotoTyped, KeepsTyped DEF MergeVerify
<1>4. CASE MergeFreeze(p)
  <2>1. proc[p].claims \in ClaimMap
    BY <1>4, UnderWay DEF MergeFreeze, Locals, Pcs, Resting
  <2>2. TheEntry.etag \in Etags \cup {Nil} /\ Me \in DOMAIN doc.overlays
    BY <1>4, EnteredIs DEF MergeFreeze, Unchanged, SetStatusRefused, Entered, Entry
  <2>3. "merging" \in LiveStatuses
    BY DEF LiveStatuses
  <2>4. IsDocument(doc')
    BY <1>4, <2>1, <2>2, <2>3, SetStatusType DEF MergeFreeze, Typed
  <2>5. StateTyped'
    BY <1>4, <2>1, ImportsAre DEF MergeFreeze, Typed, StateTyped, state
  <2>6. QED  BY <1>4, <2>4, <2>5, ReturnTyped DEF MergeFreeze, Typed
<1>5. QED  BY <1>1, <1>2, <1>3, <1>4 DEF Merge

LEMMA UndoTyped == ASSUME Typed, NEW p \in Procs, Undo(p)  PROVE Typed'
<1>1. CASE UndoLoad(p)
  <2>1. "undo" \in Cmds \ {"create"}
    BY DEF Cmds
  <2>2. QED  BY <1>1, <2>1, BeginTyped DEF UndoLoad
<1>2. CASE UndoUnlink(p)
  <2>1. "unlinked" \in Pcs /\ "loaded" \in Pcs \ Resting /\ "undo" \in Cmds
    BY DEF Pcs, Resting, Cmds
  <2>2. StateTyped'
    BY <1>2 DEF UndoUnlink, Typed, StateTyped, state
  <2>3. QED  BY <1>2, <2>1, <2>2, GotoTyped DEF UndoUnlink, Typed, registry
<1>3. CASE UndoThaw(p)
  <2>1. TheEntry.etag \in Etags \cup {Nil} /\ Me \in DOMAIN doc.overlays
    BY <1>3, EnteredIs DEF UndoThaw, SetStatusRefused, Entered, Entry
  <2>2. "active" \in LiveStatuses /\ << >> \in ClaimMap
    BY EmptyIsClaims DEF LiveStatuses
  <2>3. IsDocument(doc')
    BY <1>3, <2>1, <2>2, SetStatusType DEF UndoThaw, Typed
  <2>4. StateTyped'
    BY <1>3 DEF UndoThaw, Typed, StateTyped, state, world
  <2>5. QED  BY <1>3, <2>3, <2>4, ReturnTyped DEF UndoThaw, Typed
<1>4. QED  BY <1>1, <1>2, <1>3 DEF Undo

\* What is left of a state once addresses are removed from it.
LEMMA StrippedIs ==
    ASSUME NEW o \in StateObject, NEW gone
    PROVE  LET left == Restrict(o.own, DOMAIN o.own \ gone)
           IN  /\ left \in Instances /\ DOMAIN left = DOMAIN o.own \ gone
               /\ \A a \in DOMAIN left : left[a] = o.own[a]
<1>1. o.own \in Instances /\ DOMAIN o.own \ gone \in SUBSET DOMAIN o.own
  BY DEF StateObject
<1>2. QED  BY <1>1, RestrictedIs

\* The state that `state rm` of everything but the create claims leaves.
Bared(p) ==
    [lineage |-> object.lineage, serial |-> object.serial + 1,
     base    |-> [version |-> 0, own |-> << >>],
     own     |-> Restrict(object.own,
                    DOMAIN object.own \ (DOMAIN proc[p].object.own \ Creates(proc[p].entry.claims)))]

LEMMA BaredIs ==
    ASSUME NEW p \in Procs, object \in StateObject, AbandonStateRm(p)
    PROVE  /\ object' = Bared(p) /\ Bared(p) \in StateObject
           /\ Bared(p).own \in Instances
           /\ DOMAIN Bared(p).own = DOMAIN object.own \ (DOMAIN proc[p].object.own \ Creates(proc[p].entry.claims))
           /\ \A a \in DOMAIN Bared(p).own : Bared(p).own[a] = object.own[a]
<1> DEFINE gone == DOMAIN proc[p].object.own \ Creates(proc[p].entry.claims)
           left == Restrict(object.own, DOMAIN object.own \ gone)
           n == object.serial + 1
           b == [version |-> 0, own |-> << >>]
<1>1. left \in Instances /\ DOMAIN left = DOMAIN object.own \ gone
      /\ \A a \in DOMAIN left : left[a] = object.own[a]
  BY StrippedIs
<1>2. n \in Nat /\ object.lineage \in Procs
  BY DEF StateObject
<1>3. b \in BaseState
  BY NothingIsInstances, LifecycleAssumption DEF BaseState
<1>4. object = [lineage |-> object.lineage, serial |-> object.serial,
                base |-> object.base, own |-> object.own]
  BY DEF StateObject
<1>5. object' = [object EXCEPT !.base = b, !.serial = n, !.own = left]
  BY <1>4 DEF AbandonStateRm
<1>6. Bared(p) = [lineage |-> object.lineage, serial |-> n, base |-> b, own |-> left]
  BY DEF Bared
<1> HIDE DEF left, n, b
<1>7. object' = Bared(p)
  <2> DEFINE w == [object EXCEPT !.base = b, !.serial = n, !.own = left]
  <2>1. /\ w \in StateObject
        /\ w.lineage = object.lineage /\ w.serial = n /\ w.base = b /\ w.own = left
    BY <1>1, <1>2, <1>3 DEF StateObject
  <2>2. w = [lineage |-> w.lineage, serial |-> w.serial, base |-> w.base, own |-> w.own]
    <3> HIDE DEF w
    <3>1. QED  BY <2>1 DEF StateObject
  <2> HIDE DEF w
  <2>3. w = Bared(p)
    BY <2>1, <2>2, <1>6
  <2>4. QED  BY <2>3, <1>5 DEF w
<1>8. Bared(p) \in StateObject
  BY <1>1, <1>2, <1>3, <1>6 DEF StateObject
<1>9. QED  BY <1>1, <1>6, <1>7, <1>8

LEMMA AbandonBeginTyped == ASSUME Typed, NEW p \in Procs, AbandonLoad(p)  PROVE Typed'
<1>1. PICK cmd \in {"abandon", "abandon keep"} :
         /\ Gate(Releasable(cmd)) /\ BeginLoaded(p, cmd, "loaded")
         /\ UNCHANGED <<registry, state, world>>
  BY DEF AbandonLoad
<1>2. cmd \in Cmds \ {"create"}
  BY DEF Cmds
<1>3. QED  BY <1>1, <1>2, GateOpens, BeginTyped

LEMMA AbandonUnderWay ==
    ASSUME Typed, NEW p \in Procs, Abandons(p), proc[p].pc \in Pcs \ Resting
    PROVE  /\ proc[p] \in Locals /\ LocalsFit(proc[p])
           /\ proc[p].cmd \in {"abandon", "abandon keep"} /\ proc[p].cmd \in Cmds
           /\ At(p, proc[p].cmd, proc[p].pc)
BY DEF Typed, Abandons, Running, Resting, At, Cmds

LEMMA AbandonCheckTyped == ASSUME Typed, NEW p \in Procs, AbandonCheck(p)  PROVE Typed'
<1> DEFINE me == proc[p]
           bare == me.entry.status = "creating" /\ object = Nil
           pc == IF bare THEN "archived"
                 ELSE IF me.cmd = "abandon" THEN "checked" ELSE "destroyed"
           m == [me EXCEPT !.object = object, !.pc = pc]
<1>1. proc' = [proc EXCEPT ![p] = m]
  BY DEF AbandonCheck
<1>2. me \in Locals /\ LocalsFit(me) /\ me.cmd \in {"abandon", "abandon keep"} /\ me.cmd \in Cmds
  <2>1. "loaded" \in Pcs \ Resting
    BY DEF Pcs, Resting
  <2>2. QED  BY <2>1, AbandonUnderWay DEF AbandonCheck
<1>3. object \in StateObject \cup {Nil} /\ (~bare => object \in StateObject)
  BY DEF AbandonCheck, Valid, Typed, StateTyped
<1>4. pc \in Pcs /\ pc # "planned" /\ (pc = "checked" => ~bare)
  BY DEF Pcs
<1> HIDE DEF pc, bare
<1>5. m \in Locals /\ m.cmd = me.cmd /\ m.pc = pc /\ m.entry = me.entry /\ m.object = object
  BY <1>2, <1>3, <1>4 DEF Locals
<1>6. LocalsFit(m)
  <2>1. me.entry \in Entry
    BY <1>2 DEF LocalsFit
  <2>2. QED  BY <1>2, <1>3, <1>4, <1>5, <2>1 DEF LocalsFit
<1>7. QED  BY <1>1, <1>5, <1>6, LocalStepTyped DEF AbandonCheck

LEMMA AbandonPlanTyped == ASSUME Typed, NEW p \in Procs, AbandonPlan(p)  PROVE Typed'
<1> DEFINE m == [proc[p] EXCEPT !.pc = "planned", !.object = object]
<1>1. proc' = [proc EXCEPT ![p] = m]
  BY DEF AbandonPlan
<1>2. proc[p] \in Locals /\ LocalsFit(proc[p]) /\ proc[p].cmd = "abandon"
      /\ object \in StateObject
  BY UnderWay DEF AbandonPlan, Pcs, Resting, Typed, StateTyped
<1>3. "planned" \in Pcs
  BY DEF Pcs
<1>4. m \in Locals /\ m.cmd = "abandon" /\ m.entry = proc[p].entry /\ m.object = object
  BY <1>2, <1>3 DEF Locals
<1>5. LocalsFit(m)
  BY <1>2, <1>4 DEF LocalsFit, Cmds
<1>6. QED  BY <1>1, <1>4, <1>5, LocalStepTyped DEF AbandonPlan

\* The destroy plan takes some instances away.
LEMMA AbandonDestroyIs ==
    ASSUME NEW p \in Procs, object \in StateObject, NEW some \in SUBSET DOMAIN object.own,
           object' = [object EXCEPT !.serial = @ + 1, !.own = Restrict(@, DOMAIN @ \ some)]
    PROVE  /\ object' \in StateObject /\ object'.own = Restrict(object.own, DOMAIN object.own \ some)
           /\ object'.lineage = object.lineage /\ object'.base = object.base
<1> DEFINE left == Restrict(object.own, DOMAIN object.own \ some)
<1>1. left \in Instances
  BY StrippedIs
<1> DEFINE n == object.serial + 1
           w == [object EXCEPT !.own = left, !.serial = n]
<1>2. object' = w /\ n \in Nat
  <2>1. object = [lineage |-> object.lineage, serial |-> object.serial,
                  base |-> object.base, own |-> object.own]
    BY DEF StateObject
  <2>2. object' = w
    BY <2>1
  <2>3. QED  BY <2>2 DEF StateObject
<1> HIDE DEF left, n
<1>3. w \in StateObject /\ w.own = left /\ w.base = object.base /\ w.lineage = object.lineage
  BY <1>1, <1>2 DEF StateObject
<1> HIDE DEF w
<1>4. QED  BY <1>2, <1>3 DEF left

LEMMA AbandonDestroyTyped == ASSUME Typed, NEW p \in Procs, AbandonDestroy(p)  PROVE Typed'
<1>1. PICK some \in SUBSET DOMAIN object.own :
         /\ cloud' = cloud \ ObjectsOf(Restrict(object.own, some))
         /\ object' = [object EXCEPT !.serial = @ + 1, !.own = Restrict(@, DOMAIN @ \ some)]
         /\ Goto(p, "emptied") \/ proc' = [proc EXCEPT ![p] = Ended("stopped")]
  BY DEF AbandonDestroy
<1>2. object \in StateObject
  BY DEF AbandonDestroy, Typed, StateTyped
<1>3. StateTyped'
  <2>1. object' \in StateObject
    BY <1>1, <1>2, AbandonDestroyIs
  <2>2. QED  BY <1>1, <2>1 DEF AbandonDestroy, Typed, StateTyped
<1>4. CASE Goto(p, "emptied")
  <2>1. "emptied" \in Pcs /\ "planned" \in Pcs \ Resting /\ "abandon" \in Cmds
    BY DEF Pcs, Resting, Cmds
  <2>2. QED  BY <1>3, <1>4, <2>1, GotoTyped DEF AbandonDestroy, Typed, registry
<1>5. CASE proc' = [proc EXCEPT ![p] = Ended("stopped")]
  <2>1. Ended("stopped") \in Locals /\ Ended("stopped").pc = "stopped"
    BY EndedIs DEF Pcs, Resting
  <2>2. QED  BY <1>3, <1>5, <2>1, StepTyped DEF AbandonDestroy, Typed, registry, Resting
<1>6. QED  BY <1>1, <1>4, <1>5

\* Going on from where abandon, --keep-resources and finalize archive.
LEMMA ArchiveTyped ==
    ASSUME Typed, NEW p \in Procs, NEW cmd \in {"abandon", "abandon keep", "finalize"},
           proc[p].cmd = cmd, NEW from \in Pcs \ Resting, Archive(p, from),
           kept' = kept \/ kept' = kept \cup {k \in ObjectsOf(object.own) : k[1] \in Creates(Printed(p))},
           UNCHANGED <<registry, base, cloud, imports>>
    PROVE  Typed'
<1>1. kept' \subseteq Addresses \X Ids
  <2>1. object \in StateObject
    BY DEF Archive, Typed, StateTyped
  <2>2. object.own \in Instances
    BY <2>1 DEF StateObject
  <2>3. QED  BY <2>2, ObjectsAre DEF Typed, StateTyped
<1>2. StateTyped'
  BY <1>1 DEF Archive, Typed, StateTyped
<1>3. "archived" \in Pcs /\ cmd \in Cmds /\ At(p, cmd, from)
  BY DEF Pcs, Cmds, At, Archive
<1>4. QED  BY <1>2, <1>3, GotoTyped DEF Archive, Typed, registry

LEMMA ReleaseTyped == ASSUME Typed, NEW p \in Procs, Release(p)  PROVE Typed'
<1>1. IsDocument(doc')
  BY ReleaseType, LifecycleAssumption DEF Release, Typed
<1>2. StateTyped'
  BY DEF Release, Typed, StateTyped, state, world
<1>3. QED  BY <1>1, <1>2, ReturnTyped DEF Release, Typed

LEMMA AbandonTyped == ASSUME Typed, NEW p \in Procs, Abandon(p)  PROVE Typed'
<1>1. CASE AbandonLoad(p)
  BY <1>1, AbandonBeginTyped
<1>2. CASE AbandonCheck(p)
  BY <1>2, AbandonCheckTyped
<1>3. CASE AbandonStateRm(p)
  <2>1. object \in StateObject
    BY <1>3 DEF AbandonStateRm, Typed, StateTyped
  <2>2. StateTyped'
    BY <1>3, <2>1, BaredIs DEF AbandonStateRm, Typed, StateTyped, world
  <2>3. "removed" \in Pcs /\ "checked" \in Pcs \ Resting /\ "abandon" \in Cmds
    BY DEF Pcs, Resting, Cmds
  <2>4. QED  BY <1>3, <2>2, <2>3, GotoTyped DEF AbandonStateRm, Typed, registry
<1>4. CASE AbandonPlan(p)
  BY <1>4, AbandonPlanTyped
<1>5. CASE AbandonDestroy(p)
  BY <1>5, AbandonDestroyTyped
<1>6. CASE AbandonVerify(p)
  <2>1. "destroyed" \in Pcs /\ "emptied" \in Pcs \ Resting /\ "abandon" \in Cmds
    BY DEF Pcs, Resting, Cmds
  <2>2. QED  BY <1>6, <2>1, GotoTyped, KeepsTyped DEF AbandonVerify
<1>7. CASE AbandonArchive(p)
  <2>1. "destroyed" \in Pcs \ Resting
    BY DEF Pcs, Resting
  <2>2. kept' = kept \/ kept' = kept \cup {k \in ObjectsOf(object.own) : k[1] \in Creates(Printed(p))}
    BY <1>7 DEF AbandonArchive
  <2>3. proc[p].cmd \in {"abandon", "abandon keep", "finalize"}
    BY <1>7 DEF AbandonArchive, Abandons
  <2>4. QED  BY <1>7, <2>1, <2>2, <2>3, ArchiveTyped DEF AbandonArchive
<1>8. CASE AbandonRelease(p)
  BY <1>8, ReleaseTyped DEF AbandonRelease
<1>9. QED
  BY <1>1, <1>2, <1>3, <1>4, <1>5, <1>6, <1>7, <1>8 DEF Abandon

LEMMA FinalizeTyped == ASSUME Typed, NEW p \in Procs, Finalize(p)  PROVE Typed'
<1>1. CASE FinalizeLoad(p)
  <2>1. "finalize" \in Cmds \ {"create"}
    BY DEF Cmds
  <2>2. QED  BY <1>1, <2>1, GateOpens, BeginTyped DEF FinalizeLoad
<1>2. CASE FinalizeCheck(p)
  <2>1. "checked" \in Pcs /\ "loaded" \in Pcs \ Resting /\ "finalize" \in Cmds
    BY DEF Pcs, Resting, Cmds
  <2>2. QED  BY <1>2, <2>1, GotoTyped, KeepsTyped DEF FinalizeCheck
<1>3. CASE FinalizeArchive(p)
  <2>1. "checked" \in Pcs \ Resting
    BY DEF Pcs, Resting
  <2>2. QED  BY <1>3, <2>1, ArchiveTyped DEF FinalizeArchive, world
<1>4. CASE FinalizeRelease(p)
  BY <1>4, ReleaseTyped DEF FinalizeRelease
<1>5. QED  BY <1>1, <1>2, <1>3, <1>4 DEF Finalize

LEMMA FinishedStatus ==
    ASSUME NEW d, IsDocument(d), NEW n \in DOMAIN d.overlays, NEW ok \in BOOLEAN, NEW l, NEW gone
    PROVE  FinishApply(d, n, ok, l, gone).overlays[n].status = IF ok THEN "active" ELSE "dirty"
<1> DEFINE status == IF ok THEN "active" ELSE "dirty"
           claims == FinishClaims(d.overlays[n].claims, l, gone, IF ok THEN gone ELSE {})
           e == [d.overlays[n] EXCEPT !.status = status, !.run = Nil, !.claims = claims]
<1>1. d.overlays[n] \in Entry
  BY DEF IsDocument
<1>2. e = [d.overlays[n] EXCEPT !.status = status, !.run = Nil,
              !.claims = FinishClaims(@, l, gone, IF ok THEN gone ELSE {})]
  BY <1>1 DEF Entry
<1>3. FinishApply(d, n, ok, l, gone) = WithEntry(d, n, e)
  BY <1>2 DEF FinishApply
<1> HIDE DEF status, claims
<1>4. e.status = status
  BY <1>1 DEF Entry
<1> HIDE DEF e
<1>5. QED  BY <1>3, <1>4, WithEntryOnly DEF status

\* An applying entry names its run: Timeout is about that run.
ApplyingHasRun == (Entered /\ TheEntry.status = "applying") => TheEntry.run # Nil

LEMMA ApplyingHasRunSteps == ASSUME Typed, ApplyingHasRun, Next  PROVE ApplyingHasRun'
<1> SUFFICES ASSUME Entered', TheEntry'.status = "applying"  PROVE TheEntry'.run # Nil
  BY DEF ApplyingHasRun
<1> USE DEF Entered, TheEntry, Registered
<1>1. IsDocument(doc) /\ << >> \in ClaimMap
  BY EmptyIsClaims DEF Typed
<1>2. CASE UNCHANGED doc
  BY <1>2 DEF ApplyingHasRun
<1>3. ASSUME NEW p \in Procs, CreateRegister(p)  PROVE TheEntry'.run # Nil
  <2>1. CASE Entered
    BY <1>3, <2>1 DEF CreateRegister, RegisterCreating, ApplyingHasRun
  <2>2. CASE ~Entered
    BY <1>3, <2>2, RegisterIs DEF CreateRegister
  <2>3. QED  BY <2>1, <2>2
<1>4. ASSUME NEW p \in Procs, CreateFlip(p)  PROVE TheEntry'.run # Nil
  BY <1>1, <1>4, FlipIs DEF CreateFlip, FlipRefused
<1>5. ASSUME NEW p \in Procs, ApplyAcquire(p)  PROVE TheEntry'.run # Nil
  <2>1. proc[p].claims \in ClaimMap /\ Me \in DOMAIN doc.overlays
    BY <1>5, UnderWay DEF ApplyAcquire, Locals, Pcs, Resting, AcquireRefused
  <2>2. TheEntry'.run = p
    BY <1>1, <1>5, <2>1, AcquireIs DEF ApplyAcquire
  <2>3. QED  BY <2>2, LifecycleAssumption, NilAssumption
<1>6. ASSUME NEW p \in Procs, ApplyFinish(p)  PROVE TheEntry'.run # Nil
  <2>1. proc[p].claims \in ClaimMap /\ Me \in DOMAIN doc.overlays
    BY <1>6, UnderWay DEF ApplyFinish, Locals, Pcs, Resting, FinishRefused
  <2>2. proc[p].ok \in BOOLEAN
    BY <1>6, UnderWay DEF ApplyFinish, Locals, Pcs, Resting
  <2>3. TheEntry'.status = IF proc[p].ok THEN "active" ELSE "dirty"
    BY <1>1, <1>6, <2>1, <2>2, FinishedStatus DEF ApplyFinish
  <2>4. QED  BY <2>3
<1>7. ASSUME NEW p \in Procs, RebaseRecord(p)  PROVE TheEntry'.run # Nil
  BY <1>1, <1>7, SetStatusIs DEF RebaseRecord, Unchanged, SetStatusRefused
<1>8. ASSUME NEW p \in Procs, MergeFreeze(p)  PROVE TheEntry'.run # Nil
  <2>1. proc[p].claims \in ClaimMap
    BY <1>8, UnderWay DEF MergeFreeze, Locals, Pcs, Resting
  <2>2. QED  BY <1>1, <1>8, <2>1, SetStatusIs DEF MergeFreeze, Unchanged, SetStatusRefused
<1>9. ASSUME NEW p \in Procs, UndoThaw(p)  PROVE TheEntry'.run # Nil
  BY <1>1, <1>9, SetStatusIs DEF UndoThaw, SetStatusRefused
<1>10. ASSUME NEW p \in Procs, Release(p)  PROVE TheEntry'.run # Nil
  BY <1>10, ReleaseIs DEF Release, ApplyingHasRun
<1>11. ASSUME NEW p \in Procs, Create(p) \/ Apply(p) \/ Rebase(p) \/ Merge(p)
       PROVE  TheEntry'.run # Nil
  <2>1. CASE Create(p)
    BY <1>2, <1>3, <1>4, <2>1
       DEF Create, CreateLoad, CreatePull, CreatePush, CreateReadBack, registry
  <2>2. CASE Apply(p)
    BY <1>2, <1>5, <1>6, <2>2
       DEF Apply, ApplyLoad, ApplyPlan, ApplyNothing, ApplyStart, ApplyFails, ApplyWrite,
           ApplyPull, registry
  <2>3. CASE Rebase(p)
    BY <1>2, <1>7, <2>3 DEF Rebase, RebaseLoad, RebaseRead, RebasePull, RebasePush, registry
  <2>4. CASE Merge(p)
    BY <1>2, <1>8, <2>4 DEF Merge, MergeLoad, MergeRead, MergeVerify, registry
  <2>5. QED  BY <1>11, <2>1, <2>2, <2>3, <2>4
<1>12. ASSUME NEW p \in Procs, Undo(p) \/ Abandon(p) \/ Finalize(p) \/ Stop(p)
       PROVE  TheEntry'.run # Nil
  <2>1. CASE Undo(p)
    BY <1>2, <1>9, <2>1 DEF Undo, UndoLoad, UndoUnlink, registry
  <2>2. CASE Abandon(p)
    BY <1>2, <1>10, <2>2
       DEF Abandon, AbandonLoad, AbandonCheck, AbandonStateRm, AbandonPlan, AbandonDestroy,
           AbandonVerify, AbandonArchive, AbandonRelease, registry
  <2>3. CASE Finalize(p)
    BY <1>2, <1>10, <2>3
       DEF Finalize, FinalizeLoad, FinalizeCheck, FinalizeArchive, FinalizeRelease, registry
  <2>4. CASE Stop(p)
    BY <1>2, <2>4 DEF Stop, registry
  <2>5. QED  BY <1>12, <2>1, <2>2, <2>3, <2>4
<1>13. CASE TrunkMoves \/ TrunkAdopts \/ Timeout
  BY <1>2, <1>13 DEF TrunkMoves, TrunkAdopts, Timeout, registry
<1>14. QED  BY <1>11, <1>12, <1>13 DEF Next

LEMMA AroundTyped ==
    ASSUME Typed, ApplyingHasRun, TrunkMoves \/ TrunkAdopts \/ Timeout
    PROVE  Typed'
<1>1. base.version \in 1..MaxBase /\ base.version \in Nat /\ base.own \in Instances
      /\ base = [version |-> base.version, own |-> base.own]
  BY LifecycleAssumption DEF Typed, StateTyped, BaseState
<1>2. ASSUME NEW own \in Instances, base.version < MaxBase,
             base' = [version |-> base.version + 1, own |-> own],
             UNCHANGED <<registry, state, cloud, kept, imports, proc>>
      PROVE  Typed'
  <2> DEFINE v == base.version + 1
  <2>1. v \in 1..MaxBase /\ v \in 0..MaxBase
    BY <1>1, <1>2, LifecycleAssumption
  <2>2. base' = [version |-> v, own |-> own]
    BY <1>2
  <2> HIDE DEF v
  <2>3. base' \in BaseState /\ base'.version \in Etags
    BY <1>2, <2>1, <2>2, LifecycleAssumption DEF BaseState
  <2>4. StateTyped'
    BY <1>2, <2>3 DEF Typed, StateTyped, state
  <2>5. QED  BY <1>2, <2>4 DEF Typed, registry, Running
<1>3. CASE TrunkMoves
  <2>1. base' = [version |-> base.version + 1, own |-> base.own]
    BY <1>1, <1>3 DEF TrunkMoves
  <2>2. QED  BY <1>1, <1>2, <1>3, <2>1 DEF TrunkMoves
<1>4. CASE TrunkAdopts
  <2> DEFINE D == DOMAIN imports \cup DOMAIN base.own
             own == [a \in D |-> IF a \in DOMAIN base.own THEN base.own[a] ELSE imports[a]]
  <2>1. imports \in Instances
    BY <1>4 DEF TrunkAdopts, Typed, StateTyped
  <2>2. D \in SUBSET Addresses /\ \A a \in D : own[a] \in Ids
    BY <1>1, <2>1, InstancesAre
  <2>3. own \in Instances
    <3>1. own \in [D -> Ids]
      BY <2>2
    <3>2. QED  BY <2>2, <3>1 DEF Instances
  <2>4. base' = [version |-> base.version + 1, own |-> own]
    BY <1>4 DEF TrunkAdopts
  <2> HIDE DEF own
  <2>5. QED  BY <1>2, <1>4, <2>3, <2>4 DEF TrunkAdopts
<1>5. CASE Timeout
  <2>1. expired' \subseteq Runs
    BY <1>5, EnteredIs DEF Timeout, ApplyingHasRun, Typed, Entry
  <2>2. StateTyped'
    BY <1>5 DEF Timeout, Typed, StateTyped, state, world
  <2>3. QED  BY <1>5, <2>1, <2>2 DEF Timeout, Typed, Running
<1>6. QED  BY <1>3, <1>4, <1>5

LEMMA NextTyped == ASSUME Typed, ApplyingHasRun, [Next]_vars  PROVE Typed' /\ ApplyingHasRun'
<1>1. CASE UNCHANGED vars
  <2>1. UNCHANGED <<registry, state, world, proc>>
    BY <1>1 DEF vars
  <2>2. Typed'
    BY <2>1, KeepsTyped DEF Typed, Running
  <2>3. ApplyingHasRun'
    BY <2>1 DEF ApplyingHasRun, Entered, TheEntry, Registered, registry
  <2>4. QED  BY <2>2, <2>3
<1>2. CASE Next
  <2>1. ASSUME NEW p \in Procs,
               Create(p) \/ Apply(p) \/ Rebase(p) \/ Merge(p) \/ Undo(p)
                  \/ Abandon(p) \/ Finalize(p) \/ Stop(p)
        PROVE  Typed'
    BY <2>1, CreateTyped, ApplyTyped, RebaseTyped, MergeTyped, UndoTyped, AbandonTyped,
       FinalizeTyped, StopTyped
  <2>2. Typed'
    BY <1>2, <2>1, AroundTyped DEF Next
  <2>3. QED  BY <1>2, <2>2, ApplyingHasRunSteps
<1>3. QED  BY <1>1, <1>2

\* The type invariant holds of every reachable state, for any number of
\* commands, of any kind, that overlap in any way.
THEOREM TypeCorrect == Spec => []TypeOK
<1>1. Init => Typed /\ ApplyingHasRun
  BY InitTyped DEF Init, ApplyingHasRun, Entered, Registered, EmptyDoc
<1>2. Typed /\ ApplyingHasRun /\ [Next]_vars => (Typed /\ ApplyingHasRun)'
  BY NextTyped
<1>3. Typed => TypeOK
  BY DEF Typed, StateTyped, TypeOK
<1>4. QED  BY <1>1, <1>2, <1>3, PTL DEF Spec

------------------------------------------------------------------------------
(* Crash safety. *)

(* What the callbacks do to an entry. *)

AllCreate(c) == \A a \in DOMAIN c : c[a].kind = "create"

LEMMA AllCreateIs == ASSUME NEW c, AllCreate(c)  PROVE Creates(c) = DOMAIN c
BY DEF AllCreate, Creates

LEMMA MergedKinds ==
    ASSUME NEW c \in ClaimMap, NEW w \in ClaimMap, AllCreate(c), AllCreate(w)
    PROVE  AllCreate(MergeClaims(c, w)) /\ DOMAIN MergeClaims(c, w) = DOMAIN c \cup DOMAIN w
<1>1. DOMAIN MergeClaims(c, w) = DOMAIN c \cup DOMAIN w
  BY MergeClaimsIs
<1>2. ASSUME NEW a \in DOMAIN c \cup DOMAIN w
      PROVE  MergeClaims(c, w)[a].kind = "create"
  <2>1. CASE a \notin DOMAIN w
    BY <1>2, <2>1 DEF MergeClaims, AllCreate
  <2>2. CASE a \in DOMAIN w /\ a \notin DOMAIN c
    BY <1>2, <2>2 DEF MergeClaims, AllCreate
  <2>3. CASE a \in DOMAIN w /\ a \in DOMAIN c
    <3>1. MergeClaims(c, w)[a] = MergeClaim(c[a], w[a])
      BY <2>3 DEF MergeClaims
    <3>2. QED  BY <2>3, <3>1 DEF MergeClaim, AllCreate
  <2>4. QED  BY <1>2, <2>1, <2>2, <2>3
<1>3. QED  BY <1>1, <1>2 DEF AllCreate

LEMMA RestrictedKinds ==
    ASSUME NEW c \in ClaimMap, AllCreate(c), NEW S
    PROVE  AllCreate(Restrict(c, DOMAIN c \ S))
<1> DEFINE r == Restrict(c, DOMAIN c \ S)
<1>1. DOMAIN r = DOMAIN c \ S /\ \A a \in DOMAIN c \ S : r[a] = c[a]
  BY DEF Restrict
<1> HIDE DEF r
<1>2. AllCreate(r)
  BY <1>1 DEF AllCreate
<1>3. QED  BY <1>2 DEF r

LEMMA FinishedKinds ==
    ASSUME NEW c \in ClaimMap, NEW l \in ClaimMap, AllCreate(c), AllCreate(l), NEW gone, NEW dropped
    PROVE  AllCreate(FinishClaims(c, l, gone, dropped))
<1> DEFINE left == Restrict(l, DOMAIN l \ gone)
           merged == MergeClaims(c, left)
<1>1. left \in ClaimMap /\ AllCreate(left)
  BY RestrictIs, RestrictedKinds
<1>2. merged \in ClaimMap /\ AllCreate(merged)
  BY <1>1, MergedKinds, MergeClaimsIs
<1>3. FinishClaims(c, l, gone, dropped) = Restrict(merged, DOMAIN merged \ dropped)
  BY DEF FinishClaims
<1> HIDE DEF merged
<1>4. QED  BY <1>2, <1>3, RestrictedKinds

LEMMA RefreshedKinds ==
    ASSUME NEW c \in ClaimMap, NEW o \in StateObject, AllCreate(c)
    PROVE  AllCreate(ClaimsFromState(c, o))
BY RefreshedClaimsAre DEF AllCreate

LEMMA PlannedKinds ==
    ASSUME NEW e \in Entry, AllCreate(e.claims), NEW created \in SUBSET Addresses, NEW deleted
    PROVE  AllCreate(PlannedClaims(e, created, deleted))
<1> DEFINE new == [a \in created |-> NewClaim]
           old == Restrict(e.claims, DOMAIN e.claims \ deleted)
<1>1. e.claims \in ClaimMap
  BY DEF Entry
<1>2. NewClaim \in Claim /\ NewClaim.kind = "create"
  BY LifecycleAssumption DEF NewClaim, Claim
<1>3. new \in ClaimMap /\ AllCreate(new)
  BY <1>2, ClaimMapIs DEF AllCreate
<1>4. old \in ClaimMap /\ AllCreate(old)
  BY <1>1, RestrictIs, RestrictedKinds
<1>5. PlannedClaims(e, created, deleted) = MergeClaims(old, new)
  BY DEF PlannedClaims
<1> HIDE DEF old, new
<1>6. QED  BY <1>3, <1>4, <1>5, MergedKinds

LEMMA FlippedEntry ==
    ASSUME NEW d, IsDocument(d), NEW n \in DOMAIN d.overlays, NEW etag
    PROVE  LET e == Flip(d, n, etag).overlays[n]
           IN  e.status = "active" /\ e.etag = etag /\ e.claims = d.overlays[n].claims
<1> DEFINE e == [d.overlays[n] EXCEPT !.status = "active", !.etag = etag]
<1>1. d.overlays[n] \in Entry
  BY DEF IsDocument
<1>2. e.status = "active" /\ e.etag = etag /\ e.claims = d.overlays[n].claims
  BY <1>1 DEF Entry
<1>3. Flip(d, n, etag) = WithEntry(d, n, e)
  BY DEF Flip
<1> HIDE DEF e
<1>4. QED  BY <1>2, <1>3, WithEntryOnly

LEMMA AcquiredEntry ==
    ASSUME NEW d, IsDocument(d), NEW n \in DOMAIN d.overlays, NEW w \in ClaimMap, NEW r
    PROVE  LET e == AcquireClaims(d, n, w, r).overlays[n]
           IN  /\ e.status = "applying" /\ e.etag = d.overlays[n].etag
               /\ e.claims = MergeClaims(d.overlays[n].claims, w)
<1> DEFINE claims == MergeClaims(d.overlays[n].claims, w)
           e == [d.overlays[n] EXCEPT !.status = "applying", !.run = r, !.claims = claims]
<1>1. d.overlays[n] \in Entry
  BY DEF IsDocument
<1>2. e.status = "applying" /\ e.etag = d.overlays[n].etag /\ e.claims = claims
  BY <1>1 DEF Entry
<1>3. AcquireClaims(d, n, w, r) = WithEntry(d, n, e)
  BY <1>1 DEF AcquireClaims, Entry
<1> HIDE DEF e
<1>4. QED  BY <1>2, <1>3, WithEntryOnly

LEMMA FinishedEntry ==
    ASSUME NEW d, IsDocument(d), NEW n \in DOMAIN d.overlays, NEW ok \in BOOLEAN, NEW l, NEW gone
    PROVE  LET e == FinishApply(d, n, ok, l, gone).overlays[n]
           IN  /\ e.status \in {"active", "dirty"} /\ e.etag = d.overlays[n].etag
               /\ e.status = IF ok THEN "active" ELSE "dirty"
               /\ e.claims = FinishClaims(d.overlays[n].claims, l, gone, IF ok THEN gone ELSE {})
<1> DEFINE status == IF ok THEN "active" ELSE "dirty"
           claims == FinishClaims(d.overlays[n].claims, l, gone, IF ok THEN gone ELSE {})
           e == [d.overlays[n] EXCEPT !.status = status, !.run = Nil, !.claims = claims]
<1>1. d.overlays[n] \in Entry /\ status \in {"active", "dirty"}
  BY DEF IsDocument
<1>2. e = [d.overlays[n] EXCEPT !.status = status, !.run = Nil,
              !.claims = FinishClaims(@, l, gone, IF ok THEN gone ELSE {})]
  BY <1>1 DEF Entry
<1>3. FinishApply(d, n, ok, l, gone) = WithEntry(d, n, e)
  BY <1>2 DEF FinishApply
<1> HIDE DEF status
<1>4. e.status = status /\ e.etag = d.overlays[n].etag /\ e.claims = claims
  BY <1>1 DEF Entry
<1> HIDE DEF e
<1>5. QED  BY <1>1, <1>3, <1>4, WithEntryOnly DEF status

LEMMA SetStatusEntry ==
    ASSUME NEW d, IsDocument(d), NEW n \in DOMAIN d.overlays, NEW s, NEW etag, NEW c \in ClaimMap
    PROVE  LET e == SetStatus(d, n, s, etag, c).overlays[n]
           IN  /\ e.status = s /\ e.etag = etag
               /\ e.claims = MergeClaims(d.overlays[n].claims, c)
<1> DEFINE claims == MergeClaims(d.overlays[n].claims, c)
           e == [d.overlays[n] EXCEPT !.status = s, !.etag = etag, !.claims = claims]
<1>1. d.overlays[n] \in Entry
  BY DEF IsDocument
<1>2. e.status = s /\ e.etag = etag /\ e.claims = claims
  BY <1>1 DEF Entry
<1>3. SetStatus(d, n, s, etag, c) = WithEntry(d, n, e)
  BY <1>1 DEF SetStatus, Entry
<1> HIDE DEF e
<1>4. QED  BY <1>2, <1>3, WithEntryOnly

LEMMA RegisteredEntry ==
    ASSUME NEW d, NEW n, n \notin DOMAIN d.overlays
    PROVE  LET e == RegisterCreating(d, n).overlays[n]
           IN  e.status = "creating" /\ e.etag = Nil /\ DOMAIN e.claims = {}
BY WithEntryIs, EmptyIsClaims DEF RegisterCreating, Registered

------------------------------------------------------------------------------
(***************************************************************************)
(* The invariant.  Alone: one command at a time.  Consistent: what holds   *)
(* wherever commands have stopped.  CommandFits: what the command under    *)
(* way relies on.                                                          *)
(***************************************************************************)

Alone == \A p, q \in Running : p = q

Status == TheEntry.status

Consistent ==
    /\ ObjectsAreRegistered
    /\ Entered => AllCreate(TheEntry.claims)
    /\ object # Nil => DOMAIN object.own \subseteq DOMAIN TheEntry.claims
    /\ (object # Nil /\ Status = "creating") => DOMAIN object.own = {}
    /\ (object # Nil /\ Status # "creating") => object.lineage = lineage
    /\ NoOrphans

CreateFits(p) ==
    LET me == proc[p]
    IN  /\ Entered => Status = "creating"
        /\ me.pc \in {"registered", "pulled", "pushed", "read back"} => Entered
        /\ (me.pc = "read back" /\ object # Nil) => object.lineage = me.recorded

ApplyFits(p) ==
    LET me == proc[p]
    IN  /\ Entered /\ Status # "creating" /\ AllCreate(me.claims)
        /\ me.pc \in {"planned", "acquired", "applying"} => object = me.object
        /\ me.pc = "planned" => me.want \subseteq DOMAIN me.claims
        /\ me.pc \in {"acquired", "applying"} => me.want \subseteq DOMAIN TheEntry.claims
        /\ (me.pc = "refreshed" /\ object # Nil) => me.released \cap DOMAIN object.own = {}

RebaseFits(p) ==
    /\ Entered /\ Status # "creating" /\ proc[p].entry = TheEntry
    /\ proc[p].pc \in {"read", "pulled"} => object = proc[p].object

MergeFits(p) ==
    Entered /\ Status # "creating" /\ proc[p].entry = TheEntry /\ AllCreate(proc[p].claims)

UndoFits(p) == Entered /\ Status # "creating"

AbandonFits(p) ==
    LET me == proc[p]
    IN  /\ Entered /\ me.entry = TheEntry
        /\ me.pc = "checked" => object = me.object
        /\ (me.pc = "destroyed" /\ me.cmd = "abandon" /\ object # Nil) => DOMAIN object.own = {}
        /\ me.pc = "archived" => object = Nil

FinalizeFits(p) ==
    LET me == proc[p]
    IN  /\ Entered /\ Status # "creating" /\ me.entry = TheEntry
        /\ (me.pc = "checked" /\ object # Nil) => ObjectsOf(object.own) \subseteq ObjectsOf(base.own)
        /\ me.pc = "archived" => object = Nil

CommandFits(p) ==
    /\ proc[p].cmd = "create" => CreateFits(p)
    /\ proc[p].cmd = "apply" => ApplyFits(p)
    /\ proc[p].cmd = "rebase" => RebaseFits(p)
    /\ proc[p].cmd = "merge" => MergeFits(p)
    /\ proc[p].cmd = "undo" => UndoFits(p)
    /\ proc[p].cmd \in {"abandon", "abandon keep"} => AbandonFits(p)
    /\ proc[p].cmd = "finalize" => FinalizeFits(p)

Sequential == Alone /\ Consistent /\ \A p \in Running : CommandFits(p)

------------------------------------------------------------------------------
(* One command at a time. *)

LEMMA NobodyRuns ==
    ASSUME Alone, Concurrent = 1, Cardinality(Running) < Concurrent
    PROVE  Running = {}
<1> SUFFICES ASSUME NEW p \in Running  PROVE FALSE
  OBVIOUS
<1>1. Running = {p}
  BY DEF Alone
<1>2. Cardinality({p}) = 1
  BY FS_Singleton
<1>3. QED  BY <1>1, <1>2

\* Whoever takes a step is the one that runs.
LEMMA StepAlone ==
    ASSUME Typed, Alone, NEW p \in Procs, NEW m, proc' = [proc EXCEPT ![p] = m],
           p \in Running \/ Running = {}
    PROVE  /\ proc'[p] = m /\ Running' \subseteq {p} /\ Alone'
           /\ m.pc \in Resting => Running' = {}
<1>1. proc'[p] = m /\ \A q \in Procs \ {p} : proc'[q] = proc[q]
  BY DEF Typed
<1>2. \A q \in Procs \ {p} : q \notin Running
  BY DEF Alone
<1>3. Running' \subseteq {p}
  BY <1>1, <1>2 DEF Running
<1>4. m.pc \in Resting => Running' = {}
  BY <1>1, <1>3 DEF Running, Resting
<1>5. QED  BY <1>1, <1>3, <1>4 DEF Alone

LEMMA GoesOn ==
    ASSUME NEW p, Running' \subseteq {p}, Alone', Consistent', CommandFits(p)'
    PROVE  Sequential'
BY DEF Sequential

LEMMA Rests ==
    ASSUME Running' = {}, Alone', Consistent'
    PROVE  Sequential'
BY DEF Sequential

LEMMA Unmoved ==
    ASSUME Consistent, UNCHANGED <<doc, lineage, object, base, cloud, kept>>
    PROVE  Consistent'
BY DEF Consistent, ObjectsAreRegistered, NoOrphans, Entered, Registered, TheEntry, Status

LEMMA ReturnAlone ==
    ASSUME Typed, Alone, NEW p \in Running, NEW pc \in Resting, proc' = [proc EXCEPT ![p] = Ended(pc)]
    PROVE  Running' = {} /\ Alone'
<1>1. Ended(pc).pc = pc /\ p \in Procs
  BY EndedIs DEF Pcs, Resting, Running
<1> DEFINE m == Ended(pc)
<1>2. proc' = [proc EXCEPT ![p] = m] /\ m.pc \in Resting
  BY <1>1
<1> HIDE DEF m
<1>3. QED  BY <1>1, <1>2, StepAlone

LEMMA AtRuns == ASSUME NEW p \in Procs, NEW cmd, NEW pc \in Pcs \ Resting, At(p, cmd, pc)  PROVE p \in Running
BY DEF At, Running, Resting

LEMMA GotoAlone ==
    ASSUME Typed, Alone, NEW p \in Running, NEW pc \in Pcs, Goto(p, pc)
    PROVE  /\ Running' \subseteq {p} /\ Alone'
           /\ proc'[p].pc = pc /\ proc'[p].cmd = proc[p].cmd /\ proc'[p].entry = proc[p].entry
           /\ proc'[p].object = proc[p].object /\ proc'[p].claims = proc[p].claims
           /\ proc'[p].recorded = proc[p].recorded /\ proc'[p].want = proc[p].want
           /\ proc'[p].released = proc[p].released
<1> DEFINE m == [proc[p] EXCEPT !.pc = pc]
<1>1. p \in Procs /\ proc[p] \in Locals
  BY DEF Running, Typed
<1>2. proc' = [proc EXCEPT ![p] = m]
  BY DEF Goto
<1>3. /\ m.pc = pc /\ m.cmd = proc[p].cmd /\ m.entry = proc[p].entry
      /\ m.object = proc[p].object /\ m.claims = proc[p].claims
      /\ m.recorded = proc[p].recorded /\ m.want = proc[p].want /\ m.released = proc[p].released
  BY <1>1 DEF Locals
<1> HIDE DEF m
<1>4. QED  BY <1>1, <1>2, <1>3, StepAlone

LEMMA ItFits ==
    ASSUME Typed, Sequential, NEW p \in Procs, NEW cmd, NEW pc \in Pcs \ Resting, At(p, cmd, pc)
    PROVE  /\ p \in Running /\ Alone /\ Consistent /\ CommandFits(p)
           /\ proc[p] \in Locals /\ proc[p].cmd = cmd /\ proc[p].pc = pc
BY AtRuns DEF Sequential, At, Typed

LEMMA ObjectIs ==
    ASSUME Typed, object # Nil
    PROVE  object \in StateObject /\ object.own \in Instances
BY DEF Typed, StateTyped, StateObject

LEMMA OwnsNothing == ASSUME NEW own, DOMAIN own = {}  PROVE ObjectsOf(own) = {}
BY DEF ObjectsOf

\* A command that returns, or stops, and one that moves on, and writes nothing
\* the invariant is about.
LEMMA QuietReturn ==
    ASSUME Typed, Sequential, NEW p \in Running, NEW pc \in Resting, proc' = [proc EXCEPT ![p] = Ended(pc)],
           UNCHANGED <<doc, lineage, object, base, cloud, kept>>
    PROVE  Sequential'
<1>1. Alone /\ Consistent
  BY DEF Sequential
<1>2. Running' = {} /\ Alone' /\ Consistent'
  BY <1>1, ReturnAlone, Unmoved
<1>3. QED  BY <1>2, Rests

LEMMA QuietStep ==
    ASSUME Typed, Sequential, NEW p \in Running, NEW m, proc' = [proc EXCEPT ![p] = m],
           UNCHANGED <<doc, lineage, object, base, cloud, kept>>,
           proc'[p] = m => CommandFits(p)'
    PROVE  Sequential'
<1>1. Alone /\ Consistent /\ p \in Procs
  BY DEF Sequential, Running
<1>2. Running' \subseteq {p} /\ Alone' /\ Consistent' /\ proc'[p] = m
  BY <1>1, StepAlone, Unmoved
<1>3. QED  BY <1>2, GoesOn

LEMMA QuietGoto ==
    ASSUME Typed, Sequential, NEW p \in Running, NEW pc \in Pcs, Goto(p, pc),
           UNCHANGED <<doc, lineage, object, base, cloud, kept>>,
           CommandFits(p)'
    PROVE  Sequential'
<1>1. Alone /\ Consistent
  BY DEF Sequential
<1>2. Running' \subseteq {p} /\ Alone' /\ Consistent'
  BY <1>1, GotoAlone, Unmoved
<1>3. QED  BY <1>2, GoesOn

\* A command that begins on the entry.
LEMMA BeginAlone ==
    ASSUME Concurrent = 1, Typed, Sequential, NEW p \in Procs, NEW cmd,
           BeginLoaded(p, cmd, "loaded"), UNCHANGED <<registry, state, world>>
    PROVE  /\ Running' \subseteq {p} /\ Alone' /\ Consistent'
           /\ proc'[p].cmd = cmd /\ proc'[p].pc = "loaded" /\ proc'[p].entry = TheEntry'
           /\ AllCreate(proc'[p].claims) /\ doc' = doc /\ object' = object /\ lineage' = lineage
<1> DEFINE m == [Idle EXCEPT !.cmd = cmd, !.pc = "loaded", !.entry = TheEntry,
                             !.recorded = lineage]
<1>1. proc' = [proc EXCEPT ![p] = m] /\ Cardinality(Running) < Concurrent
  BY DEF BeginLoaded, Begin
<1>2. m.cmd = cmd /\ m.pc = "loaded" /\ m.entry = TheEntry /\ m.claims = << >>
  BY DEF Idle
<1> HIDE DEF m
<1>3. Alone /\ Consistent
  BY DEF Sequential
<1>4. Running = {}
  BY <1>1, <1>3, NobodyRuns
<1>5. Running' \subseteq {p} /\ Alone' /\ proc'[p] = m
  BY <1>1, <1>3, <1>4, StepAlone
<1>6. UNCHANGED <<doc, lineage, object, base, cloud, kept>>
  BY DEF registry, state, world
<1>7. Consistent' /\ TheEntry' = TheEntry
  BY <1>3, <1>6, Unmoved DEF TheEntry
<1>8. AllCreate(<< >>)
  BY EmptyIsClaims DEF AllCreate
<1>9. QED  BY <1>2, <1>5, <1>6, <1>7, <1>8

------------------------------------------------------------------------------
(* One lemma per command. *)

LEMMA CreateGoesOn ==
    ASSUME Typed, Sequential, NEW p \in Procs, Create(p), ~CreateLoad(p)
    PROVE  Sequential'
<1>1. CASE CreateRegister(p)
  <2> DEFINE m == [proc[p] EXCEPT !.pc = "registered", !.recorded = lineage]
  <2>1. /\ p \in Running /\ Alone /\ Consistent /\ CreateFits(p)
        /\ proc[p] \in Locals /\ proc[p].cmd = "create"
    BY <1>1, ItFits DEF CreateRegister, CommandFits, Pcs, Resting
  <2>2. proc' = [proc EXCEPT ![p] = m] /\ m.cmd = "create" /\ m.pc = "registered"
    BY <1>1, <2>1 DEF CreateRegister, Locals
  <2> HIDE DEF m
  <2>3. Running' \subseteq {p} /\ Alone' /\ proc'[p] = m
    BY <2>1, <2>2, StepAlone
  <2>4. UNCHANGED <<lineage, object, base, cloud, kept>> /\ doc' = RegisterCreating(doc, Me)
    BY <1>1 DEF CreateRegister, state, world
  <2>5. Consistent' /\ Entered' /\ Status' = "creating"
    <3>1. CASE Entered
      <4>1. doc' = doc
        BY <2>4, <3>1 DEF RegisterCreating, Entered
      <4>2. Status = "creating"
        BY <2>1, <3>1 DEF CreateFits
      <4>3. QED  BY <2>1, <2>4, <3>1, <4>1, <4>2, Unmoved DEF Entered, Registered, TheEntry, Status
    <3>2. CASE ~Entered
      <4>1. object = Nil
        BY <2>1, <3>2 DEF Consistent, ObjectsAreRegistered
      <4>2. TheEntry'.status = "creating" /\ DOMAIN TheEntry'.claims = {}
        BY <2>4, <3>2, RegisteredEntry DEF Entered, Registered, TheEntry
      <4>3. Entered'
        BY <2>4, <3>2, RegisterIs DEF Entered, Registered
      <4>4. AllCreate(TheEntry'.claims)
        BY <4>2 DEF AllCreate
      <4>5. NoOrphans'
        BY <2>1, <2>4 DEF Consistent, NoOrphans
      <4>6. QED
        BY <2>4, <4>1, <4>2, <4>3, <4>4, <4>5 DEF Consistent, ObjectsAreRegistered, Status
    <3>3. QED  BY <3>1, <3>2
  <2>6. CreateFits(p)'
    BY <2>2, <2>3, <2>5 DEF CreateFits
  <2>7. CommandFits(p)'
    BY <2>2, <2>3, <2>6 DEF CommandFits
  <2>8. QED  BY <2>3, <2>5, <2>7, GoesOn
<1>2. CASE CreatePull(p)
  <2> DEFINE m == [proc[p] EXCEPT !.pc = "pulled", !.base = base]
  <2>1. /\ p \in Running /\ CreateFits(p)
        /\ proc[p] \in Locals /\ proc[p].cmd = "create" /\ proc[p].pc = "registered"
    BY <1>2, ItFits DEF CreatePull, CommandFits, Pcs, Resting
  <2>2. proc' = [proc EXCEPT ![p] = m] /\ m.cmd = "create" /\ m.pc = "pulled"
    BY <1>2, <2>1 DEF CreatePull, Locals
  <2> HIDE DEF m
  <2>3. UNCHANGED <<doc, lineage, object, base, cloud, kept>>
    BY <1>2 DEF CreatePull, registry, state, world
  <2>4. ASSUME proc'[p] = m  PROVE CommandFits(p)'
    <3>1. CreateFits(p)'
      BY <2>1, <2>2, <2>3, <2>4 DEF CreateFits, Entered, Registered, TheEntry, Status
    <3>2. QED  BY <2>2, <2>4, <3>1 DEF CommandFits
  <2>5. QED  BY <2>1, <2>2, <2>3, <2>4, QuietStep
<1>3. CASE CreatePush(p)
  <2>1. /\ p \in Running /\ CreateFits(p) /\ Alone /\ Consistent
        /\ proc[p] \in Locals /\ proc[p].cmd = "create" /\ proc[p].pc = "pulled"
    BY <1>3, ItFits DEF CreatePush, CommandFits, Pcs, Resting
  <2>2. Entered /\ Status = "creating"
    BY <2>1 DEF CreateFits
  <2>3. UNCHANGED <<doc, lineage, base, cloud, kept>> /\ "read back" \in Pcs /\ "pushed" \in Pcs
    BY <1>3 DEF CreatePush, registry, world, Pcs
  <2>4. CASE /\ object # Nil /\ object.lineage = proc[p].recorded
             /\ Goto(p, "read back") /\ UNCHANGED object
    <3>1. proc'[p].pc = "read back" /\ proc'[p].cmd = "create" /\ proc'[p].recorded = proc[p].recorded
      BY <2>1, <2>3, <2>4, GotoAlone
    <3>2. CreateFits(p)'
      BY <2>2, <2>3, <2>4, <3>1 DEF CreateFits, Entered, Registered, TheEntry, Status
    <3>3. CommandFits(p)'
      BY <3>1, <3>2 DEF CommandFits
    <3>4. QED  BY <2>1, <2>3, <2>4, <3>3, QuietGoto
  <2>5. CASE Goto(p, "pushed") /\ object' = Forked(p, proc[p].base)
    <3>1. proc'[p].pc = "pushed" /\ proc'[p].cmd = "create" /\ Running' \subseteq {p} /\ Alone'
      BY <2>1, <2>3, <2>5, GotoAlone
    <3>2. Entered' /\ Status' = "creating" /\ TheEntry' = TheEntry
      BY <2>2, <2>3 DEF Entered, Registered, TheEntry, Status
    <3>3. CommandFits(p)'
      BY <3>1, <3>2 DEF CommandFits, CreateFits
    <3>4. DOMAIN object'.own = {}
      BY <2>5, NothingIsInstances DEF Forked
    <3>5. cloud \subseteq ObjectsOf(base.own) \cup kept
      BY <2>1, <2>2, OwnsNothing DEF Consistent, NoOrphans
    <3>6. NoOrphans'
      BY <2>3, <3>5 DEF NoOrphans
    <3>7. Consistent'
      BY <2>1, <2>2, <3>2, <3>4, <3>6 DEF Consistent, ObjectsAreRegistered
    <3>8. QED  BY <3>1, <3>3, <3>7, GoesOn
  <2>6. QED  BY <1>3, <2>4, <2>5 DEF CreatePush
<1>4. CASE CreateReadBack(p)
  <2> DEFINE m == [proc[p] EXCEPT !.pc = "read back", !.recorded = object.lineage]
  <2>1. /\ p \in Running /\ CreateFits(p)
        /\ proc[p] \in Locals /\ proc[p].cmd = "create" /\ proc[p].pc = "pushed"
    BY <1>4, ItFits DEF CreateReadBack, CommandFits, Pcs, Resting
  <2>2. /\ proc' = [proc EXCEPT ![p] = m] /\ m.cmd = "create" /\ m.pc = "read back"
        /\ m.recorded = object.lineage
    BY <1>4, <2>1 DEF CreateReadBack, Locals
  <2> HIDE DEF m
  <2>3. UNCHANGED <<doc, lineage, object, base, cloud, kept>>
    BY <1>4 DEF CreateReadBack, registry, state, world
  <2>4. ASSUME proc'[p] = m  PROVE CommandFits(p)'
    <3>1. CreateFits(p)'
      BY <2>1, <2>2, <2>3, <2>4 DEF CreateFits, Entered, Registered, TheEntry, Status
    <3>2. QED  BY <2>2, <2>4, <3>1 DEF CommandFits
  <2>5. QED  BY <2>1, <2>2, <2>3, <2>4, QuietStep
<1>5. CASE CreateFlip(p)
  <2>1. /\ p \in Running /\ CreateFits(p) /\ Alone /\ Consistent
        /\ proc[p].cmd = "create" /\ proc[p].pc = "read back"
    BY <1>5, ItFits DEF CreateFlip, CommandFits, Pcs, Resting
  <2>2. /\ doc' = Flip(doc, Me, proc[p].etag) /\ lineage' = proc[p].recorded /\ Return(p)
        /\ UNCHANGED <<object, base, cloud, kept>>
    BY <1>5 DEF CreateFlip, state, world
  <2>3. Running' = {} /\ Alone'
    BY <2>1, <2>2, ReturnAlone DEF Return, Resting
  <2>4. Entered /\ Status = "creating" /\ (object # Nil => object.lineage = lineage')
    BY <2>1, <2>2 DEF CreateFits
  <2>5. Me \in DOMAIN doc.overlays /\ IsDocument(doc)
    BY <2>4 DEF Entered, Registered, Typed
  <2>6. /\ Entered' /\ TheEntry'.claims = TheEntry.claims /\ Status' = "active"
    BY <2>2, <2>5, FlippedEntry, FlipIs DEF OnlyEntry, Entered, Registered, TheEntry, Status
  <2>7. NoOrphans'
    BY <2>1, <2>2 DEF Consistent, NoOrphans
  <2>8. Consistent'
    BY <2>1, <2>2, <2>4, <2>6, <2>7 DEF Consistent, ObjectsAreRegistered
  <2>9. QED  BY <2>3, <2>8, Rests
<1>6. QED  BY <1>1, <1>2, <1>3, <1>4, <1>5 DEF Create

LEMMA CreateSequential ==
    ASSUME Concurrent = 1, Typed, Sequential, NEW p \in Procs, Create(p)
    PROVE  Sequential'
<1>1. CASE CreateLoad(p)
  <2> DEFINE m == [Idle EXCEPT !.cmd = "create", !.pc = "loaded", !.etag = base.version,
                               !.entry = IF Entered THEN TheEntry ELSE Nil]
  <2>1. proc' = [proc EXCEPT ![p] = m] /\ Cardinality(Running) < Concurrent
    BY <1>1 DEF CreateLoad, Begin
  <2>2. m.cmd = "create" /\ m.pc = "loaded"
    BY DEF Idle
  <2> HIDE DEF m
  <2>3. Alone /\ Consistent
    BY DEF Sequential
  <2>4. Running = {}
    BY <2>1, <2>3, NobodyRuns
  <2>5. Running' \subseteq {p} /\ Alone' /\ proc'[p] = m
    BY <2>1, <2>3, <2>4, StepAlone
  <2>6. UNCHANGED <<doc, lineage, object, base, cloud, kept>>
    BY <1>1 DEF CreateLoad, registry, state, world
  <2>7. CreateFits(p)'
    BY <1>1, <2>2, <2>5, <2>6 DEF CreateLoad, CreateFits, Entered, Registered, TheEntry, Status
  <2>8. CommandFits(p)'
    BY <2>2, <2>5, <2>7 DEF CommandFits
  <2>9. QED  BY <2>3, <2>5, <2>6, <2>8, Unmoved, GoesOn
<1>2. CASE ~CreateLoad(p)
  BY <1>2, CreateGoesOn
<1>3. QED  BY <1>1, <1>2

\* What an apply plans is under the claims it is to acquire.
LEMMA PlanIs ==
    ASSUME Typed, Consistent, NEW p \in Procs, ApplyPlan(p)
    PROVE  /\ object # Nil
           /\ \E m : /\ proc' = [proc EXCEPT ![p] = m]
                     /\ m.cmd = "apply" /\ m.pc = "planned"
                     /\ m.object = object /\ m.ok = proc[p].ok
                     /\ AllCreate(m.claims) /\ m.want \subseteq DOMAIN m.claims
<1>1. PICK want \in SUBSET Addresses, replaced \in SUBSET DOMAIN object.own :
         LET created == (want \ DOMAIN object.own) \cup replaced
             deleted == DOMAIN object.own \ want
         IN  proc' = [proc EXCEPT
                   ![p].pc = "planned", ![p].object = object,
                   ![p].want = want, ![p].replaced = replaced,
                   ![p].claims = PlannedClaims(TheEntry, created, deleted)]
  BY DEF ApplyPlan
<1> DEFINE created == (want \ DOMAIN object.own) \cup replaced
           deleted == DOMAIN object.own \ want
           claims == PlannedClaims(TheEntry, created, deleted)
           m == [proc[p] EXCEPT !.pc = "planned", !.object = object, !.want = want,
                                !.replaced = replaced, !.claims = claims]
<1>2. proc[p] \in Locals /\ proc[p].cmd = "apply"
  BY UnderWay DEF ApplyPlan, Pcs, Resting
<1>3. Entered /\ object # Nil /\ TheEntry \in Entry /\ DOMAIN object.own \subseteq Addresses
  BY GateOpens, EnteredIs, ObjectIs, InstancesAre DEF ApplyPlan, Valid
<1>4. created \in SUBSET Addresses
  BY <1>3
<1>5. AllCreate(claims) /\ want \subseteq DOMAIN claims
  <2> HIDE DEF created, deleted
  <2>1. DOMAIN claims = (DOMAIN TheEntry.claims \ deleted) \cup created
    BY <1>3, <1>4, PlannedClaimsAre
  <2>2. DOMAIN object.own \subseteq DOMAIN TheEntry.claims
    BY <1>3 DEF Consistent
  <2>3. AllCreate(claims)
    BY <1>3, <1>4, PlannedKinds DEF Consistent
  <2> HIDE DEF claims
  <2>4. QED  BY <2>1, <2>2, <2>3 DEF created, deleted
<1> HIDE DEF claims
<1>6. proc' = [proc EXCEPT ![p] = m]
  BY <1>1 DEF claims
<1>7. /\ m.cmd = "apply" /\ m.pc = "planned" /\ m.object = object
      /\ m.want = want /\ m.claims = claims /\ m.ok = proc[p].ok
  BY <1>2 DEF Locals
<1> HIDE DEF m
<1>8. QED  BY <1>3, <1>5, <1>6, <1>7

LEMMA ApplyPlanSequential ==
    ASSUME Typed, Sequential, NEW p \in Procs, ApplyPlan(p)  PROVE Sequential'
<1>1. p \in Running /\ ApplyFits(p) /\ Consistent
  BY ItFits DEF ApplyPlan, CommandFits, Pcs, Resting
<1>2. PICK m : /\ proc' = [proc EXCEPT ![p] = m]
               /\ m.cmd = "apply" /\ m.pc = "planned" /\ m.object = object
               /\ AllCreate(m.claims) /\ m.want \subseteq DOMAIN m.claims
  BY <1>1, PlanIs
<1>3. UNCHANGED <<doc, lineage, object, base, cloud, kept>>
  BY DEF ApplyPlan, registry, state, world
<1>4. ASSUME proc'[p] = m  PROVE CommandFits(p)'
  <2>1. ApplyFits(p)'
    BY <1>1, <1>2, <1>3, <1>4 DEF ApplyFits, Entered, Registered, TheEntry, Status
  <2>2. QED  BY <1>2, <1>4, <2>1 DEF CommandFits
<1>5. QED  BY <1>1, <1>2, <1>3, <1>4, QuietStep

\* Acquiring adds the claims of the plan to those of the entry.
LEMMA AcquiredIs ==
    ASSUME Typed, Consistent, NEW p \in Procs, ApplyAcquire(p),
           Entered, Status # "creating", AllCreate(proc[p].claims)
    PROVE  /\ Consistent' /\ Entered' /\ Status' = "applying" /\ TheEntry'.run = p
           /\ DOMAIN TheEntry'.claims = DOMAIN TheEntry.claims \cup DOMAIN proc[p].claims
           /\ \E m : /\ proc' = [proc EXCEPT ![p] = m]
                     /\ m.cmd = "apply" /\ m.pc = "acquired" /\ AllCreate(m.claims)
                     /\ m.object = proc[p].object /\ m.want = proc[p].want
                     /\ m.ok = proc[p].ok
<1> DEFINE gone == DOMAIN proc[p].entry.claims \ DOMAIN proc[p].claims
           got == TheEntry'.claims
           claims == Restrict(got, DOMAIN got \ gone)
           m == [proc[p] EXCEPT !.pc = "acquired", !.released = gone, !.claims = claims]
<1>1. proc' = [proc EXCEPT ![p] = m]
  BY DEF ApplyAcquire, TheEntry
<1>2. proc[p] \in Locals /\ proc[p].cmd = "apply" /\ proc[p].claims \in ClaimMap
  <2>1. proc[p] \in Locals /\ proc[p].cmd = "apply"
    BY UnderWay DEF ApplyAcquire, Pcs, Resting
  <2>2. QED  BY <2>1 DEF Locals
<1>3. Me \in DOMAIN doc.overlays /\ IsDocument(doc) /\ TheEntry.claims \in ClaimMap
  BY EnteredIs DEF Typed, Entry
<1>4. doc' = AcquireClaims(doc, Me, proc[p].claims, p)
      /\ UNCHANGED <<lineage, object, base, cloud, kept>>
  BY DEF ApplyAcquire, state, world
<1>5. /\ Entered' /\ Status' = "applying" /\ TheEntry'.run = p
      /\ got = MergeClaims(TheEntry.claims, proc[p].claims)
  BY <1>2, <1>3, <1>4, AcquireIs DEF OnlyEntry, Entered, Registered, TheEntry, Status
<1> HIDE DEF got
<1>6. /\ got \in ClaimMap /\ AllCreate(got)
      /\ DOMAIN got = DOMAIN TheEntry.claims \cup DOMAIN proc[p].claims
  <2>1. AllCreate(TheEntry.claims)
    BY DEF Consistent
  <2>2. QED  BY <1>2, <1>3, <1>5, <2>1, MergedKinds, MergeClaimsIs
<1>7. AllCreate(claims)
  BY <1>6, RestrictedKinds
<1> HIDE DEF claims, gone
<1>8. /\ m.cmd = "apply" /\ m.pc = "acquired" /\ m.claims = claims
      /\ m.object = proc[p].object /\ m.want = proc[p].want /\ m.ok = proc[p].ok
  BY <1>2 DEF Locals
<1> HIDE DEF m
<1>9. NoOrphans'
  BY <1>4 DEF Consistent, NoOrphans
<1>10. Consistent'
  BY <1>4, <1>5, <1>6, <1>9 DEF Consistent, ObjectsAreRegistered, got
<1>11. QED  BY <1>1, <1>5, <1>6, <1>7, <1>8, <1>10 DEF got

LEMMA ApplyAcquireSequential ==
    ASSUME Typed, Sequential, NEW p \in Procs, ApplyAcquire(p)  PROVE Sequential'
<1>1. /\ p \in Running /\ ApplyFits(p) /\ Alone /\ Consistent /\ proc[p].pc = "planned"
  BY ItFits DEF ApplyAcquire, CommandFits, Pcs, Resting
<1>2. /\ Consistent' /\ Entered' /\ Status' = "applying"
      /\ DOMAIN TheEntry'.claims = DOMAIN TheEntry.claims \cup DOMAIN proc[p].claims
      /\ \E m : /\ proc' = [proc EXCEPT ![p] = m]
                /\ m.cmd = "apply" /\ m.pc = "acquired" /\ AllCreate(m.claims)
                /\ m.object = proc[p].object /\ m.want = proc[p].want
  BY <1>1, AcquiredIs DEF ApplyFits
<1>3. PICK m : /\ proc' = [proc EXCEPT ![p] = m]
               /\ m.cmd = "apply" /\ m.pc = "acquired" /\ AllCreate(m.claims)
               /\ m.object = proc[p].object /\ m.want = proc[p].want
  BY <1>2
<1>4. Running' \subseteq {p} /\ Alone' /\ proc'[p] = m
  BY <1>1, <1>3, StepAlone
<1>5. object' = object
  BY DEF ApplyAcquire, state
<1>6. ApplyFits(p)'
  BY <1>1, <1>2, <1>3, <1>4, <1>5 DEF ApplyFits
<1>7. CommandFits(p)'
  BY <1>3, <1>4, <1>6 DEF CommandFits
<1>8. QED  BY <1>2, <1>4, <1>7, GoesOn

\* What an apply writes, when it has the current state, stays under the claims
\* of the entry, and loses nothing.
LEMMA WriteIs ==
    ASSUME Typed, Consistent, NEW p \in Procs, ApplyWrite(p), object = proc[p].object,
           Entered, Status # "creating", proc[p].want \subseteq DOMAIN TheEntry.claims
    PROVE  /\ Consistent' /\ UNCHANGED doc
           /\ object' # Nil /\ object'.serial = object.serial + 1
           /\ \E m : /\ proc' = [proc EXCEPT ![p] = m]
                     /\ m.cmd = "apply" /\ m.pc = "applied" /\ m.claims = proc[p].claims
<1> DEFINE me == proc[p]
           own == me.object.own
<1>1. me \in Locals /\ LocalsFit(me) /\ me.cmd = "apply" /\ me.pc = "applying"
  BY UnderWay DEF ApplyWrite, Pcs, Resting
<1>2. /\ me.object \in StateObject /\ me.want \in SUBSET Addresses /\ own \in Instances
      /\ me.replaced \in SUBSET Addresses
  <2>1. me.object \in StateObject
    BY <1>1 DEF LocalsFit
  <2>2. QED  BY <1>1, <2>1 DEF Locals, StateObject
<1>3. Changes(p) \subseteq Addresses
  BY <1>2, InstancesAre DEF Changes
<1>4. PICK some \in SUBSET Changes(p) :
         /\ cloud' = (cloud \ ObjectsOf(Restrict(own, DOMAIN own \cap some)))
                        \cup ObjectsOf(Restrict(After(p, some), DOMAIN After(p, some) \cap some))
         /\ object' = [me.object EXCEPT !.own = After(p, some), !.serial = @ + 1]
         /\ proc' = [proc EXCEPT ![p].pc = "applied", ![p].ok = (some = Changes(p))]
  BY DEF ApplyWrite
<1> DEFINE after == After(p, some)
<1>5. /\ after \in Instances /\ DOMAIN after = (DOMAIN own \ some) \cup (some \cap me.want)
      /\ \A a \in DOMAIN after : after[a] = IF a \in some THEN p ELSE own[a]
  <2>1. some \in SUBSET Addresses
    BY <1>3
  <2>2. proc[p].object.own \in Instances /\ proc[p].want \in SUBSET Addresses
    BY <1>2
  <2>3. QED  BY <2>1, <2>2, AfterIs, ZenonT(40)
<1>6. /\ object' \in StateObject /\ object'.own = after /\ object'.lineage = me.object.lineage
      /\ object'.serial = me.object.serial + 1
  <2>1. object' = [me.object EXCEPT !.own = after, !.serial = @ + 1]
    BY <1>4
  <2>2. me.object \in StateObject /\ after \in Instances
    BY <1>2, <1>5
  <2> HIDE DEF after, me
  <2>3. QED  BY <2>1, <2>2, WrittenIs
<1> HIDE DEF after
<1>7. UNCHANGED <<doc, lineage, base, kept>>
  BY DEF ApplyWrite, registry
<1>8. Entered' /\ TheEntry' = TheEntry /\ Status' = Status
  BY <1>7 DEF Entered, Registered, TheEntry, Status
<1>9. object' # Nil /\ object # Nil
  BY <1>2, <1>6, ObjectAssumption
<1>10. DOMAIN after \subseteq DOMAIN TheEntry.claims /\ object'.lineage = lineage
  BY <1>5, <1>6, <1>9 DEF Consistent
<1>11. NoOrphans'
  <2>1. ASSUME NEW k \in cloud'
        PROVE  k \in ObjectsOf(after) \cup ObjectsOf(base.own) \cup kept
    <3>1. CASE k \in ObjectsOf(Restrict(after, DOMAIN after \cap some))
      <4>1. Restrict(after, DOMAIN after \cap some) = [a \in DOMAIN after \cap some |-> after[a]]
        BY DEF Restrict
      <4>2. QED  BY <3>1, <4>1 DEF ObjectsOf
    <3>2. CASE k \in cloud /\ k \notin ObjectsOf(Restrict(own, DOMAIN own \cap some))
      <4>1. k \in ObjectsOf(own) \cup ObjectsOf(base.own) \cup kept
        BY <1>9, <3>2 DEF Consistent, NoOrphans
      <4>2. CASE k \in ObjectsOf(own)
        <5>1. PICK a \in DOMAIN own : k = <<a, own[a]>>
          BY <4>2 DEF ObjectsOf
        <5>2. Restrict(own, DOMAIN own \cap some) = [b \in DOMAIN own \cap some |-> own[b]]
          BY DEF Restrict
        <5>3. a \notin some
          BY <3>2, <5>1, <5>2 DEF ObjectsOf
        <5>4. a \in DOMAIN after /\ k = <<a, after[a]>>
          BY <1>5, <5>1, <5>3
        <5>5. QED  BY <5>4 DEF ObjectsOf
      <4>3. QED  BY <4>1, <4>2
    <3>3. QED  BY <1>4, <3>1, <3>2 DEF after
  <2>2. QED  BY <1>6, <1>7, <1>9, <2>1 DEF NoOrphans
<1>12. Consistent'
  BY <1>6, <1>7, <1>8, <1>10, <1>11 DEF Consistent, ObjectsAreRegistered
<1>13. PICK ok : proc' = [proc EXCEPT ![p].pc = "applied", ![p].ok = ok]
  BY <1>4
<1> DEFINE m == [me EXCEPT !.pc = "applied", !.ok = ok]
<1>14. proc' = [proc EXCEPT ![p] = m]
  BY <1>13
<1>15. m.cmd = "apply" /\ m.pc = "applied" /\ m.claims = me.claims
  BY <1>1 DEF Locals
<1> HIDE DEF m
<1>16. QED  BY <1>6, <1>7, <1>9, <1>12, <1>14, <1>15

LEMMA ApplyWriteSequential ==
    ASSUME Typed, Sequential, NEW p \in Procs, ApplyWrite(p)  PROVE Sequential'
<1>1. p \in Running /\ ApplyFits(p) /\ Alone /\ Consistent /\ proc[p].pc = "applying"
  BY ItFits DEF ApplyWrite, CommandFits, Pcs, Resting
<1>2. /\ Consistent' /\ UNCHANGED doc
      /\ \E m : /\ proc' = [proc EXCEPT ![p] = m]
                /\ m.cmd = "apply" /\ m.pc = "applied" /\ m.claims = proc[p].claims
  BY <1>1, WriteIs DEF ApplyFits
<1>3. PICK m : /\ proc' = [proc EXCEPT ![p] = m]
               /\ m.cmd = "apply" /\ m.pc = "applied" /\ m.claims = proc[p].claims
  BY <1>2
<1>4. Running' \subseteq {p} /\ Alone' /\ proc'[p] = m
  BY <1>1, <1>3, StepAlone
<1>5. ApplyFits(p)'
  BY <1>1, <1>2, <1>3, <1>4 DEF ApplyFits, Entered, Registered, TheEntry, Status
<1>6. CommandFits(p)'
  BY <1>3, <1>4, <1>5 DEF CommandFits
<1>7. QED  BY <1>2, <1>4, <1>6, GoesOn

LEMMA ApplyPullSequential ==
    ASSUME Typed, Sequential, NEW p \in Procs, ApplyPull(p)  PROVE Sequential'
<1>1. /\ p \in Running /\ ApplyFits(p)
      /\ proc[p] \in Locals /\ proc[p].cmd = "apply" /\ proc[p].claims \in ClaimMap
  <2>1. p \in Running /\ ApplyFits(p) /\ proc[p] \in Locals /\ proc[p].cmd = "apply"
    BY ItFits DEF ApplyPull, CommandFits, Pcs, Resting
  <2>2. QED  BY <2>1 DEF Locals
<1>2. UNCHANGED <<doc, lineage, object, base, cloud, kept>>
  BY DEF ApplyPull, registry, state, world
<1>3. ASSUME NEW m, proc' = [proc EXCEPT ![p] = m], m.cmd = "apply", m.pc = "refreshed",
             AllCreate(m.claims), object # Nil => m.released \cap DOMAIN object.own = {}
      PROVE  Sequential'
  <2>1. ASSUME proc'[p] = m  PROVE CommandFits(p)'
    <3>1. ApplyFits(p)'
      BY <1>1, <1>2, <1>3, <2>1 DEF ApplyFits, Entered, Registered, TheEntry, Status
    <3>2. QED  BY <1>3, <2>1, <3>1 DEF CommandFits
  <2>2. QED  BY <1>1, <1>2, <1>3, <2>1, QuietStep
<1>4. CASE /\ object # Nil
           /\ proc' = [proc EXCEPT
                 ![p].pc = "refreshed", ![p].claims = ClaimsFromState(@, object),
                 ![p].released = @ \ Present(object)]
  <2> DEFINE claims == ClaimsFromState(proc[p].claims, object)
             released == proc[p].released \ Present(object)
             m == [proc[p] EXCEPT !.pc = "refreshed", !.claims = claims, !.released = released]
  <2>1. proc' = [proc EXCEPT ![p] = m]
    BY <1>1, <1>4 DEF Typed
  <2>2. AllCreate(claims)
    BY <1>1, <1>4, ObjectIs, RefreshedKinds DEF ApplyFits
  <2>3. released \cap DOMAIN object.own = {}
    BY DEF Present
  <2> HIDE DEF claims, released
  <2>4. m.cmd = "apply" /\ m.pc = "refreshed" /\ m.claims = claims /\ m.released = released
    BY <1>1 DEF Locals
  <2> HIDE DEF m
  <2>5. QED  BY <1>3, <2>1, <2>2, <2>3, <2>4
<1>5. CASE proc' = [proc EXCEPT ![p].pc = "refreshed", ![p].released = {}]
  <2> DEFINE m == [proc[p] EXCEPT !.pc = "refreshed", !.released = {}]
  <2>1. proc' = [proc EXCEPT ![p] = m]
    BY <1>5
  <2>2. m.cmd = "apply" /\ m.pc = "refreshed" /\ m.claims = proc[p].claims /\ m.released = {}
    BY <1>1 DEF Locals
  <2> HIDE DEF m
  <2>3. QED  BY <1>1, <1>3, <2>1, <2>2 DEF ApplyFits
<1>6. QED  BY <1>4, <1>5 DEF ApplyPull

\* Finishing drops only claims of what the state has not got any more, and none
\* if the apply failed.
LEMMA FinishedConsistent ==
    ASSUME Typed, Consistent, NEW p \in Procs, ApplyFinish(p),
           Entered, Status # "creating", AllCreate(proc[p].claims),
           (proc[p].ok /\ object # Nil) => proc[p].released \cap DOMAIN object.own = {}
    PROVE  /\ Consistent' /\ Entered' /\ TheEntry'.run = Nil
           /\ Status' = IF proc[p].ok THEN "active" ELSE "dirty"
           /\ ~proc[p].ok => DOMAIN TheEntry.claims \subseteq DOMAIN TheEntry'.claims
           /\ \E pc \in Resting \ {"idle"} : proc' = [proc EXCEPT ![p] = Ended(pc)]
<1> DEFINE me == proc[p]
<1>1. me \in Locals
  BY DEF Typed
<1>2. me.claims \in ClaimMap /\ me.ok \in BOOLEAN
  BY <1>1 DEF Locals
<1>3. Me \in DOMAIN doc.overlays /\ IsDocument(doc) /\ TheEntry.claims \in ClaimMap
  BY EnteredIs DEF Typed, Entry
<1>4. /\ doc' = FinishApply(doc, Me, me.ok, me.claims, me.released)
      /\ UNCHANGED <<lineage, object, base, cloud, kept>>
  BY DEF ApplyFinish, state, world
<1> DEFINE dropped == IF me.ok THEN me.released ELSE {}
           claims == FinishClaims(TheEntry.claims, me.claims, me.released, dropped)
<1> HIDE DEF me
<1>5. /\ TheEntry'.claims = claims /\ Entered' /\ TheEntry'.run = Nil
      /\ Status' = IF me.ok THEN "active" ELSE "dirty"
  <2>1. TheEntry'.claims = claims /\ Status' \in {"active", "dirty"}
        /\ Status' = IF me.ok THEN "active" ELSE "dirty"
    BY <1>2, <1>3, <1>4, FinishedEntry DEF TheEntry, Status
  <2>2. Entered'
    BY <1>2, <1>3, <1>4, FinishIs DEF OnlyEntry, Entered, Registered
  <2>3. TheEntry'.run = Nil
    BY <1>2, <1>3, <1>4, FinishIs DEF TheEntry
  <2>4. QED  BY <2>1, <2>2, <2>3
<1> HIDE DEF dropped
<1>6. AllCreate(claims)
  <2>1. AllCreate(TheEntry.claims) /\ AllCreate(me.claims)
    BY DEF Consistent, me
  <2>2. QED  BY <1>2, <1>3, <2>1, FinishedKinds
<1>7. \A a \in DOMAIN TheEntry.claims : a \notin dropped => a \in DOMAIN claims
  BY <1>2, <1>3, FinishClaimsIs
<1> HIDE DEF claims
<1>8. object # Nil => DOMAIN object.own \subseteq DOMAIN claims
  <2> SUFFICES ASSUME object # Nil, NEW a \in DOMAIN object.own  PROVE a \in DOMAIN claims
    OBVIOUS
  <2>1. a \in DOMAIN TheEntry.claims
    BY DEF Consistent
  <2>2. me.ok => a \notin me.released
    BY DEF me
  <2>3. QED  BY <1>7, <2>1, <2>2 DEF dropped
<1>9. Consistent'
  <2>1. NoOrphans'
    BY <1>4 DEF Consistent, NoOrphans
  <2>2. QED
    BY <1>4, <1>5, <1>6, <1>8, <2>1 DEF Consistent, ObjectsAreRegistered
<1>10. ~me.ok => DOMAIN TheEntry.claims \subseteq DOMAIN TheEntry'.claims
  BY <1>5, <1>7 DEF dropped
<1>11. \E pc \in Resting \ {"idle"} : proc' = [proc EXCEPT ![p] = Ended(pc)]
  <2> DEFINE pc == IF proc[p].ok THEN "returned" ELSE "stopped"
  <2>1. pc \in Resting \ {"idle"}
    BY DEF Resting
  <2>2. proc' = [proc EXCEPT ![p] = Ended(pc)]
    BY DEF ApplyFinish
  <2> HIDE DEF pc
  <2>3. QED  BY <2>1, <2>2
<1>12. QED  BY <1>5, <1>9, <1>10, <1>11 DEF me

LEMMA ApplyFinishSequential ==
    ASSUME Typed, Sequential, NEW p \in Procs, ApplyFinish(p)  PROVE Sequential'
<1>1. p \in Running /\ ApplyFits(p) /\ Alone /\ Consistent /\ proc[p].pc = "refreshed"
  BY ItFits DEF ApplyFinish, CommandFits, Pcs, Resting
<1>2. Consistent' /\ \E pc \in Resting \ {"idle"} : proc' = [proc EXCEPT ![p] = Ended(pc)]
  BY <1>1, FinishedConsistent DEF ApplyFits
<1>3. Running' = {} /\ Alone'
  BY <1>1, <1>2, ReturnAlone
<1>4. QED  BY <1>2, <1>3, Rests

LEMMA NotCreating == ASSUME NEW S, Gate(S), "creating" \notin S  PROVE Entered /\ Status # "creating"
BY DEF Gate, EffectiveStatus, StaleApplying, Status

LEMMA ApplySequential ==
    ASSUME Concurrent = 1, Typed, Sequential, NEW p \in Procs, Apply(p)
    PROVE  Sequential'
<1>1. CASE ApplyLoad(p)
  <2>1. Entered /\ Status # "creating" /\ BeginLoaded(p, "apply", "loaded")
        /\ UNCHANGED <<registry, state, world>>
    BY <1>1, NotCreating DEF ApplyLoad
  <2>2. /\ Running' \subseteq {p} /\ Alone' /\ Consistent'
        /\ proc'[p].cmd = "apply" /\ proc'[p].pc = "loaded"
        /\ AllCreate(proc'[p].claims) /\ doc' = doc
    BY <2>1, BeginAlone
  <2>3. ApplyFits(p)'
    BY <2>1, <2>2 DEF ApplyFits, Entered, Registered, TheEntry, Status, AllCreate
  <2>4. CommandFits(p)'
    BY <2>2, <2>3 DEF CommandFits
  <2>5. QED  BY <2>2, <2>4, GoesOn
<1>2. CASE ApplyPlan(p)
  BY <1>2, ApplyPlanSequential
<1>3. CASE ApplyNothing(p)
  <2>1. p \in Running
    BY <1>3, AtRuns DEF ApplyNothing, Pcs, Resting
  <2>2. QED
    BY <1>3, <2>1, QuietReturn DEF ApplyNothing, Return, Resting, registry, state, world
<1>4. CASE ApplyAcquire(p)
  BY <1>4, ApplyAcquireSequential
<1>5. CASE ApplyStart(p)
  <2>1. /\ p \in Running /\ ApplyFits(p) /\ Alone
        /\ proc[p].cmd = "apply" /\ proc[p].pc = "acquired"
    BY <1>5, ItFits DEF ApplyStart, CommandFits, Pcs, Resting
  <2>2. Goto(p, "applying") /\ UNCHANGED <<doc, lineage, object, base, cloud, kept>>
        /\ "applying" \in Pcs
    BY <1>5 DEF ApplyStart, registry, world, Pcs
  <2>3. /\ proc'[p].pc = "applying" /\ proc'[p].cmd = "apply" /\ proc'[p].claims = proc[p].claims
        /\ proc'[p].object = proc[p].object /\ proc'[p].want = proc[p].want
    BY <2>1, <2>2, GotoAlone
  <2>4. ApplyFits(p)'
    BY <2>1, <2>2, <2>3 DEF ApplyFits, AllCreate, Entered, Registered, TheEntry, Status
  <2>5. CommandFits(p)'
    BY <2>3, <2>4 DEF CommandFits
  <2>6. QED  BY <2>1, <2>2, <2>5, QuietGoto
<1>6. CASE ApplyFails(p)
  <2>1. p \in Running /\ ApplyFits(p) /\ Alone /\ proc[p].cmd = "apply"
    BY <1>6, ItFits DEF ApplyFails, CommandFits, Pcs, Resting
  <2>2. Goto(p, "applied") /\ UNCHANGED <<doc, lineage, object, base, cloud, kept>>
        /\ "applied" \in Pcs
    BY <1>6 DEF ApplyFails, registry, state, world, Pcs
  <2>3. proc'[p].pc = "applied" /\ proc'[p].cmd = "apply" /\ proc'[p].claims = proc[p].claims
    BY <2>1, <2>2, GotoAlone
  <2>4. ApplyFits(p)'
    BY <2>1, <2>2, <2>3 DEF ApplyFits, AllCreate, Entered, Registered, TheEntry, Status
  <2>5. CommandFits(p)'
    BY <2>3, <2>4 DEF CommandFits
  <2>6. QED  BY <2>1, <2>2, <2>5, QuietGoto
<1>7. CASE ApplyWrite(p)
  BY <1>7, ApplyWriteSequential
<1>8. CASE ApplyPull(p)
  BY <1>8, ApplyPullSequential
<1>9. CASE ApplyFinish(p)
  BY <1>9, ApplyFinishSequential
<1>10. QED
  BY <1>1, <1>2, <1>3, <1>4, <1>5, <1>6, <1>7, <1>8, <1>9 DEF Apply

\* A command that only changes the status of the entry, and learns ids.
LEMMA StatusConsistent ==
    ASSUME Typed, Consistent, Entered, Status # "creating",
           NEW s, s # "creating", NEW etag, NEW c \in ClaimMap, AllCreate(c),
           doc' = SetStatus(doc, Me, s, etag, c), UNCHANGED <<lineage, object, base, cloud, kept>>
    PROVE  /\ Consistent' /\ Entered' /\ Status' = s /\ TheEntry'.run = TheEntry.run
           /\ DOMAIN TheEntry.claims \subseteq DOMAIN TheEntry'.claims
<1>1. Me \in DOMAIN doc.overlays /\ IsDocument(doc) /\ TheEntry.claims \in ClaimMap
  BY EnteredIs DEF Typed, Entry
<1>2. /\ Entered' /\ Status' = s /\ TheEntry'.run = TheEntry.run
      /\ TheEntry'.claims = MergeClaims(TheEntry.claims, c)
  BY <1>1, SetStatusIs DEF OnlyEntry, Entered, Registered, TheEntry, Status
<1>3. AllCreate(TheEntry'.claims) /\ DOMAIN TheEntry.claims \subseteq DOMAIN TheEntry'.claims
  <2>1. AllCreate(TheEntry.claims)
    BY DEF Consistent
  <2>2. QED  BY <1>1, <1>2, <2>1, MergedKinds
<1>4. NoOrphans'
  BY DEF Consistent, NoOrphans
<1>5. Consistent'
  BY <1>2, <1>3, <1>4 DEF Consistent, ObjectsAreRegistered
<1>6. QED  BY <1>2, <1>3, <1>5

LEMMA StatusSet ==
    ASSUME Typed, Sequential, NEW p \in Running, Entered, Status # "creating",
           NEW s, s # "creating", NEW etag, NEW c \in ClaimMap, AllCreate(c),
           doc' = SetStatus(doc, Me, s, etag, c), Return(p),
           UNCHANGED <<lineage, object, base, cloud, kept>>
    PROVE  Sequential'
<1>1. Alone /\ Consistent
  BY DEF Sequential
<1>2. Consistent'
  BY <1>1, StatusConsistent
<1>3. Running' = {} /\ Alone'
  BY <1>1, ReturnAlone DEF Return, Resting
<1>4. QED  BY <1>2, <1>3, Rests

LEMMA RebasePushSequential ==
    ASSUME Typed, Sequential, NEW p \in Procs, RebasePush(p)  PROVE Sequential'
<1>1. /\ p \in Running /\ RebaseFits(p) /\ Alone /\ Consistent
      /\ LocalsFit(proc[p]) /\ proc[p].cmd = "rebase" /\ proc[p].pc = "pulled"
  BY ItFits, UnderWay DEF RebasePush, CommandFits, Pcs, Resting
<1>2. /\ object' = Rebuilt(p) /\ Goto(p, "pushed") /\ object # Nil /\ "pushed" \in Pcs
      /\ UNCHANGED <<doc, lineage, base, cloud, kept>>
  BY DEF RebasePush, Pushable, registry, world, Pcs
<1>3. /\ proc[p].object \in StateObject /\ proc[p].base \in BaseState
      /\ proc[p].object = object /\ proc[p].entry = TheEntry /\ Entered /\ Status # "creating"
  BY <1>1 DEF RebaseFits, LocalsFit
<1>4. Creates(TheEntry.claims) = DOMAIN TheEntry.claims /\ DOMAIN object.own \subseteq DOMAIN TheEntry.claims
  BY <1>1, <1>2, <1>3, AllCreateIs DEF Consistent
<1>5. /\ object'.lineage = object.lineage /\ DOMAIN object'.own = DOMAIN object.own
      /\ \A a \in DOMAIN object.own : object'.own[a] = object.own[a]
      /\ object' \in StateObject
  BY <1>2, <1>3, <1>4, RebuiltIs
<1>6. ObjectsOf(object'.own) = ObjectsOf(object.own) /\ object' # Nil
  BY <1>5, ObjectAssumption DEF ObjectsOf
<1>7. Entered' /\ TheEntry' = TheEntry /\ Status' = Status
  BY <1>2, <1>3 DEF Entered, Registered, TheEntry, Status
<1>8. NoOrphans'
  BY <1>1, <1>2, <1>6 DEF Consistent, NoOrphans
<1>9. Consistent'
  BY <1>1, <1>2, <1>3, <1>5, <1>7, <1>8 DEF Consistent, ObjectsAreRegistered
<1>10. /\ Running' \subseteq {p} /\ Alone'
       /\ proc'[p].cmd = "rebase" /\ proc'[p].pc = "pushed" /\ proc'[p].entry = proc[p].entry
  BY <1>1, <1>2, GotoAlone
<1>11. CommandFits(p)'
  BY <1>3, <1>7, <1>10 DEF CommandFits, RebaseFits
<1>12. QED  BY <1>9, <1>10, <1>11, GoesOn

LEMMA RebaseSequential ==
    ASSUME Concurrent = 1, Typed, Sequential, NEW p \in Procs, Rebase(p)
    PROVE  Sequential'
<1>1. CASE RebaseLoad(p)
  <2>1. Entered /\ Status # "creating" /\ BeginLoaded(p, "rebase", "loaded")
        /\ UNCHANGED <<registry, state, world>>
    BY <1>1, NotCreating DEF RebaseLoad
  <2>2. /\ Running' \subseteq {p} /\ Alone' /\ Consistent'
        /\ proc'[p].cmd = "rebase" /\ proc'[p].pc = "loaded"
        /\ proc'[p].entry = TheEntry' /\ doc' = doc
    BY <2>1, BeginAlone
  <2>3. CommandFits(p)'
    BY <2>1, <2>2 DEF CommandFits, RebaseFits, Entered, Registered, TheEntry, Status
  <2>4. QED  BY <2>2, <2>3, GoesOn
<1>2. CASE RebaseRead(p)
  <2> DEFINE m == [proc[p] EXCEPT !.pc = "read", !.etag = base.version, !.object = object]
  <2>1. p \in Running /\ RebaseFits(p) /\ proc[p] \in Locals /\ proc[p].cmd = "rebase"
    BY <1>2, ItFits DEF RebaseRead, CommandFits, Pcs, Resting
  <2>2. /\ proc' = [proc EXCEPT ![p] = m] /\ m.cmd = "rebase" /\ m.pc = "read"
        /\ m.object = object /\ m.entry = proc[p].entry
    BY <1>2, <2>1 DEF RebaseRead, Locals
  <2> HIDE DEF m
  <2>3. UNCHANGED <<doc, lineage, object, base, cloud, kept>>
    BY <1>2 DEF RebaseRead, registry, state, world
  <2>4. ASSUME proc'[p] = m  PROVE CommandFits(p)'
    BY <2>1, <2>2, <2>3, <2>4
       DEF CommandFits, RebaseFits, Entered, Registered, TheEntry, Status
  <2>5. QED  BY <2>1, <2>2, <2>3, <2>4, QuietStep
<1>3. CASE RebasePull(p)
  <2> DEFINE m == [proc[p] EXCEPT !.pc = "pulled", !.base = base]
  <2>1. /\ p \in Running /\ RebaseFits(p) /\ proc[p] \in Locals
        /\ proc[p].cmd = "rebase" /\ proc[p].pc = "read"
    BY <1>3, ItFits DEF RebasePull, CommandFits, Pcs, Resting
  <2>2. /\ proc' = [proc EXCEPT ![p] = m] /\ m.cmd = "rebase" /\ m.pc = "pulled"
        /\ m.object = proc[p].object /\ m.entry = proc[p].entry
    BY <1>3, <2>1 DEF RebasePull, Locals
  <2> HIDE DEF m
  <2>3. UNCHANGED <<doc, lineage, object, base, cloud, kept>>
    BY <1>3 DEF RebasePull, registry, state, world
  <2>4. ASSUME proc'[p] = m  PROVE CommandFits(p)'
    BY <2>1, <2>2, <2>3, <2>4
       DEF CommandFits, RebaseFits, Entered, Registered, TheEntry, Status
  <2>5. QED  BY <2>1, <2>2, <2>3, <2>4, QuietStep
<1>4. CASE RebasePush(p)
  BY <1>4, RebasePushSequential
<1>5. CASE RebaseRecord(p)
  <2>1. p \in Running /\ RebaseFits(p)
    BY <1>5, ItFits DEF RebaseRecord, CommandFits, Pcs, Resting
  <2>2. << >> \in ClaimMap /\ AllCreate(<< >>)
    BY EmptyIsClaims DEF AllCreate
  <2>3. doc' = SetStatus(doc, Me, "active", proc[p].etag, << >>) /\ Return(p)
        /\ UNCHANGED <<lineage, object, base, cloud, kept>>
    BY <1>5 DEF RebaseRecord, state, world
  <2>4. Entered /\ Status # "creating"
    BY <2>1 DEF RebaseFits
  <2>5. QED  BY <2>1, <2>2, <2>3, <2>4, StatusSet
<1>6. QED  BY <1>1, <1>2, <1>3, <1>4, <1>5 DEF Rebase

LEMMA MergeSequential ==
    ASSUME Concurrent = 1, Typed, Sequential, NEW p \in Procs, Merge(p)
    PROVE  Sequential'
<1>1. CASE MergeLoad(p)
  <2>1. Entered /\ Status # "creating" /\ BeginLoaded(p, "merge", "loaded")
        /\ UNCHANGED <<registry, state, world>>
    BY <1>1, NotCreating DEF MergeLoad
  <2>2. /\ Running' \subseteq {p} /\ Alone' /\ Consistent'
        /\ proc'[p].cmd = "merge" /\ proc'[p].pc = "loaded"
        /\ proc'[p].entry = TheEntry' /\ AllCreate(proc'[p].claims) /\ doc' = doc
    BY <2>1, BeginAlone
  <2>3. MergeFits(p)'
    BY <2>1, <2>2 DEF MergeFits, Entered, Registered, TheEntry, Status, AllCreate
  <2>4. CommandFits(p)'
    BY <2>2, <2>3 DEF CommandFits
  <2>5. QED  BY <2>2, <2>4, GoesOn
<1>2. CASE MergeRead(p)
  <2> DEFINE claims == ClaimsFromState(proc[p].entry.claims, object)
             m == [proc[p] EXCEPT !.pc = "refreshed", !.claims = claims]
  <2>1. /\ p \in Running /\ MergeFits(p) /\ proc[p] \in Locals /\ proc[p].cmd = "merge"
        /\ Consistent
    BY <1>2, ItFits DEF MergeRead, CommandFits, Pcs, Resting
  <2>2. AllCreate(claims)
    <3>1. object # Nil /\ Entered /\ proc[p].entry = TheEntry
      BY <1>2, <2>1 DEF MergeRead, Valid, MergeFits
    <3>2. object \in StateObject /\ TheEntry.claims \in ClaimMap /\ AllCreate(TheEntry.claims)
      BY <2>1, <3>1, ObjectIs, EnteredIs DEF Entry, Consistent
    <3>3. QED  BY <3>1, <3>2, RefreshedKinds
  <2> HIDE DEF claims
  <2>3. /\ proc' = [proc EXCEPT ![p] = m] /\ m.cmd = "merge" /\ m.pc = "refreshed"
        /\ m.claims = claims /\ m.entry = proc[p].entry
    BY <1>2, <2>1 DEF MergeRead, Locals, claims
  <2> HIDE DEF m
  <2>4. UNCHANGED <<doc, lineage, object, base, cloud, kept>>
    BY <1>2 DEF MergeRead, registry, state, world
  <2>5. ASSUME proc'[p] = m  PROVE CommandFits(p)'
    <3>1. MergeFits(p)'
      BY <2>1, <2>2, <2>3, <2>4, <2>5
         DEF MergeFits, Entered, Registered, TheEntry, Status, AllCreate
    <3>2. QED  BY <2>3, <2>5, <3>1 DEF CommandFits
  <2>6. QED  BY <2>1, <2>3, <2>4, <2>5, QuietStep
<1>3. CASE MergeVerify(p)
  <2>1. p \in Running /\ MergeFits(p) /\ Alone /\ proc[p].cmd = "merge"
    BY <1>3, ItFits DEF MergeVerify, CommandFits, Pcs, Resting
  <2>2. Goto(p, "verified") /\ UNCHANGED <<doc, lineage, object, base, cloud, kept>>
        /\ "verified" \in Pcs
    BY <1>3 DEF MergeVerify, registry, state, world, Pcs
  <2>3. /\ proc'[p].pc = "verified" /\ proc'[p].cmd = "merge" /\ proc'[p].claims = proc[p].claims
        /\ proc'[p].entry = proc[p].entry
    BY <2>1, <2>2, GotoAlone
  <2>4. MergeFits(p)'
    BY <2>1, <2>2, <2>3 DEF MergeFits, AllCreate, Entered, Registered, TheEntry, Status
  <2>5. CommandFits(p)'
    BY <2>3, <2>4 DEF CommandFits
  <2>6. QED  BY <2>1, <2>2, <2>5, QuietGoto
<1>4. CASE MergeFreeze(p)
  <2>1. p \in Running /\ MergeFits(p) /\ proc[p] \in Locals
    BY <1>4, ItFits DEF MergeFreeze, CommandFits, Pcs, Resting
  <2>2. proc[p].claims \in ClaimMap /\ AllCreate(proc[p].claims)
    BY <2>1 DEF Locals, MergeFits
  <2>3. doc' = SetStatus(doc, Me, "merging", TheEntry.etag, proc[p].claims) /\ Return(p)
        /\ UNCHANGED <<lineage, object, base, cloud, kept>>
    BY <1>4 DEF MergeFreeze, state
  <2>4. Entered /\ Status # "creating"
    BY <2>1 DEF MergeFits
  <2>5. QED  BY <2>1, <2>2, <2>3, <2>4, StatusSet
<1>5. QED  BY <1>1, <1>2, <1>3, <1>4 DEF Merge

LEMMA UndoSequential ==
    ASSUME Concurrent = 1, Typed, Sequential, NEW p \in Procs, Undo(p)
    PROVE  Sequential'
<1>1. CASE UndoLoad(p)
  <2>1. Entered /\ Status # "creating" /\ BeginLoaded(p, "undo", "loaded")
        /\ UNCHANGED <<registry, state, world>>
    BY <1>1 DEF UndoLoad, Status
  <2>2. /\ Running' \subseteq {p} /\ Alone' /\ Consistent'
        /\ proc'[p].cmd = "undo" /\ doc' = doc
    BY <2>1, BeginAlone
  <2>3. CommandFits(p)'
    BY <2>1, <2>2 DEF CommandFits, UndoFits, Entered, Registered, TheEntry, Status
  <2>4. QED  BY <2>2, <2>3, GoesOn
<1>2. CASE UndoUnlink(p)
  <2>1. p \in Running /\ UndoFits(p) /\ Alone /\ proc[p].cmd = "undo"
    BY <1>2, ItFits DEF UndoUnlink, CommandFits, Pcs, Resting
  <2>2. Goto(p, "unlinked") /\ UNCHANGED <<doc, lineage, object, base, cloud, kept>>
        /\ "unlinked" \in Pcs
    BY <1>2 DEF UndoUnlink, registry, state, Pcs
  <2>3. proc'[p].cmd = "undo"
    BY <2>1, <2>2, GotoAlone
  <2>4. CommandFits(p)'
    BY <2>1, <2>2, <2>3 DEF CommandFits, UndoFits, Entered, Registered, TheEntry, Status
  <2>5. QED  BY <2>1, <2>2, <2>4, QuietGoto
<1>3. CASE UndoThaw(p)
  <2>1. p \in Running /\ UndoFits(p)
    BY <1>3, ItFits DEF UndoThaw, CommandFits, Pcs, Resting
  <2>2. << >> \in ClaimMap /\ AllCreate(<< >>)
    BY EmptyIsClaims DEF AllCreate
  <2>3. doc' = SetStatus(doc, Me, "active", TheEntry.etag, << >>) /\ Return(p)
        /\ UNCHANGED <<lineage, object, base, cloud, kept>>
    BY <1>3 DEF UndoThaw, state, world
  <2>4. Entered /\ Status # "creating"
    BY <2>1 DEF UndoFits
  <2>5. QED  BY <2>1, <2>2, <2>3, <2>4, StatusSet
<1>4. QED  BY <1>1, <1>2, <1>3 DEF Undo

LEMMA AbandonIsOn ==
    ASSUME Typed, Sequential, NEW p \in Procs, Abandons(p), proc[p].pc \in Pcs \ Resting
    PROVE  /\ p \in Running /\ Alone /\ Consistent /\ AbandonFits(p)
           /\ proc[p] \in Locals /\ proc[p].cmd \in {"abandon", "abandon keep"}
BY AbandonUnderWay, ItFits DEF Abandons, CommandFits

LEMMA AbandonGoto ==
    ASSUME Typed, Sequential, NEW p \in Running, Abandons(p), Consistent', NEW pc \in Pcs, Goto(p, pc),
           doc' = doc, pc # "checked", pc = "archived" => object' = Nil,
           (pc = "destroyed" /\ proc[p].cmd = "abandon" /\ object' # Nil) => DOMAIN object'.own = {}
    PROVE  Sequential'
<1>1. Alone /\ p \in Procs /\ CommandFits(p)
  BY DEF Sequential, Running
<1>2. AbandonFits(p)
  BY <1>1 DEF CommandFits, Abandons
<1>3. /\ Running' \subseteq {p} /\ Alone' /\ proc'[p].pc = pc
      /\ proc'[p].cmd = proc[p].cmd /\ proc'[p].entry = proc[p].entry
  BY <1>1, GotoAlone
<1>4. AbandonFits(p)'
  BY <1>2, <1>3 DEF AbandonFits, Entered, Registered, TheEntry
<1>5. CommandFits(p)'
  BY <1>3, <1>4 DEF CommandFits, Abandons
<1>6. QED  BY <1>3, <1>5, GoesOn

LEMMA AbandonCheckSequential ==
    ASSUME Typed, Sequential, NEW p \in Procs, AbandonCheck(p)  PROVE Sequential'
<1> DEFINE me == proc[p]
           bare == me.entry.status = "creating" /\ object = Nil
           pc == IF bare THEN "archived" ELSE IF me.cmd = "abandon" THEN "checked" ELSE "destroyed"
           m == [me EXCEPT !.object = object, !.pc = pc]
<1>1. /\ p \in Running /\ AbandonFits(p)
      /\ me \in Locals /\ me.cmd \in {"abandon", "abandon keep"}
  BY AbandonIsOn DEF AbandonCheck, Pcs, Resting
<1>2. UNCHANGED <<doc, lineage, object, base, cloud, kept>> /\ proc' = [proc EXCEPT ![p] = m]
  BY DEF AbandonCheck, registry, state, world
<1>3. /\ pc = "archived" => object = Nil
      /\ pc = "destroyed" => me.cmd = "abandon keep"
  BY <1>1
<1> HIDE DEF pc
<1>4. m.cmd = me.cmd /\ m.pc = pc /\ m.object = object /\ m.entry = me.entry
  BY <1>1 DEF Locals
<1> HIDE DEF m
<1>5. ASSUME proc'[p] = m  PROVE CommandFits(p)'
  <2>1. AbandonFits(p)'
    BY <1>1, <1>2, <1>3, <1>4, <1>5 DEF AbandonFits, Entered, Registered, TheEntry
  <2>2. QED  BY <1>1, <1>4, <1>5, <2>1 DEF CommandFits
<1>6. QED  BY <1>1, <1>2, <1>5, QuietStep

LEMMA AbandonStateRmSequential ==
    ASSUME Typed, Sequential, NEW p \in Procs, AbandonStateRm(p)  PROVE Sequential'
<1>1. /\ p \in Running /\ AbandonFits(p) /\ Consistent /\ Abandons(p) /\ proc[p].pc = "checked"
  BY AbandonIsOn DEF AbandonStateRm, At, Abandons, Pcs, Resting
<1>2. /\ Entered /\ object # Nil /\ object = proc[p].object /\ proc[p].entry = TheEntry
      /\ object \in StateObject
  BY <1>1, ObjectIs DEF AbandonStateRm, AbandonFits
<1>3. /\ Goto(p, "removed") /\ UNCHANGED <<doc, lineage, base, cloud, kept>>
      /\ "removed" \in Pcs
  BY DEF AbandonStateRm, registry, world, Pcs
<1>4. Creates(TheEntry.claims) = DOMAIN TheEntry.claims /\ DOMAIN object.own \subseteq DOMAIN TheEntry.claims
  BY <1>1, <1>2, AllCreateIs DEF Consistent
<1>5. /\ object' \in StateObject /\ DOMAIN object'.own = DOMAIN object.own
      /\ \A a \in DOMAIN object.own : object'.own[a] = object.own[a]
  <2>1. /\ object' = Bared(p) /\ Bared(p) \in StateObject
        /\ DOMAIN Bared(p).own = DOMAIN object.own \ (DOMAIN proc[p].object.own \ Creates(proc[p].entry.claims))
        /\ \A a \in DOMAIN Bared(p).own : Bared(p).own[a] = object.own[a]
    BY <1>2, BaredIs
  <2>2. DOMAIN Bared(p).own = DOMAIN object.own
    BY <1>2, <1>4, <2>1
  <2>3. QED  BY <2>1, <2>2
<1>6. object'.lineage = object.lineage
  BY <1>2 DEF AbandonStateRm, StateObject
<1>7. ObjectsOf(object'.own) = ObjectsOf(object.own) /\ object' # Nil
  BY <1>5, ObjectAssumption DEF ObjectsOf
<1>8. Entered' /\ TheEntry' = TheEntry /\ Status' = Status
  BY <1>2, <1>3 DEF Entered, Registered, TheEntry, Status
<1>9. NoOrphans'
  BY <1>1, <1>2, <1>3, <1>7 DEF Consistent, NoOrphans
<1>10. Consistent'
  BY <1>1, <1>2, <1>3, <1>5, <1>6, <1>8, <1>9 DEF Consistent, ObjectsAreRegistered
<1>11. QED  BY <1>1, <1>3, <1>10, AbandonGoto

LEMMA AbandonDestroySequential ==
    ASSUME Typed, Sequential, NEW p \in Procs, AbandonDestroy(p)  PROVE Sequential'
<1>1. p \in Running /\ Alone /\ AbandonFits(p) /\ Consistent /\ Abandons(p)
  BY AbandonIsOn DEF AbandonDestroy, At, Abandons, Pcs, Resting
<1>2. Entered /\ object # Nil /\ object \in StateObject /\ object.own \in Instances
  BY <1>1, ObjectIs DEF AbandonDestroy, AbandonFits
<1>3. PICK some \in SUBSET DOMAIN object.own :
         /\ cloud' = cloud \ ObjectsOf(Restrict(object.own, some))
         /\ object' = [object EXCEPT !.serial = @ + 1, !.own = Restrict(@, DOMAIN @ \ some)]
         /\ IF some = DOMAIN object.own THEN Goto(p, "emptied")
            ELSE proc' = [proc EXCEPT ![p] = Ended("stopped")]
  BY DEF AbandonDestroy
<1>4. /\ object' \in StateObject /\ object'.lineage = object.lineage
      /\ object'.own = Restrict(object.own, DOMAIN object.own \ some)
  BY <1>2, <1>3, AbandonDestroyIs
<1>5. /\ DOMAIN object'.own = DOMAIN object.own \ some
      /\ \A a \in DOMAIN object'.own : object'.own[a] = object.own[a]
      /\ object' # Nil
  BY <1>2, <1>4, StrippedIs, ObjectAssumption
<1>6. UNCHANGED <<doc, lineage, base, kept>>
  BY DEF AbandonDestroy, registry
<1>7. Entered' /\ TheEntry' = TheEntry /\ Status' = Status
  BY <1>2, <1>6 DEF Entered, Registered, TheEntry, Status
<1>8. NoOrphans'
  <2>1. ASSUME NEW k \in cloud'
        PROVE  k \in ObjectsOf(object'.own) \cup ObjectsOf(base.own) \cup kept
    <3>1. k \in ObjectsOf(object.own) \cup ObjectsOf(base.own) \cup kept
      BY <1>1, <1>2, <1>3, <2>1 DEF Consistent, NoOrphans
    <3>2. CASE k \in ObjectsOf(object.own)
      <4>1. PICK a \in DOMAIN object.own : k = <<a, object.own[a]>>
        BY <3>2 DEF ObjectsOf
      <4>2. Restrict(object.own, some) = [b \in some |-> object.own[b]]
        BY DEF Restrict
      <4>3. a \notin some
        BY <1>3, <2>1, <4>1, <4>2 DEF ObjectsOf
      <4>4. a \in DOMAIN object'.own /\ k = <<a, object'.own[a]>>
        BY <1>5, <4>1, <4>3
      <4>5. QED  BY <4>4 DEF ObjectsOf
    <3>3. QED  BY <3>1, <3>2
  <2>2. QED  BY <1>5, <1>6, <2>1 DEF NoOrphans
<1>9. Consistent'
  BY <1>1, <1>2, <1>4, <1>5, <1>6, <1>7, <1>8 DEF Consistent, ObjectsAreRegistered
<1>10. CASE Goto(p, "emptied")
  BY <1>1, <1>6, <1>9, <1>10, AbandonGoto DEF Pcs
<1>11. CASE proc' = [proc EXCEPT ![p] = Ended("stopped")]
  <2>1. Running' = {} /\ Alone'
    BY <1>1, <1>11, ReturnAlone DEF Resting
  <2>2. QED  BY <1>9, <2>1, Rests
<1>12. QED  BY <1>3, <1>10, <1>11

LEMMA ArchivedConsistent ==
    ASSUME Consistent, object' = Nil, doc' = doc, NoOrphans'  PROVE Consistent'
BY DEF Consistent, ObjectsAreRegistered, Entered, Registered, TheEntry

LEMMA AbandonArchiveSequential ==
    ASSUME Typed, Sequential, NEW p \in Procs, AbandonArchive(p)  PROVE Sequential'
<1>1. p \in Running /\ AbandonFits(p) /\ Consistent /\ Abandons(p) /\ proc[p].pc = "destroyed"
      /\ proc[p].cmd \in {"abandon", "abandon keep"}
  BY AbandonIsOn DEF AbandonArchive, Archive, Pcs, Resting
<1>2. /\ object # Nil /\ object' = Nil /\ Goto(p, "archived") /\ "archived" \in Pcs
      /\ UNCHANGED <<doc, base, cloud>>
  BY DEF AbandonArchive, Archive, registry, Pcs
<1>3. cloud \subseteq ObjectsOf(object.own) \cup ObjectsOf(base.own) \cup kept
  BY <1>1, <1>2 DEF Consistent, NoOrphans
<1>4. ObjectsOf(object.own) \cup kept \subseteq kept'
  <2>1. CASE proc[p].cmd = "abandon"
    <3>1. kept' = kept /\ DOMAIN object.own = {}
      BY <1>1, <1>2, <2>1 DEF AbandonArchive, AbandonFits
    <3>2. QED  BY <3>1, OwnsNothing
  <2>2. CASE proc[p].cmd = "abandon keep"
    <3>1. kept' = kept \cup {k \in ObjectsOf(object.own) : k[1] \in Creates(TheEntry.claims)}
      BY <1>1, <2>2 DEF AbandonArchive, AbandonFits, Printed
    <3>2. DOMAIN object.own \subseteq Creates(TheEntry.claims)
      BY <1>1, <1>2, AllCreateIs DEF Consistent, AbandonFits
    <3>3. ASSUME NEW k \in ObjectsOf(object.own)  PROVE k[1] \in Creates(TheEntry.claims)
      BY <3>2, <3>3 DEF ObjectsOf
    <3>4. QED  BY <3>1, <3>3
  <2>3. QED  BY <1>1, <2>1, <2>2
<1>5. NoOrphans'
  BY <1>2, <1>3, <1>4 DEF NoOrphans
<1>6. Consistent'
  BY <1>1, <1>2, <1>5, ArchivedConsistent
<1>7. QED  BY <1>1, <1>2, <1>6, AbandonGoto

LEMMA ReleaseSequential ==
    ASSUME Typed, Sequential, NEW p \in Running, Release(p), object = Nil
    PROVE  Sequential'
<1>1. Alone /\ Consistent
  BY DEF Sequential
<1>2. doc' = ReleaseOverlay(doc, Me) /\ Return(p) /\ UNCHANGED <<object, base, cloud, kept>>
  BY DEF Release, state, world
<1>3. ~Entered'
  BY <1>2, ReleaseIs DEF Entered, Registered
<1>4. NoOrphans'
  BY <1>1, <1>2 DEF Consistent, NoOrphans
<1>5. Consistent'
  BY <1>2, <1>3, <1>4 DEF Consistent, ObjectsAreRegistered
<1>6. Running' = {} /\ Alone'
  BY <1>1, <1>2, ReturnAlone DEF Return, Resting
<1>7. QED  BY <1>5, <1>6, Rests

LEMMA AbandonSequential ==
    ASSUME Concurrent = 1, Typed, Sequential, NEW p \in Procs, Abandon(p)
    PROVE  Sequential'
<1>1. CASE AbandonLoad(p)
  <2>1. PICK cmd \in {"abandon", "abandon keep"} :
           Entered /\ BeginLoaded(p, cmd, "loaded") /\ UNCHANGED <<registry, state, world>>
    BY <1>1, GateOpens DEF AbandonLoad
  <2>2. /\ Running' \subseteq {p} /\ Alone' /\ Consistent'
        /\ proc'[p].cmd = cmd /\ proc'[p].pc = "loaded"
        /\ proc'[p].entry = TheEntry' /\ doc' = doc
    BY <2>1, BeginAlone
  <2>3. CommandFits(p)'
    BY <2>1, <2>2 DEF CommandFits, AbandonFits, Entered, Registered
  <2>4. QED  BY <2>2, <2>3, GoesOn
<1>2. CASE AbandonCheck(p)
  BY <1>2, AbandonCheckSequential
<1>3. CASE AbandonStateRm(p)
  BY <1>3, AbandonStateRmSequential
<1>4. CASE AbandonPlan(p)
  <2> DEFINE m == [proc[p] EXCEPT !.pc = "planned", !.object = object]
  <2>1. p \in Running /\ AbandonFits(p) /\ proc[p] \in Locals /\ proc[p].cmd = "abandon"
    BY <1>4, ItFits DEF AbandonPlan, CommandFits, Pcs, Resting
  <2>2. /\ proc' = [proc EXCEPT ![p] = m] /\ m.cmd = "abandon" /\ m.pc = "planned"
        /\ m.entry = proc[p].entry
    BY <1>4, <2>1 DEF AbandonPlan, Locals
  <2> HIDE DEF m
  <2>3. UNCHANGED <<doc, lineage, object, base, cloud, kept>>
    BY <1>4 DEF AbandonPlan, registry, state, world
  <2>4. ASSUME proc'[p] = m  PROVE CommandFits(p)'
    BY <2>1, <2>2, <2>3, <2>4 DEF CommandFits, AbandonFits, Entered, Registered, TheEntry
  <2>5. QED  BY <2>1, <2>2, <2>3, <2>4, QuietStep
<1>5. CASE AbandonDestroy(p)
  BY <1>5, AbandonDestroySequential
<1>6. CASE AbandonVerify(p)
  <2>1. p \in Running /\ AbandonFits(p) /\ Consistent /\ Abandons(p)
    BY <1>6, AbandonIsOn DEF AbandonVerify, At, Abandons, Pcs, Resting
  <2>2. /\ Goto(p, "destroyed") /\ UNCHANGED <<doc, lineage, object, base, cloud, kept>>
        /\ "destroyed" \in Pcs /\ object # Nil
        /\ DOMAIN object.own \cap Creates(proc[p].entry.claims) = {}
    BY <1>6 DEF AbandonVerify, registry, state, world, Pcs
  <2>3. DOMAIN object.own \subseteq Creates(proc[p].entry.claims)
    BY <2>1, <2>2, AllCreateIs DEF Consistent, AbandonFits
  <2>4. Consistent'
    BY <2>1, <2>2, Unmoved
  <2>5. DOMAIN object'.own = {} /\ doc' = doc
    BY <2>2, <2>3
  <2>6. QED  BY <2>1, <2>2, <2>4, <2>5, AbandonGoto
<1>7. CASE AbandonArchive(p)
  BY <1>7, AbandonArchiveSequential
<1>8. CASE AbandonRelease(p)
  <2>1. p \in Running /\ AbandonFits(p)
    BY <1>8, AbandonIsOn DEF AbandonRelease, Release, Pcs, Resting
  <2>2. object = Nil
    BY <1>8, <2>1 DEF AbandonRelease, Release, AbandonFits
  <2>3. QED  BY <1>8, <2>1, <2>2, ReleaseSequential DEF AbandonRelease
<1>9. QED
  BY <1>1, <1>2, <1>3, <1>4, <1>5, <1>6, <1>7, <1>8 DEF Abandon

LEMMA FinalizeCheckSequential ==
    ASSUME Typed, Sequential, NEW p \in Procs, FinalizeCheck(p)  PROVE Sequential'
<1> DEFINE claims == ClaimsFromState(proc[p].entry.claims, object)
<1>1. /\ p \in Running /\ FinalizeFits(p) /\ Alone /\ Consistent /\ proc[p].cmd = "finalize"
  BY ItFits DEF FinalizeCheck, CommandFits, Pcs, Resting
<1>2. /\ object # Nil /\ Goto(p, "checked") /\ "checked" \in Pcs
      /\ \A a \in Creates(claims) : a \in DOMAIN base.own /\ claims[a].id \in {Nil, base.own[a]}
      /\ UNCHANGED <<doc, lineage, object, base, cloud, kept>>
  BY DEF FinalizeCheck, Valid, registry, state, world, Pcs
<1>3. /\ object \in StateObject /\ object.own \in Instances
      /\ Entered /\ Status # "creating" /\ proc[p].entry = TheEntry
      /\ TheEntry.claims \in ClaimMap /\ AllCreate(TheEntry.claims)
      /\ DOMAIN object.own \subseteq DOMAIN TheEntry.claims
  BY <1>1, <1>2, ObjectIs, EnteredIs DEF FinalizeFits, Entry, Consistent
<1>4. /\ AllCreate(claims) /\ DOMAIN claims = DOMAIN TheEntry.claims
      /\ \A a \in DOMAIN object.own : claims[a].id = object.own[a]
  BY <1>3, RefreshedClaimsAre DEF AllCreate
<1> HIDE DEF claims
<1>5. ObjectsOf(object.own) \subseteq ObjectsOf(base.own)
  <2> SUFFICES ASSUME NEW a \in DOMAIN object.own
               PROVE  a \in DOMAIN base.own /\ object.own[a] = base.own[a]
    BY DEF ObjectsOf
  <2>1. a \in Creates(claims)
    BY <1>3, <1>4, AllCreateIs
  <2>2. object.own[a] # Nil
    BY <1>3, InstancesAre, NilAssumption
  <2>3. QED  BY <1>2, <1>4, <2>1, <2>2
<1>6. proc'[p].pc = "checked" /\ proc'[p].cmd = "finalize" /\ proc'[p].entry = proc[p].entry
  BY <1>1, <1>2, GotoAlone
<1>7. FinalizeFits(p)'
  BY <1>2, <1>3, <1>5, <1>6 DEF FinalizeFits, Entered, Registered, TheEntry, Status
<1>8. CommandFits(p)'
  BY <1>6, <1>7 DEF CommandFits
<1>9. QED  BY <1>1, <1>2, <1>8, QuietGoto

LEMMA FinalizeArchiveSequential ==
    ASSUME Typed, Sequential, NEW p \in Procs, FinalizeArchive(p)  PROVE Sequential'
<1>1. /\ p \in Running /\ FinalizeFits(p) /\ Alone /\ Consistent
      /\ proc[p].cmd = "finalize" /\ proc[p].pc = "checked"
  BY ItFits DEF FinalizeArchive, Archive, At, CommandFits, Pcs, Resting
<1>2. /\ object # Nil /\ object' = Nil /\ Goto(p, "archived") /\ "archived" \in Pcs
      /\ UNCHANGED <<doc, base, cloud, kept>>
  BY DEF FinalizeArchive, Archive, registry, world, Pcs
<1>3. NoOrphans'
  BY <1>1, <1>2 DEF Consistent, NoOrphans, FinalizeFits
<1>4. Consistent'
  BY <1>1, <1>2, <1>3, ArchivedConsistent
<1>5. /\ Running' \subseteq {p} /\ Alone' /\ proc'[p].pc = "archived"
      /\ proc'[p].cmd = "finalize" /\ proc'[p].entry = proc[p].entry
  BY <1>1, <1>2, GotoAlone
<1>6. FinalizeFits(p)'
  BY <1>1, <1>2, <1>5 DEF FinalizeFits, Entered, Registered, TheEntry, Status
<1>7. CommandFits(p)'
  BY <1>5, <1>6 DEF CommandFits
<1>8. QED  BY <1>4, <1>5, <1>7, GoesOn

LEMMA FinalizeSequential ==
    ASSUME Concurrent = 1, Typed, Sequential, NEW p \in Procs, Finalize(p)
    PROVE  Sequential'
<1>1. CASE FinalizeLoad(p)
  <2>1. Entered /\ Status # "creating" /\ BeginLoaded(p, "finalize", "loaded")
        /\ UNCHANGED <<registry, state, world>>
    BY <1>1, NotCreating DEF FinalizeLoad, Releasable
  <2>2. /\ Running' \subseteq {p} /\ Alone' /\ Consistent'
        /\ proc'[p].cmd = "finalize" /\ proc'[p].pc = "loaded"
        /\ proc'[p].entry = TheEntry' /\ doc' = doc
    BY <2>1, BeginAlone
  <2>3. FinalizeFits(p)'
    BY <2>1, <2>2 DEF FinalizeFits, Entered, Registered, TheEntry, Status
  <2>4. CommandFits(p)'
    BY <2>2, <2>3 DEF CommandFits
  <2>5. QED  BY <2>2, <2>4, GoesOn
<1>2. CASE FinalizeCheck(p)
  BY <1>2, FinalizeCheckSequential
<1>3. CASE FinalizeArchive(p)
  BY <1>3, FinalizeArchiveSequential
<1>4. CASE FinalizeRelease(p)
  <2>1. p \in Running /\ FinalizeFits(p)
    BY <1>4, ItFits DEF FinalizeRelease, Release, At, CommandFits, Pcs, Resting
  <2>2. object = Nil
    BY <1>4, <2>1 DEF FinalizeRelease, Release, FinalizeFits
  <2>3. QED  BY <1>4, <2>1, <2>2, ReleaseSequential DEF FinalizeRelease
<1>5. QED  BY <1>1, <1>2, <1>3, <1>4 DEF Finalize

\* The trunk pipeline only ever adds to the instances of the base.
LEMMA AroundConsistent ==
    ASSUME Typed, Consistent, TrunkMoves \/ TrunkAdopts \/ Timeout
    PROVE  /\ Consistent' /\ ObjectsOf(base.own) \subseteq ObjectsOf(base'.own)
           /\ UNCHANGED <<doc, lineage, object, lock, cloud, kept, proc>>
<1>1. UNCHANGED <<doc, lineage, object, lock, cloud, kept, proc>>
  BY DEF TrunkMoves, TrunkAdopts, Timeout, registry, state, world
<1>2. ObjectsOf(base.own) \subseteq ObjectsOf(base'.own)
  <2>1. CASE TrunkMoves
    BY <2>1 DEF TrunkMoves, Typed, StateTyped, BaseState
  <2>2. CASE TrunkAdopts
    <3>1. \A a \in DOMAIN base.own : a \in DOMAIN base'.own /\ base'.own[a] = base.own[a]
      BY <2>2 DEF TrunkAdopts
    <3>2. QED  BY <3>1 DEF ObjectsOf
  <2>3. CASE Timeout
    BY <2>3 DEF Timeout, world
  <2>4. QED  BY <2>1, <2>2, <2>3
<1>3. UNCHANGED <<Entered, TheEntry, Status>>
  BY <1>1 DEF Entered, Registered, TheEntry, Status
<1>4. NoOrphans'
  BY <1>1, <1>2 DEF Consistent, NoOrphans
<1>5. QED  BY <1>1, <1>2, <1>3, <1>4 DEF Consistent, ObjectsAreRegistered

LEMMA AroundSequential ==
    ASSUME Typed, Sequential, TrunkMoves \/ TrunkAdopts \/ Timeout
    PROVE  Sequential'
<1>1. UNCHANGED <<doc, lineage, object, cloud, kept, proc>>
  BY DEF TrunkMoves, TrunkAdopts, Timeout, registry, state, world
<1>2. Consistent' /\ ObjectsOf(base.own) \subseteq ObjectsOf(base'.own)
  BY AroundConsistent DEF Sequential
<1>3. Running' = Running /\ Alone' /\ UNCHANGED <<Entered, TheEntry, Status>>
  BY <1>1 DEF Sequential, Alone, Running, Entered, Registered, TheEntry, Status
<1>4. ASSUME NEW p \in Running  PROVE CommandFits(p)'
  <2>1. CommandFits(p)
    BY DEF Sequential
  <2>2. CreateFits(p) => CreateFits(p)'
    BY <1>1, <1>3 DEF CreateFits
  <2>3. ApplyFits(p) => ApplyFits(p)'
    BY <1>1, <1>3 DEF ApplyFits
  <2>4. RebaseFits(p) => RebaseFits(p)'
    BY <1>1, <1>3 DEF RebaseFits
  <2>5. MergeFits(p) => MergeFits(p)'
    BY <1>1, <1>3 DEF MergeFits
  <2>6. UndoFits(p) => UndoFits(p)'
    BY <1>3 DEF UndoFits
  <2>7. AbandonFits(p) => AbandonFits(p)'
    BY <1>1, <1>3 DEF AbandonFits
  <2>8. FinalizeFits(p) => FinalizeFits(p)'
    BY <1>1, <1>2, <1>3 DEF FinalizeFits
  <2>9. QED  BY <1>1, <2>1, <2>2, <2>3, <2>4, <2>5, <2>6, <2>7, <2>8 DEF CommandFits
<1>5. QED  BY <1>2, <1>3, <1>4 DEF Sequential

LEMMA NextSequential ==
    ASSUME Concurrent = 1, Typed, Sequential, [Next]_vars  PROVE Sequential'
<1>1. CASE UNCHANGED vars
  <2>1. UNCHANGED <<doc, expired, lineage, object, lock, base, cloud, kept, imports, proc>>
    BY <1>1 DEF vars, registry, state, world
  <2>2. Running' = Running /\ Consistent' /\ UNCHANGED <<Entered, TheEntry, Status>>
    BY <2>1, Unmoved DEF Sequential, Running, Entered, Registered, TheEntry, Status
  <2>3. ASSUME NEW p \in Running  PROVE CommandFits(p)'
    BY <2>1, <2>2
       DEF Sequential, CommandFits, CreateFits, ApplyFits, RebaseFits, MergeFits, UndoFits,
           AbandonFits, FinalizeFits
  <2>4. QED  BY <2>2, <2>3 DEF Sequential, Alone
<1>2. ASSUME NEW p \in Procs, Stop(p)  PROVE Sequential'
  BY <1>2, QuietReturn DEF Stop, Resting, registry, world
<1>3. CASE TrunkMoves \/ TrunkAdopts \/ Timeout
  BY <1>3, AroundSequential
<1>4. CASE \E p \in Procs : \/ Create(p) \/ Apply(p) \/ Rebase(p) \/ Merge(p) \/ Undo(p)
                            \/ Abandon(p) \/ Finalize(p)
  BY <1>4, CreateSequential, ApplySequential, RebaseSequential, MergeSequential, UndoSequential,
     AbandonSequential, FinalizeSequential
<1>5. QED  BY <1>1, <1>2, <1>3, <1>4 DEF Next

LEMMA InitSequential == Init => Sequential
<1> SUFFICES ASSUME Init  PROVE Sequential
  OBVIOUS
<1>1. Running = {}
  BY IdleIs DEF Init, Running
<1>2. ~Entered /\ object = Nil /\ cloud = {}
  BY DEF Init, EmptyDoc, Entered, Registered
<1>3. Consistent
  BY <1>2 DEF Consistent, ObjectsAreRegistered, NoOrphans
<1>4. QED  BY <1>1, <1>3 DEF Sequential, Alone

LEMMA AlwaysSequential ==
    ASSUME Concurrent = 1
    PROVE  Spec => [](Typed /\ Sequential)
<1> DEFINE Inv == Typed /\ ApplyingHasRun /\ Sequential
<1>1. Init => Inv
  BY InitTyped, InitSequential DEF ApplyingHasRun, Init, EmptyDoc, Entered, Registered
<1>2. Inv /\ [Next]_vars => Inv'
  BY NextTyped, NextSequential
<1>3. Inv => Typed /\ Sequential
  OBVIOUS
<1> HIDE DEF Inv
<1>4. QED  BY <1>1, <1>2, <1>3, PTL DEF Spec

------------------------------------------------------------------------------
(* The theorems. *)

\* Wherever commands stop, there is no overlay state behind the key without an
\* entry.
THEOREM RegisteredBeforePushed ==
    ASSUME Concurrent = 1
    PROVE  Spec => []ObjectsAreRegistered
<1>1. Sequential => ObjectsAreRegistered
  BY DEF Sequential, Consistent
<1>2. QED  BY <1>1, AlwaysSequential, PTL

\* Wherever commands stop, the lineage in the entry is the one behind the key,
\* except while the overlay is being created.
THEOREM LineageRecorded ==
    ASSUME Concurrent = 1
    PROVE  Spec => []LineageIsRecorded
<1>1. Sequential => LineageIsRecorded
  BY DEF Sequential, Consistent, LineageIsRecorded, Status
<1>2. QED  BY <1>1, AlwaysSequential, PTL

\* Wherever commands stop, every object the overlay created is managed, or the
\* operator was told of it.
THEOREM NothingIsOrphaned ==
    ASSUME Concurrent = 1
    PROVE  Spec => []NoOrphans
<1>1. Sequential => NoOrphans
  BY DEF Sequential, Consistent
<1>2. QED  BY <1>1, AlwaysSequential, PTL

\* Wherever commands stop, the registry claims for the overlay what its state
\* holds next to the base.
THEOREM WhatItHoldsIsClaimed ==
    ASSUME Concurrent = 1
    PROVE  Spec => []OwnInstancesAreClaimed
<1>1. Sequential => OwnInstancesAreClaimed
  BY AllCreateIs DEF Sequential, Consistent, OwnInstancesAreClaimed
<1>2. QED  BY <1>1, AlwaysSequential, PTL

------------------------------------------------------------------------------
(***************************************************************************)
(* Freshness: an overlay that passes the freshness check was built on that *)
(* base or on a later one.  Built: how the ETag of the entry, the version  *)
(* of the base in the overlay state and the base are related.  Knows: what *)
(* create and rebase have read.                                            *)
(***************************************************************************)

Built ==
    /\ (~Entered \/ Status = "creating") => lineage = Nil
    /\ (Entered /\ Status = "creating") => TheEntry.etag = Nil
    /\ (Entered /\ Status # "creating") =>
          TheEntry.etag \in Etags /\ TheEntry.etag <= base.version
    /\ (object # Nil /\ Status # "creating" /\ object.base.version # 0) =>
          TheEntry.etag <= object.base.version

CreateKnows(p) ==
    LET me == proc[p]
    IN  /\ me.etag \in Etags /\ me.etag <= base.version
        /\ me.pc \in {"registered", "pulled"} => me.recorded = Nil
        /\ me.pc = "pulled" => me.etag <= me.base.version
        /\ (me.pc \in {"pushed", "read back"} /\ object # Nil) => me.etag <= object.base.version

RebaseKnows(p) ==
    LET me == proc[p]
    IN  /\ me.pc \in {"read", "pulled", "pushed"} =>
              me.etag \in Etags /\ TheEntry.etag <= me.etag /\ me.etag <= base.version
        /\ me.pc = "pulled" => me.etag <= me.base.version
        /\ (me.pc = "pushed" /\ object # Nil) => me.etag <= object.base.version

Knows(p) ==
    /\ proc[p].cmd = "create" => CreateKnows(p)
    /\ proc[p].cmd = "rebase" => RebaseKnows(p)

Fresh == Built /\ \A p \in Running : Knows(p)

LEMMA Versions == Typed => /\ Etags \subseteq Int /\ base.version \in Etags
                           /\ object # Nil => object.base.version \in Int
BY LifecycleAssumption DEF Typed, StateTyped, StateObject, BaseState

\* A step of p: the others are where they were.
LEMMA FreshStep ==
    ASSUME Typed, Sequential, NEW p \in Procs, NEW m, proc' = [proc EXCEPT ![p] = m],
           p \in Running \/ Running = {}, Built', proc'[p] = m => Knows(p)'
    PROVE  Fresh'
<1>1. Running' \subseteq {p} /\ proc'[p] = m
  BY StepAlone DEF Sequential
<1>2. QED  BY <1>1 DEF Fresh

\* Other commands than create and rebase keep the ETag of the entry, and the
\* version of the base in the overlay state unless they remove the base.
LEMMA BuiltKept ==
    ASSUME Built, Entered, Entered', (Status' = "creating") <=> (Status = "creating"),
           TheEntry'.etag = TheEntry.etag, lineage' = lineage, base' = base,
           object' # Nil => object # Nil /\ (object'.base = object.base \/ object'.base.version = 0)
    PROVE  Built'
BY DEF Built

LEMMA BuiltUnmoved ==
    ASSUME Built, UNCHANGED <<doc, lineage, object, base>>
    PROVE  Built'
BY DEF Built, Entered, Registered, TheEntry, Status

LEMMA FreshReturn ==
    ASSUME Typed, Sequential, NEW p \in Running, NEW pc \in Resting,
           proc' = [proc EXCEPT ![p] = Ended(pc)], Built'
    PROVE  Fresh'
<1>1. Running' = {}
  BY ReturnAlone DEF Sequential
<1>2. QED  BY <1>1 DEF Fresh

\* A command other than create that begins knows nothing yet.
LEMMA FreshBegin ==
    ASSUME Concurrent = 1, Typed, Sequential, Fresh, NEW p \in Procs, NEW cmd, cmd # "create",
           BeginLoaded(p, cmd, "loaded"), UNCHANGED <<registry, state, world>>
    PROVE  Fresh'
<1>1. Running' \subseteq {p} /\ proc'[p].cmd = cmd /\ proc'[p].pc = "loaded"
  BY BeginAlone
<1>2. Built'
  BY BuiltUnmoved DEF Fresh, registry, state, world
<1>3. QED  BY <1>1, <1>2 DEF Fresh, Knows, RebaseKnows

\* A step of a command that is neither create nor rebase.
LEMMA FreshGoto ==
    ASSUME Typed, Sequential, NEW p \in Running, proc[p].cmd \notin {"create", "rebase"},
           NEW pc \in Pcs, Goto(p, pc), Built'
    PROVE  Fresh'
<1>1. Running' \subseteq {p} /\ proc'[p].cmd = proc[p].cmd
  BY GotoAlone DEF Sequential
<1>2. QED  BY <1>1 DEF Fresh, Knows

LEMMA CreateFresh ==
    ASSUME Concurrent = 1, Typed, Sequential, Fresh, NEW p \in Procs, Create(p)
    PROVE  Fresh'
<1>0. Built /\ Etags \subseteq Int /\ base.version \in Etags
  BY Versions DEF Fresh
<1>1. CASE CreateLoad(p)
  <2> DEFINE m == [Idle EXCEPT !.cmd = "create", !.pc = "loaded", !.etag = base.version,
                               !.entry = IF Entered THEN TheEntry ELSE Nil]
  <2>1. proc' = [proc EXCEPT ![p] = m] /\ Cardinality(Running) < Concurrent
    BY <1>1 DEF CreateLoad, Begin
  <2>2. m.cmd = "create" /\ m.pc = "loaded" /\ m.etag = base.version
    BY DEF Idle
  <2> HIDE DEF m
  <2>3. Running = {}
    BY <2>1, NobodyRuns DEF Sequential
  <2>4. UNCHANGED <<doc, lineage, object, base>>
    BY <1>1 DEF CreateLoad, registry, state, world
  <2>5. Built'
    BY <1>0, <2>4, BuiltUnmoved
  <2>6. ASSUME proc'[p] = m  PROVE Knows(p)'
    <3>1. m.etag \in Etags /\ m.etag <= base'.version
      <4>1. base' = base /\ base.version \in Int
        BY <1>0, <2>4
      <4>2. QED  BY <1>0, <2>2, <4>1
    <3>2. QED  BY <2>2, <2>6, <3>1 DEF Knows, CreateKnows
  <2>7. QED  BY <2>1, <2>3, <2>5, <2>6, FreshStep
<1>2. CASE CreateRegister(p)
  <2> DEFINE m == [proc[p] EXCEPT !.pc = "registered", !.recorded = lineage]
  <2>1. /\ p \in Running /\ CreateFits(p) /\ Knows(p)
        /\ proc[p] \in Locals /\ proc[p].cmd = "create"
    BY <1>2, ItFits DEF CreateRegister, CommandFits, Fresh, Pcs, Resting
  <2>2. /\ proc' = [proc EXCEPT ![p] = m] /\ m.cmd = "create" /\ m.pc = "registered"
        /\ m.recorded = lineage /\ m.etag = proc[p].etag
    BY <1>2, <2>1 DEF CreateRegister, Locals
  <2> HIDE DEF m
  <2>3. UNCHANGED <<lineage, object, base>> /\ doc' = RegisterCreating(doc, Me)
    BY <1>2 DEF CreateRegister, state, world
  <2>4. lineage = Nil
    BY <1>0, <2>1 DEF Built, CreateFits
  <2>5. Built'
    <3>1. CASE Entered
      BY <1>0, <2>3, <3>1, BuiltUnmoved DEF RegisterCreating, Entered
    <3>2. CASE ~Entered
      <4>1. TheEntry'.status = "creating" /\ TheEntry'.etag = Nil
        BY <2>3, <3>2, RegisteredEntry DEF Entered, Registered, TheEntry
      <4>2. QED  BY <2>3, <2>4, <4>1 DEF Built, Status
    <3>3. QED  BY <3>1, <3>2
  <2>6. proc'[p] = m => Knows(p)'
    BY <1>0, <2>1, <2>2, <2>3, <2>4 DEF Knows, CreateKnows
  <2>7. QED  BY <2>1, <2>2, <2>5, <2>6, FreshStep
<1>3. CASE CreatePull(p)
  <2> DEFINE m == [proc[p] EXCEPT !.pc = "pulled", !.base = base]
  <2>1. /\ p \in Running /\ Knows(p)
        /\ proc[p] \in Locals /\ proc[p].cmd = "create" /\ proc[p].pc = "registered"
    BY <1>3, ItFits DEF CreatePull, Fresh, Pcs, Resting
  <2>2. /\ proc' = [proc EXCEPT ![p] = m] /\ m.cmd = "create" /\ m.pc = "pulled"
        /\ m.recorded = proc[p].recorded /\ m.etag = proc[p].etag /\ m.base = base
    BY <1>3, <2>1 DEF CreatePull, Locals
  <2> HIDE DEF m
  <2>3. UNCHANGED <<doc, lineage, object, base>>
    BY <1>3 DEF CreatePull, registry, state, world
  <2>4. Built'
    BY <1>0, <2>3, BuiltUnmoved
  <2>5. proc'[p] = m => Knows(p)'
    BY <2>1, <2>2, <2>3 DEF Knows, CreateKnows
  <2>6. QED  BY <2>1, <2>2, <2>4, <2>5, FreshStep
<1>4. CASE CreatePush(p)
  <2>1. /\ p \in Running /\ CreateFits(p) /\ Knows(p)
        /\ proc[p] \in Locals /\ proc[p].cmd = "create" /\ proc[p].pc = "pulled"
    BY <1>4, ItFits DEF CreatePush, CommandFits, Fresh, Pcs, Resting
  <2>2. /\ Goto(p, "pushed") /\ object' = Forked(p, proc[p].base)
        /\ UNCHANGED <<doc, lineage, base>>
    BY <1>4, <2>1 DEF CreatePush, Knows, CreateKnows, registry, world
  <2> DEFINE m == [proc[p] EXCEPT !.pc = "pushed"]
  <2>3. /\ proc' = [proc EXCEPT ![p] = m] /\ m.cmd = "create" /\ m.pc = "pushed"
        /\ m.etag = proc[p].etag
    BY <2>1, <2>2 DEF Goto, Locals
  <2> HIDE DEF m
  <2>4. Status = "creating"
    BY <2>1 DEF CreateFits
  <2>5. Built'
    BY <1>0, <2>2, <2>4 DEF Built, Entered, Registered, TheEntry, Status
  <2>6. object'.base = proc[p].base
    BY <2>2 DEF Forked
  <2>7. proc'[p] = m => Knows(p)'
    BY <2>1, <2>2, <2>3, <2>6 DEF Knows, CreateKnows
  <2>8. QED  BY <2>1, <2>3, <2>5, <2>7, FreshStep
<1>5. CASE CreateReadBack(p)
  <2> DEFINE m == [proc[p] EXCEPT !.pc = "read back", !.recorded = object.lineage]
  <2>1. /\ p \in Running /\ Knows(p)
        /\ proc[p] \in Locals /\ proc[p].cmd = "create" /\ proc[p].pc = "pushed"
    BY <1>5, ItFits DEF CreateReadBack, Fresh, Pcs, Resting
  <2>2. /\ proc' = [proc EXCEPT ![p] = m] /\ m.cmd = "create" /\ m.pc = "read back"
        /\ m.etag = proc[p].etag
    BY <1>5, <2>1 DEF CreateReadBack, Locals
  <2> HIDE DEF m
  <2>3. UNCHANGED <<doc, lineage, object, base>>
    BY <1>5 DEF CreateReadBack, registry, state, world
  <2>4. Built'
    BY <1>0, <2>3, BuiltUnmoved
  <2>5. proc'[p] = m => Knows(p)'
    BY <2>1, <2>2, <2>3 DEF Knows, CreateKnows
  <2>6. QED  BY <2>1, <2>2, <2>4, <2>5, FreshStep
<1>6. CASE CreateFlip(p)
  <2>1. p \in Running /\ CreateFits(p) /\ Knows(p) /\ proc[p].cmd = "create" /\ proc[p].pc = "read back"
    BY <1>6, ItFits DEF CreateFlip, CommandFits, Fresh, Pcs, Resting
  <2>2. /\ doc' = Flip(doc, Me, proc[p].etag) /\ Return(p) /\ UNCHANGED <<object, base>>
    BY <1>6 DEF CreateFlip, state, world
  <2>3. Me \in DOMAIN doc.overlays /\ IsDocument(doc)
    BY <2>1 DEF CreateFits, Entered, Registered, Typed
  <2>4. Entered' /\ Status' = "active" /\ TheEntry'.etag = proc[p].etag
    BY <2>2, <2>3, FlippedEntry, FlipIs DEF OnlyEntry, Entered, Registered, TheEntry, Status
  <2>5. Built'
    BY <2>1, <2>2, <2>4 DEF Built, Knows, CreateKnows
  <2>6. QED  BY <2>1, <2>2, <2>5, FreshReturn DEF Return, Resting
<1>7. QED  BY <1>1, <1>2, <1>3, <1>4, <1>5, <1>6 DEF Create

LEMMA FreshOther ==
    ASSUME Typed, Sequential, NEW p \in Running, proc[p].cmd \notin {"create", "rebase"}, Built',
           \A q \in Procs \ {p} : proc'[q] = proc[q], proc'[p].cmd = proc[p].cmd
    PROVE  Fresh'
<1>1. Running' \subseteq {p}
  BY DEF Sequential, Alone, Running
<1>2. QED  BY <1>1 DEF Fresh, Knows

LEMMA ApplyFresh ==
    ASSUME Concurrent = 1, Typed, Sequential, Fresh, NEW p \in Procs, Apply(p)
    PROVE  Fresh'
<1>0. Built
  BY DEF Fresh
<1>1. CASE ApplyLoad(p)
  BY <1>1, FreshBegin DEF ApplyLoad
<1> SUFFICES ASSUME ~ApplyLoad(p)  PROVE Fresh'
  BY <1>1
<1>2. /\ p \in Running /\ Entered /\ Status # "creating"
      /\ proc[p].cmd = "apply" /\ proc[p] \in Locals /\ ApplyFits(p)
  <2>1. PICK pc \in {"loaded", "planned", "acquired", "applying", "applied", "refreshed"} :
           At(p, "apply", pc)
    BY DEF Apply, ApplyPlan, ApplyNothing, ApplyAcquire, ApplyStart, ApplyFails, ApplyWrite,
           ApplyPull, ApplyFinish
  <2>2. QED  BY <2>1, ItFits DEF CommandFits, ApplyFits, Pcs, Resting
<1>3. CASE ApplyPlan(p) \/ ApplyPull(p)
  <2>1. \A q \in Procs \ {p} : proc'[q] = proc[q]
    BY <1>3 DEF ApplyPlan, ApplyPull, Typed
  <2>2. proc'[p].cmd = proc[p].cmd
    <3>1. CASE ApplyPlan(p)
      <4>1. PICK want \in SUBSET Addresses, replaced \in SUBSET DOMAIN object.own :
               LET created == (want \ DOMAIN object.own) \cup replaced
                   deleted == DOMAIN object.own \ want
               IN  proc' = [proc EXCEPT
                      ![p].pc = "planned", ![p].object = object,
                      ![p].want = want, ![p].replaced = replaced,
                      ![p].claims = PlannedClaims(TheEntry, created, deleted)]
        BY <3>1 DEF ApplyPlan
      <4>2. QED  BY <1>2, <4>1 DEF Typed, Locals
    <3>2. CASE ApplyPull(p)
      BY <1>2, <3>2 DEF ApplyPull, Typed, Locals
    <3>3. QED  BY <1>3, <3>1, <3>2
  <2>3. Built'
    BY <1>0, <1>3, BuiltUnmoved DEF ApplyPlan, ApplyPull, registry, state, world
  <2>4. QED  BY <1>2, <2>1, <2>2, <2>3, FreshOther
<1>4. CASE ApplyNothing(p)
  <2>1. Built'
    BY <1>0, <1>4, BuiltUnmoved DEF ApplyNothing, registry, state, world
  <2>2. QED  BY <1>2, <1>4, <2>1, FreshReturn DEF ApplyNothing, Return, Resting
<1>5. CASE ApplyAcquire(p)
  <2>1. \A q \in Procs \ {p} : proc'[q] = proc[q]
    BY <1>5 DEF ApplyAcquire, Typed
  <2>2. proc'[p].cmd = proc[p].cmd
    BY <1>2, <1>5 DEF ApplyAcquire, Typed, Locals
  <2>3. /\ doc' = AcquireClaims(doc, Me, proc[p].claims, p) /\ UNCHANGED <<lineage, object, base>>
        /\ proc[p].claims \in ClaimMap /\ Me \in DOMAIN doc.overlays /\ IsDocument(doc)
    BY <1>2, <1>5 DEF ApplyAcquire, state, world, Locals, Entered, Registered, Typed
  <2>4. Entered' /\ Status' = "applying" /\ TheEntry'.etag = TheEntry.etag
    BY <2>3, AcquiredEntry, AcquireIs DEF OnlyEntry, Entered, Registered, TheEntry, Status
  <2>5. Built'
    BY <1>0, <1>2, <2>3, <2>4, BuiltKept
  <2>6. QED  BY <1>2, <2>1, <2>2, <2>5, FreshOther
<1>6. CASE ApplyStart(p)
  <2>1. Built'
    BY <1>0, <1>6, BuiltUnmoved DEF ApplyStart, registry, world
  <2>2. QED  BY <1>2, <1>6, <2>1, FreshGoto DEF ApplyStart, Pcs
<1>7. CASE ApplyFails(p)
  <2>1. Built'
    BY <1>0, <1>7, BuiltUnmoved DEF ApplyFails, registry, state, world
  <2>2. QED  BY <1>2, <1>7, <2>1, FreshGoto DEF ApplyFails, Pcs
<1>8. CASE ApplyWrite(p)
  <2>1. \A q \in Procs \ {p} : proc'[q] = proc[q]
    BY <1>8 DEF ApplyWrite, Typed
  <2>2. proc'[p].cmd = proc[p].cmd
    BY <1>2, <1>8 DEF ApplyWrite, Typed, Locals
  <2>3. object = proc[p].object /\ proc[p].object \in StateObject
    BY <1>2, <1>8, UnderWay DEF ApplyWrite, At, ApplyFits, LocalsFit, Pcs, Resting
  <2>4. object'.base = object.base /\ object # Nil
    BY <1>8, <2>3, ObjectAssumption DEF ApplyWrite, StateObject
  <2>5. UNCHANGED <<doc, lineage, base>>
    BY <1>8 DEF ApplyWrite, registry
  <2>6. Built'
    BY <1>0, <1>2, <2>4, <2>5, BuiltKept DEF Entered, Registered, TheEntry, Status
  <2>7. QED  BY <1>2, <2>1, <2>2, <2>6, FreshOther
<1>9. CASE ApplyFinish(p)
  <2>1. /\ doc' = FinishApply(doc, Me, proc[p].ok, proc[p].claims, proc[p].released)
        /\ UNCHANGED <<lineage, object, base>>
        /\ Me \in DOMAIN doc.overlays /\ IsDocument(doc)
        /\ proc[p].ok \in BOOLEAN /\ proc[p].claims \in ClaimMap
    BY <1>2, <1>9 DEF ApplyFinish, state, world, Entered, Registered, Typed, Locals
  <2>2. Status' # "creating" /\ TheEntry'.etag = TheEntry.etag
    BY <2>1, FinishedEntry DEF TheEntry, Status
  <2>3. Entered'
    BY <2>1, FinishIs DEF OnlyEntry, Entered, Registered
  <2>4. Built'
    BY <1>0, <1>2, <2>1, <2>2, <2>3, BuiltKept
  <2>5. PICK pc \in Resting : proc' = [proc EXCEPT ![p] = Ended(pc)]
    BY <1>9 DEF ApplyFinish, Resting
  <2>6. QED  BY <1>2, <2>4, <2>5, FreshReturn
<1>10. QED
  BY <1>3, <1>4, <1>5, <1>6, <1>7, <1>8, <1>9 DEF Apply

\* SetStatus, with the ETag it records.
LEMMA StatusSetIs ==
    ASSUME Typed, Entered, NEW s, NEW etag, NEW c \in ClaimMap,
           doc' = SetStatus(doc, Me, s, etag, c)
    PROVE  Entered' /\ Status' = s /\ TheEntry'.etag = etag
<1>1. Me \in DOMAIN doc.overlays /\ IsDocument(doc)
  BY DEF Entered, Registered, Typed
<1>2. QED
  BY <1>1, SetStatusEntry, SetStatusIs DEF OnlyEntry, Entered, Registered, TheEntry, Status

LEMMA RebaseFresh ==
    ASSUME Concurrent = 1, Typed, Sequential, Fresh, NEW p \in Procs, Rebase(p)
    PROVE  Fresh'
<1>0. Built /\ Etags \subseteq Int /\ base.version \in Etags
  BY Versions DEF Fresh
<1>1. CASE RebaseLoad(p)
  BY <1>1, FreshBegin DEF RebaseLoad
<1> SUFFICES ASSUME ~RebaseLoad(p)  PROVE Fresh'
  BY <1>1
<1>2. /\ p \in Running /\ Entered /\ Status # "creating" /\ Knows(p) /\ RebaseFits(p)
      /\ proc[p].cmd = "rebase" /\ proc[p] \in Locals /\ LocalsFit(proc[p])
  <2>1. PICK pc \in {"loaded", "read", "pulled", "pushed"} : At(p, "rebase", pc)
    BY DEF Rebase, RebaseRead, RebasePull, RebasePush, RebaseRecord
  <2>2. QED  BY <2>1, ItFits, UnderWay DEF CommandFits, RebaseFits, Fresh, Pcs, Resting
<1>3. TheEntry.etag \in Etags /\ TheEntry.etag <= base.version
  BY <1>0, <1>2 DEF Built
<1>4. CASE RebaseRead(p)
  <2> DEFINE m == [proc[p] EXCEPT !.pc = "read", !.etag = base.version, !.object = object]
  <2>1. /\ proc' = [proc EXCEPT ![p] = m] /\ m.cmd = "rebase" /\ m.pc = "read"
        /\ m.etag = base.version
    BY <1>2, <1>4 DEF RebaseRead, Locals
  <2> HIDE DEF m
  <2>2. UNCHANGED <<doc, lineage, object, base>>
    BY <1>4 DEF RebaseRead, registry, state, world
  <2>3. Built' /\ TheEntry' = TheEntry
    BY <1>0, <2>2, BuiltUnmoved DEF TheEntry
  <2>4. base.version <= base'.version
    <3>1. base' = base /\ base.version \in Int
      BY <1>0, <2>2
    <3>2. QED  BY <3>1
  <2>5. proc'[p] = m => Knows(p)'
    BY <1>0, <1>3, <2>1, <2>3, <2>4 DEF Knows, RebaseKnows
  <2>6. QED  BY <1>2, <2>1, <2>3, <2>5, FreshStep
<1>5. CASE RebasePull(p)
  <2> DEFINE m == [proc[p] EXCEPT !.pc = "pulled", !.base = base]
  <2>1. /\ proc' = [proc EXCEPT ![p] = m] /\ m.cmd = "rebase" /\ m.pc = "pulled"
        /\ m.etag = proc[p].etag /\ m.base = base /\ proc[p].pc = "read"
    BY <1>2, <1>5 DEF RebasePull, At, Locals
  <2> HIDE DEF m
  <2>2. UNCHANGED <<doc, lineage, object, base>>
    BY <1>5 DEF RebasePull, registry, state, world
  <2>3. Built' /\ TheEntry' = TheEntry
    BY <1>0, <2>2, BuiltUnmoved DEF TheEntry
  <2>4. proc'[p] = m => Knows(p)'
    BY <1>2, <2>1, <2>2, <2>3 DEF Knows, RebaseKnows
  <2>5. QED  BY <1>2, <2>1, <2>3, <2>4, FreshStep
<1>6. CASE RebasePush(p)
  <2> DEFINE m == [proc[p] EXCEPT !.pc = "pushed"]
  <2>1. /\ proc' = [proc EXCEPT ![p] = m] /\ m.cmd = "rebase" /\ m.pc = "pushed"
        /\ m.etag = proc[p].etag /\ proc[p].pc = "pulled"
    BY <1>2, <1>6 DEF RebasePush, Goto, At, Locals
  <2> HIDE DEF m
  <2>2. /\ object' = Rebuilt(p) /\ UNCHANGED <<doc, lineage, base>>
        /\ proc[p].base \in BaseState
    BY <1>2, <1>6, <2>1 DEF RebasePush, registry, world, LocalsFit
  <2>3. object'.base = proc[p].base
    BY <2>2 DEF Rebuilt
  <2>4. /\ proc[p].etag \in Etags /\ TheEntry.etag <= proc[p].etag
        /\ proc[p].etag <= base.version /\ proc[p].etag <= proc[p].base.version
    BY <1>2, <2>1 DEF Knows, RebaseKnows
  <2>5. TheEntry.etag <= proc[p].base.version
    <3>1. TheEntry.etag \in Int /\ proc[p].etag \in Int /\ proc[p].base.version \in Int
      BY <1>0, <1>3, <2>2, <2>4, LifecycleAssumption DEF BaseState
    <3>2. QED  BY <2>4, <3>1
  <2>6. UNCHANGED <<Entered, TheEntry, Status>>
    BY <2>2 DEF Entered, Registered, TheEntry, Status
  <2>7. Built'
    BY <1>0, <1>2, <2>2, <2>3, <2>5, <2>6 DEF Built
  <2>8. proc'[p] = m => Knows(p)'
    BY <2>1, <2>2, <2>3, <2>4, <2>6 DEF Knows, RebaseKnows
  <2>9. QED  BY <1>2, <2>1, <2>7, <2>8, FreshStep
<1>7. CASE RebaseRecord(p)
  <2>1. /\ doc' = SetStatus(doc, Me, "active", proc[p].etag, << >>) /\ Return(p)
        /\ UNCHANGED <<lineage, object, base>> /\ proc[p].pc = "pushed"
    BY <1>7 DEF RebaseRecord, state, world, At
  <2>2. Entered' /\ Status' = "active" /\ TheEntry'.etag = proc[p].etag
    BY <1>2, <2>1, StatusSetIs, EmptyIsClaims
  <2>3. Built'
    BY <1>2, <2>1, <2>2 DEF Built, Knows, RebaseKnows
  <2>4. QED  BY <1>2, <2>1, <2>3, FreshReturn DEF Return, Resting
<1>8. QED  BY <1>4, <1>5, <1>6, <1>7 DEF Rebase

LEMMA MergeFresh ==
    ASSUME Concurrent = 1, Typed, Sequential, Fresh, NEW p \in Procs, Merge(p)
    PROVE  Fresh'
<1>0. Built
  BY DEF Fresh
<1>1. CASE MergeLoad(p)
  BY <1>1, FreshBegin DEF MergeLoad
<1> SUFFICES ASSUME ~MergeLoad(p)  PROVE Fresh'
  BY <1>1
<1>2. /\ p \in Running /\ Entered /\ Status # "creating"
      /\ proc[p].cmd = "merge" /\ proc[p] \in Locals
  <2>1. PICK pc \in {"loaded", "refreshed", "verified"} : At(p, "merge", pc)
    BY DEF Merge, MergeRead, MergeVerify, MergeFreeze
  <2>2. QED  BY <2>1, ItFits DEF CommandFits, MergeFits, Pcs, Resting
<1>3. CASE MergeRead(p)
  <2>1. \A q \in Procs \ {p} : proc'[q] = proc[q]
    BY <1>3 DEF MergeRead, Typed
  <2>2. proc'[p].cmd = proc[p].cmd
    BY <1>2, <1>3 DEF MergeRead, Typed, Locals
  <2>3. Built'
    BY <1>0, <1>3, BuiltUnmoved DEF MergeRead, registry, state, world
  <2>4. QED  BY <1>2, <2>1, <2>2, <2>3, FreshOther
<1>4. CASE MergeVerify(p)
  <2>1. Built'
    BY <1>0, <1>4, BuiltUnmoved DEF MergeVerify, registry, state, world
  <2>2. QED  BY <1>2, <1>4, <2>1, FreshGoto DEF MergeVerify, Pcs
<1>5. CASE MergeFreeze(p)
  <2>1. /\ doc' = SetStatus(doc, Me, "merging", TheEntry.etag, proc[p].claims) /\ Return(p)
        /\ UNCHANGED <<lineage, object, base>> /\ proc[p].claims \in ClaimMap
    BY <1>2, <1>5 DEF MergeFreeze, state, Locals
  <2>2. Entered' /\ Status' = "merging" /\ TheEntry'.etag = TheEntry.etag
    BY <1>2, <2>1, StatusSetIs
  <2>3. Built'
    BY <1>0, <1>2, <2>1, <2>2, BuiltKept
  <2>4. QED  BY <1>2, <2>1, <2>3, FreshReturn DEF Return, Resting
<1>6. QED  BY <1>3, <1>4, <1>5 DEF Merge

LEMMA UndoFresh ==
    ASSUME Concurrent = 1, Typed, Sequential, Fresh, NEW p \in Procs, Undo(p)
    PROVE  Fresh'
<1>0. Built
  BY DEF Fresh
<1>1. CASE UndoLoad(p)
  BY <1>1, FreshBegin DEF UndoLoad
<1> SUFFICES ASSUME ~UndoLoad(p)  PROVE Fresh'
  BY <1>1
<1>2. p \in Running /\ Entered /\ Status # "creating" /\ proc[p].cmd = "undo"
  <2>1. PICK pc \in {"loaded", "unlinked"} : At(p, "undo", pc)
    BY DEF Undo, UndoUnlink, UndoThaw
  <2>2. QED  BY <2>1, ItFits DEF CommandFits, UndoFits, Pcs, Resting
<1>3. CASE UndoUnlink(p)
  <2>1. Built'
    BY <1>0, <1>3, BuiltUnmoved DEF UndoUnlink, registry, state
  <2>2. QED  BY <1>2, <1>3, <2>1, FreshGoto DEF UndoUnlink, Pcs
<1>4. CASE UndoThaw(p)
  <2>1. /\ doc' = SetStatus(doc, Me, "active", TheEntry.etag, << >>) /\ Return(p)
        /\ UNCHANGED <<lineage, object, base>>
    BY <1>4 DEF UndoThaw, state, world
  <2>2. Entered' /\ Status' = "active" /\ TheEntry'.etag = TheEntry.etag
    BY <1>2, <2>1, StatusSetIs, EmptyIsClaims
  <2>3. Built'
    BY <1>0, <1>2, <2>1, <2>2, BuiltKept
  <2>4. QED  BY <1>2, <2>1, <2>3, FreshReturn DEF Return, Resting
<1>5. QED  BY <1>3, <1>4 DEF Undo

LEMMA ReleaseFresh ==
    ASSUME Typed, Sequential, Fresh, NEW p \in Running, Release(p), object = Nil
    PROVE  Fresh'
<1>1. /\ doc' = ReleaseOverlay(doc, Me) /\ lineage' = Nil /\ Return(p)
      /\ object' = Nil
  BY DEF Release, state
<1>2. ~Entered'
  BY <1>1, ReleaseIs DEF Entered, Registered
<1>3. Built'
  BY <1>1, <1>2 DEF Built
<1>4. QED  BY <1>1, <1>3, FreshReturn DEF Return, Resting

LEMMA AbandonFresh ==
    ASSUME Concurrent = 1, Typed, Sequential, Fresh, NEW p \in Procs, Abandon(p)
    PROVE  Fresh'
<1>0. Built
  BY DEF Fresh
<1>1. CASE AbandonLoad(p)
  <2>1. PICK cmd \in {"abandon", "abandon keep"} :
           BeginLoaded(p, cmd, "loaded") /\ UNCHANGED <<registry, state, world>>
    BY <1>1 DEF AbandonLoad
  <2>2. QED  BY <2>1, FreshBegin
<1> SUFFICES ASSUME ~AbandonLoad(p)  PROVE Fresh'
  BY <1>1
<1>2. /\ p \in Running /\ Entered /\ AbandonFits(p)
      /\ proc[p].cmd \in {"abandon", "abandon keep"} /\ proc[p] \in Locals
  <2>1. /\ Abandons(p)
        /\ proc[p].pc \in {"loaded", "checked", "removed", "planned", "emptied", "destroyed", "archived"}
    BY DEF Abandon, AbandonCheck, AbandonStateRm, AbandonPlan, AbandonDestroy, AbandonVerify,
           AbandonArchive, AbandonRelease, Archive, Release, At, Abandons
  <2>2. QED  BY <2>1, AbandonIsOn DEF AbandonFits, Pcs, Resting
<1>3. CASE AbandonCheck(p)
  <2>1. \A q \in Procs \ {p} : proc'[q] = proc[q]
    BY <1>3 DEF AbandonCheck, Typed
  <2>2. proc'[p].cmd = proc[p].cmd
    BY <1>2, <1>3 DEF AbandonCheck, Typed, Locals
  <2>3. Built'
    BY <1>0, <1>3, BuiltUnmoved DEF AbandonCheck, registry, state, world
  <2>4. QED  BY <1>2, <2>1, <2>2, <2>3, FreshOther
<1>4. CASE AbandonStateRm(p)
  <2>1. /\ Goto(p, "removed") /\ UNCHANGED <<doc, lineage, base>> /\ object # Nil
    BY <1>4 DEF AbandonStateRm, registry, world
  <2>2. object'.base.version = 0
    <3>1. object \in StateObject
      BY <2>1, ObjectIs
    <3>2. object' = Bared(p)
      BY <1>4, <3>1, BaredIs
    <3>3. QED  BY <3>2 DEF Bared
  <2>3. Built'
    BY <1>0, <1>2, <2>1, <2>2, BuiltKept DEF Entered, Registered, TheEntry, Status
  <2>4. QED  BY <1>2, <2>1, <2>3, FreshGoto DEF Pcs
<1>5. CASE AbandonPlan(p)
  <2>1. \A q \in Procs \ {p} : proc'[q] = proc[q]
    BY <1>5 DEF AbandonPlan, Typed
  <2>2. proc'[p].cmd = proc[p].cmd
    BY <1>2, <1>5 DEF AbandonPlan, Typed, Locals
  <2>3. Built'
    BY <1>0, <1>5, BuiltUnmoved DEF AbandonPlan, registry, state, world
  <2>4. QED  BY <1>2, <2>1, <2>2, <2>3, FreshOther
<1>6. CASE AbandonDestroy(p)
  <2>1. object # Nil /\ UNCHANGED <<doc, lineage, base>> /\ object \in StateObject
    BY <1>6, ObjectIs DEF AbandonDestroy, registry
  <2>2. object'.base = object.base
    <3>1. PICK some \in SUBSET DOMAIN object.own :
             object' = [object EXCEPT !.serial = @ + 1, !.own = Restrict(@, DOMAIN @ \ some)]
      BY <1>6 DEF AbandonDestroy
    <3>2. QED  BY <2>1, <3>1, AbandonDestroyIs
  <2>3. Built'
    BY <1>0, <1>2, <2>1, <2>2, BuiltKept DEF Entered, Registered, TheEntry, Status
  <2>4. Goto(p, "emptied") \/ proc' = [proc EXCEPT ![p] = Ended("stopped")]
    BY <1>6 DEF AbandonDestroy
  <2>5. QED  BY <1>2, <2>3, <2>4, FreshGoto, FreshReturn DEF Pcs, Resting
<1>7. CASE AbandonVerify(p)
  <2>1. Built'
    BY <1>0, <1>7, BuiltUnmoved DEF AbandonVerify, registry, state, world
  <2>2. QED  BY <1>2, <1>7, <2>1, FreshGoto DEF AbandonVerify, Pcs
<1>8. CASE AbandonArchive(p)
  <2>1. Goto(p, "archived") /\ object' = Nil /\ UNCHANGED <<doc, lineage, base>>
    BY <1>8 DEF AbandonArchive, Archive, registry
  <2>2. Built'
    BY <1>0, <1>2, <2>1, BuiltKept DEF Entered, Registered, TheEntry, Status
  <2>3. QED  BY <1>2, <2>1, <2>2, FreshGoto DEF Pcs
<1>9. CASE AbandonRelease(p)
  <2>1. object = Nil
    BY <1>2, <1>9 DEF AbandonRelease, Release, AbandonFits
  <2>2. QED  BY <1>2, <1>9, <2>1, ReleaseFresh DEF AbandonRelease
<1>10. QED
  BY <1>3, <1>4, <1>5, <1>6, <1>7, <1>8, <1>9 DEF Abandon

LEMMA FinalizeFresh ==
    ASSUME Concurrent = 1, Typed, Sequential, Fresh, NEW p \in Procs, Finalize(p)
    PROVE  Fresh'
<1>0. Built
  BY DEF Fresh
<1>1. CASE FinalizeLoad(p)
  BY <1>1, FreshBegin DEF FinalizeLoad
<1> SUFFICES ASSUME ~FinalizeLoad(p)  PROVE Fresh'
  BY <1>1
<1>2. p \in Running /\ Entered /\ FinalizeFits(p) /\ proc[p].cmd = "finalize"
  <2>1. PICK pc \in {"loaded", "checked", "archived"} : At(p, "finalize", pc)
    BY DEF Finalize, FinalizeCheck, FinalizeArchive, FinalizeRelease, Archive, Release, At
  <2>2. QED  BY <2>1, ItFits DEF CommandFits, FinalizeFits, Pcs, Resting
<1>3. CASE FinalizeCheck(p)
  <2>1. Built'
    BY <1>0, <1>3, BuiltUnmoved DEF FinalizeCheck, registry, state, world
  <2>2. QED  BY <1>2, <1>3, <2>1, FreshGoto DEF FinalizeCheck, Pcs
<1>4. CASE FinalizeArchive(p)
  <2>1. Goto(p, "archived") /\ object' = Nil /\ UNCHANGED <<doc, lineage, base>>
    BY <1>4 DEF FinalizeArchive, Archive, registry, world
  <2>2. Built'
    BY <1>0, <1>2, <2>1, BuiltKept DEF Entered, Registered, TheEntry, Status
  <2>3. QED  BY <1>2, <2>1, <2>2, FreshGoto DEF Pcs
<1>5. CASE FinalizeRelease(p)
  <2>1. object = Nil
    BY <1>2, <1>5 DEF FinalizeRelease, Release, FinalizeFits
  <2>2. QED  BY <1>2, <1>5, <2>1, ReleaseFresh DEF FinalizeRelease
<1>6. QED  BY <1>3, <1>4, <1>5 DEF Finalize

\* The base only ever moves on.
LEMMA AroundFresh ==
    ASSUME Typed, Typed', Sequential, Fresh, TrunkMoves \/ TrunkAdopts \/ Timeout
    PROVE  Fresh'
<1>1. UNCHANGED <<doc, lineage, object, proc>>
  BY DEF TrunkMoves, TrunkAdopts, Timeout, registry, state, world
<1>2. base.version \in Int /\ base'.version \in Int /\ base.version <= base'.version
  <2>1. base.version \in Int /\ base \in BaseState
    BY Versions DEF Typed, StateTyped
  <2>2. base'.version \in {base.version, base.version + 1}
    BY <2>1 DEF TrunkMoves, TrunkAdopts, Timeout, world, BaseState
  <2>3. QED  BY <2>1, <2>2
<1>3. Running' = Running /\ UNCHANGED <<Entered, TheEntry, Status>>
  BY <1>1 DEF Running, Entered, Registered, TheEntry, Status
<1>4. \A e \in Etags : e <= base.version => e <= base'.version
  BY <1>2, Versions
<1>5. Built'
  BY <1>1, <1>3, <1>4 DEF Fresh, Built
<1>6. ASSUME NEW p \in Running  PROVE Knows(p)'
  BY <1>1, <1>3, <1>4 DEF Fresh, Knows, CreateKnows, RebaseKnows
<1>7. QED  BY <1>3, <1>5, <1>6 DEF Fresh

LEMMA NextFresh ==
    ASSUME Concurrent = 1, Typed, Typed', Sequential, Fresh, [Next]_vars
    PROVE  Fresh'
<1>1. CASE UNCHANGED vars
  <2>1. UNCHANGED <<doc, expired, lineage, object, lock, base, cloud, kept, imports, proc>>
    BY <1>1 DEF vars, registry, state, world
  <2>2. Running' = Running /\ Built' /\ TheEntry' = TheEntry
    BY <2>1, BuiltUnmoved DEF Fresh, Running, TheEntry
  <2>3. ASSUME NEW p \in Running  PROVE Knows(p)'
    BY <2>1, <2>2 DEF Fresh, Knows, CreateKnows, RebaseKnows
  <2>4. QED  BY <2>2, <2>3 DEF Fresh
<1>2. ASSUME NEW p \in Procs, Stop(p)  PROVE Fresh'
  <2>1. Built'
    BY <1>2, BuiltUnmoved DEF Fresh, Stop, registry, world
  <2>2. QED  BY <1>2, <2>1, FreshReturn DEF Stop, Resting
<1>3. CASE TrunkMoves \/ TrunkAdopts \/ Timeout
  BY <1>3, AroundFresh
<1>4. CASE \E p \in Procs : \/ Create(p) \/ Apply(p) \/ Rebase(p) \/ Merge(p) \/ Undo(p)
                            \/ Abandon(p) \/ Finalize(p)
  BY <1>4, CreateFresh, ApplyFresh, RebaseFresh, MergeFresh, UndoFresh, AbandonFresh,
     FinalizeFresh
<1>5. QED  BY <1>1, <1>2, <1>3, <1>4 DEF Next

\* Wherever commands stop, what passes the freshness check was built on the
\* base it names or on a later one.
THEOREM FreshIsCurrent ==
    ASSUME Concurrent = 1
    PROVE  Spec => []FreshMeansCurrent
<1> DEFINE Inv == Typed /\ ApplyingHasRun /\ Sequential /\ Fresh
<1>1. Init => Inv
  <2> SUFFICES ASSUME Init  PROVE Fresh
    BY InitTyped, InitSequential DEF ApplyingHasRun, Init, EmptyDoc, Entered, Registered
  <2>1. Running = {}
    BY IdleIs DEF Init, Running
  <2>2. ~Entered /\ object = Nil /\ lineage = Nil
    BY DEF Init, EmptyDoc, Entered, Registered
  <2>3. QED  BY <2>1, <2>2 DEF Fresh, Built
<1>2. Inv /\ [Next]_vars => Inv'
  BY NextTyped, NextSequential, NextFresh
<1>3. Inv => FreshMeansCurrent
  <2> SUFFICES ASSUME Typed, Fresh, Entered, object # Nil, TheEntry.etag # Nil,
                      object.base.version # 0
               PROVE  object.base.version >= TheEntry.etag
    BY DEF FreshMeansCurrent
  <2>1. TheEntry.etag \in Etags /\ TheEntry.etag <= object.base.version
    BY DEF Fresh, Built
  <2>2. TheEntry.etag \in Int /\ object.base.version \in Int
    BY <2>1, Versions
  <2>3. QED  BY <2>1, <2>2
<1> HIDE DEF Inv
<1>4. QED  BY <1>1, <1>2, <1>3, PTL DEF Spec

------------------------------------------------------------------------------
(***************************************************************************)
(* Physical ids.  An id that is known anywhere, in a state, in the imports *)
(* file, in a claim or in the locals of a command, is that of an apply     *)
(* which has written its state: what an apply creates is new to everybody. *)
(***************************************************************************)

InInstances(q, f) == \E a \in DOMAIN f : f[a] = q

InClaims(q, c) == \E a \in DOMAIN c : c[a].id = q

InObject(q, o) == o # Nil /\ InInstances(q, o.own)

InLocals(q, me) ==
    \/ InClaims(q, me.claims) \/ InObject(q, me.object)
    \/ me.cmd = "merge" /\ me.pc = "loaded" /\ InClaims(q, me.entry.claims)

Seen(q) ==
    \/ InObject(q, object) \/ InInstances(q, base.own)
    \/ imports # Nil /\ InInstances(q, imports)
    \/ Entered /\ InClaims(q, TheEntry.claims)
    \/ \E p \in Procs : InLocals(q, proc[p])

HasWritten(q) ==
    \/ proc[q].pc \in {"returned", "stopped"}
    \/ proc[q].cmd = "apply" /\ proc[q].pc \in {"applied", "refreshed"}

Numbered == \A q \in Procs : Seen(q) => HasWritten(q)

LEMMA NothingIn == ASSUME NEW q  PROVE ~InInstances(q, << >>) /\ ~InClaims(q, << >>)
BY EmptyIsClaims DEF InInstances, InClaims

LEMMA NotInMerged ==
    ASSUME NEW c \in ClaimMap, NEW w \in ClaimMap, NEW q, ~InClaims(q, c), ~InClaims(q, w)
    PROVE  ~InClaims(q, MergeClaims(c, w))
<1>1. DOMAIN MergeClaims(c, w) = DOMAIN c \cup DOMAIN w
  BY MergeClaimsIs
<1>2. ASSUME NEW a \in DOMAIN c \cup DOMAIN w
      PROVE  MergeClaims(c, w)[a].id # q
  <2>1. CASE a \notin DOMAIN w
    BY <1>2, <2>1 DEF MergeClaims, InClaims
  <2>2. CASE a \in DOMAIN w /\ a \notin DOMAIN c
    BY <1>2, <2>2 DEF MergeClaims, InClaims
  <2>3. CASE a \in DOMAIN w /\ a \in DOMAIN c
    <3>1. MergeClaims(c, w)[a] = MergeClaim(c[a], w[a])
      BY <2>3 DEF MergeClaims
    <3>2. MergeClaims(c, w)[a].id \in {c[a].id, w[a].id}
      BY <3>1 DEF MergeClaim, KnownOr
    <3>3. QED  BY <2>3, <3>2 DEF InClaims
  <2>4. QED  BY <1>2, <2>1, <2>2, <2>3
<1>3. QED  BY <1>1, <1>2 DEF InClaims

LEMMA NotInRestricted ==
    ASSUME NEW f, NEW S, NEW q
    PROVE  /\ ~InClaims(q, f) => ~InClaims(q, Restrict(f, DOMAIN f \ S))
           /\ ~InInstances(q, f) => ~InInstances(q, Restrict(f, DOMAIN f \ S))
           /\ ~InInstances(q, f) => ~InInstances(q, Restrict(f, DOMAIN f \cap S))
<1> DEFINE r == Restrict(f, DOMAIN f \ S)
           s == Restrict(f, DOMAIN f \cap S)
<1>1. DOMAIN r = DOMAIN f \ S /\ \A a \in DOMAIN f \ S : r[a] = f[a]
  BY DEF Restrict
<1>2. DOMAIN s = DOMAIN f \cap S /\ \A a \in DOMAIN f \cap S : s[a] = f[a]
  BY DEF Restrict
<1> HIDE DEF r, s
<1>3. /\ ~InClaims(q, f) => ~InClaims(q, r)
      /\ ~InInstances(q, f) => ~InInstances(q, r)
      /\ ~InInstances(q, f) => ~InInstances(q, s)
  BY <1>1, <1>2 DEF InClaims, InInstances
<1>4. QED  BY <1>3 DEF r, s

LEMMA NotInFinished ==
    ASSUME NEW c \in ClaimMap, NEW l \in ClaimMap, NEW gone, NEW dropped, NEW q,
           ~InClaims(q, c), ~InClaims(q, l)
    PROVE  ~InClaims(q, FinishClaims(c, l, gone, dropped))
<1> DEFINE left == Restrict(l, DOMAIN l \ gone)
           merged == MergeClaims(c, left)
<1>1. left \in ClaimMap /\ ~InClaims(q, left)
  BY RestrictIs, NotInRestricted
<1>2. ~InClaims(q, merged)
  BY <1>1, NotInMerged
<1>3. FinishClaims(c, l, gone, dropped) = Restrict(merged, DOMAIN merged \ dropped)
  BY DEF FinishClaims
<1> HIDE DEF merged
<1>4. QED  BY <1>2, <1>3, NotInRestricted

LEMMA NotInRefreshed ==
    ASSUME NEW c \in ClaimMap, NEW o \in StateObject, NEW q, ~InClaims(q, c), ~InInstances(q, o.own)
    PROVE  ~InClaims(q, ClaimsFromState(c, o))
BY RefreshedClaimsAre DEF InClaims, InInstances

LEMMA NotInPlanned ==
    ASSUME NEW e \in Entry, NEW created \in SUBSET Addresses, NEW deleted,
           NEW q \in Procs, ~InClaims(q, e.claims)
    PROVE  ~InClaims(q, PlannedClaims(e, created, deleted))
<1> DEFINE new == [a \in created |-> NewClaim]
           old == Restrict(e.claims, DOMAIN e.claims \ deleted)
<1>1. e.claims \in ClaimMap
  BY DEF Entry
<1>2. NewClaim \in Claim /\ NewClaim.id = Nil /\ q # Nil
  BY LifecycleAssumption, NilAssumption DEF NewClaim, Claim
<1>3. new \in ClaimMap /\ ~InClaims(q, new)
  BY <1>2, ClaimMapIs DEF InClaims
<1>4. old \in ClaimMap /\ ~InClaims(q, old)
  BY <1>1, RestrictIs, NotInRestricted
<1>5. PlannedClaims(e, created, deleted) = MergeClaims(old, new)
  BY DEF PlannedClaims
<1> HIDE DEF old, new
<1>6. QED  BY <1>3, <1>4, <1>5, NotInMerged

\* What a step of p may write without letting an id be seen.
LEMMA UnseenStep ==
    ASSUME Typed, NEW q, ~Seen(q), NEW p \in Procs, NEW m, proc' = [proc EXCEPT ![p] = m],
           ~InLocals(q, m), ~InObject(q, object'), base' = base,
           imports' # Nil => ~InInstances(q, imports'),
           Entered' => ~InClaims(q, TheEntry'.claims)
    PROVE  ~Seen(q)'
<1>1. \A r \in Procs : proc'[r] = m \/ proc'[r] = proc[r]
  BY DEF Typed
<1>2. QED  BY <1>1 DEF Seen

LEMMA UnseenQuiet ==
    ASSUME Typed, NEW q, ~Seen(q), NEW p \in Procs, NEW m, proc' = [proc EXCEPT ![p] = m],
           ~InLocals(q, m), UNCHANGED <<doc, object, base, imports>>
    PROVE  ~Seen(q)'
<1>1. ~InObject(q, object') /\ (imports' # Nil => ~InInstances(q, imports'))
  BY DEF Seen
<1>2. Entered' => ~InClaims(q, TheEntry'.claims)
  BY DEF Seen, Entered, Registered, TheEntry
<1>3. QED  BY <1>1, <1>2, UnseenStep

\* The locals of a command that goes on, and of one that ends.
LEMMA UnseenGoto ==
    ASSUME Typed, NEW q, ~Seen(q), NEW p \in Procs, NEW pc \in Pcs \ {"loaded"}, Goto(p, pc)
    PROVE  \E m : proc' = [proc EXCEPT ![p] = m] /\ ~InLocals(q, m)
<1>1. PICK m \in Locals :
         /\ proc' = [proc EXCEPT ![p] = m] /\ m.pc = pc
         /\ m.object = proc[p].object /\ m.claims = proc[p].claims
  BY GotoIs
<1>2. ~InLocals(q, m)
  BY <1>1 DEF Seen, InLocals
<1>3. QED  BY <1>1, <1>2

LEMMA UnseenEnded ==
    ASSUME NEW q, NEW pc \in Resting
    PROVE  ~InLocals(q, Ended(pc))
<1>1. Ended(pc).claims = << >> /\ Ended(pc).object = Nil /\ Ended(pc).pc # "loaded"
  BY DEF Ended, Idle, Resting
<1>2. QED  BY <1>1, NothingIn DEF InLocals, InObject

LEMMA UnseenBegin ==
    ASSUME Typed, NEW q, ~Seen(q), NEW p \in Procs, NEW cmd, Entered,
           BeginLoaded(p, cmd, "loaded"), UNCHANGED <<registry, state, world>>
    PROVE  ~Seen(q)'
<1> DEFINE m == [Idle EXCEPT !.cmd = cmd, !.pc = "loaded", !.entry = TheEntry,
                             !.recorded = lineage]
<1>1. proc' = [proc EXCEPT ![p] = m]
  BY DEF BeginLoaded, Begin
<1>2. m.claims = << >> /\ m.object = Nil /\ m.entry = TheEntry
  BY DEF Idle
<1> HIDE DEF m
<1>3. ~InLocals(q, m)
  BY <1>2, NothingIn DEF Seen, InLocals, InObject
<1>4. QED  BY <1>1, <1>3, UnseenQuiet DEF registry, state, world

LEMMA UnseenReturn ==
    ASSUME Typed, NEW q, ~Seen(q), NEW p \in Procs, NEW pc \in Resting,
           proc' = [proc EXCEPT ![p] = Ended(pc)],
           UNCHANGED <<object, base, imports>>, Entered' => ~InClaims(q, TheEntry'.claims)
    PROVE  ~Seen(q)'
<1>1. ~InObject(q, object') /\ (imports' # Nil => ~InInstances(q, imports'))
  BY DEF Seen
<1> DEFINE m == Ended(pc)
<1>2. proc' = [proc EXCEPT ![p] = m] /\ ~InLocals(q, m)
  BY UnseenEnded
<1> HIDE DEF m
<1>3. QED  BY <1>1, <1>2, UnseenStep

LEMMA CreateUnseen ==
    ASSUME Typed, NEW q \in Procs, ~Seen(q), NEW p \in Procs, Create(p)
    PROVE  ~Seen(q)'
<1>0. ~InLocals(q, proc[p]) /\ proc[p] \in Locals
  BY DEF Seen, Typed
<1>1. CASE CreateLoad(p)
  <2> DEFINE m == [Idle EXCEPT !.cmd = "create", !.pc = "loaded", !.etag = base.version,
                               !.entry = IF Entered THEN TheEntry ELSE Nil]
  <2>1. proc' = [proc EXCEPT ![p] = m] /\ UNCHANGED <<doc, object, base, imports>>
    BY <1>1 DEF CreateLoad, Begin, registry, state, world
  <2>2. m.claims = << >> /\ m.object = Nil /\ m.cmd = "create"
    BY DEF Idle
  <2> HIDE DEF m
  <2>3. ~InLocals(q, m)
    BY <2>2, NothingIn DEF Seen, InLocals, InObject
  <2>4. QED  BY <2>1, <2>3, UnseenQuiet
<1>2. CASE CreateRegister(p)
  <2> DEFINE m == [proc[p] EXCEPT !.pc = "registered", !.recorded = lineage]
  <2>1. proc' = [proc EXCEPT ![p] = m] /\ UNCHANGED <<object, base, imports>>
        /\ doc' = RegisterCreating(doc, Me)
    BY <1>2 DEF CreateRegister, state, world
  <2>2. m.claims = proc[p].claims /\ m.object = proc[p].object /\ m.pc # "loaded"
    BY <1>0 DEF Locals
  <2> HIDE DEF m
  <2>3. ~InLocals(q, m)
    BY <1>0, <2>2 DEF InLocals
  <2>4. Entered' => ~InClaims(q, TheEntry'.claims)
    <3>1. CASE Entered
      BY <2>1, <3>1 DEF RegisterCreating, Entered, Registered, TheEntry, Seen
    <3>2. CASE ~Entered
      BY <2>1, <3>2, RegisteredEntry DEF Entered, Registered, TheEntry, InClaims
    <3>3. QED  BY <3>1, <3>2
  <2>5. ~InObject(q, object') /\ (imports' # Nil => ~InInstances(q, imports'))
    BY <2>1 DEF Seen
  <2>6. QED  BY <2>1, <2>3, <2>4, <2>5, UnseenStep
<1>3. CASE CreatePull(p)
  <2> DEFINE m == [proc[p] EXCEPT !.pc = "pulled", !.base = base]
  <2>1. proc' = [proc EXCEPT ![p] = m] /\ UNCHANGED <<doc, object, base, imports>>
    BY <1>3 DEF CreatePull, registry, state, world
  <2>2. m.claims = proc[p].claims /\ m.object = proc[p].object /\ m.pc # "loaded"
    BY <1>0 DEF Locals
  <2> HIDE DEF m
  <2>3. ~InLocals(q, m)
    BY <1>0, <2>2 DEF InLocals
  <2>4. QED  BY <2>1, <2>3, UnseenQuiet
<1>4. CASE CreatePush(p)
  <2>1. PICK pc \in Pcs \ {"loaded"} : Goto(p, pc)
    BY <1>4 DEF CreatePush, Pcs
  <2>2. PICK m : proc' = [proc EXCEPT ![p] = m] /\ ~InLocals(q, m)
    BY <2>1, UnseenGoto
  <2>3. ~InObject(q, Forked(p, proc[p].base))
    BY NothingIn DEF InObject, Forked
  <2>4. ~InObject(q, object') /\ UNCHANGED <<doc, base, imports>>
    BY <1>4, <2>3 DEF CreatePush, Seen, registry, world
  <2>5. Entered' => ~InClaims(q, TheEntry'.claims)
    BY <2>4 DEF Seen, Entered, Registered, TheEntry
  <2>6. imports' # Nil => ~InInstances(q, imports')
    BY <2>4 DEF Seen
  <2>7. QED  BY <2>2, <2>4, <2>5, <2>6, UnseenStep
<1>5. CASE CreateReadBack(p)
  <2> DEFINE m == [proc[p] EXCEPT !.pc = "read back", !.recorded = object.lineage]
  <2>1. proc' = [proc EXCEPT ![p] = m] /\ UNCHANGED <<doc, object, base, imports>>
    BY <1>5 DEF CreateReadBack, registry, state, world
  <2>2. m.claims = proc[p].claims /\ m.object = proc[p].object /\ m.pc # "loaded"
    BY <1>0 DEF Locals
  <2> HIDE DEF m
  <2>3. ~InLocals(q, m)
    BY <1>0, <2>2 DEF InLocals
  <2>4. QED  BY <2>1, <2>3, UnseenQuiet
<1>6. CASE CreateFlip(p)
  <2>1. doc' = Flip(doc, Me, proc[p].etag) /\ UNCHANGED <<object, base, imports>>
        /\ proc' = [proc EXCEPT ![p] = Ended("returned")]
        /\ Me \in DOMAIN doc.overlays /\ IsDocument(doc)
    BY <1>6 DEF CreateFlip, Return, state, world, FlipRefused, Registered, Typed
  <2>2. TheEntry'.claims = TheEntry.claims
    BY <2>1, FlippedEntry DEF TheEntry
  <2>3. ~InClaims(q, TheEntry'.claims)
    BY <2>1, <2>2 DEF Seen, Entered, Registered
  <2>4. QED  BY <2>1, <2>3, UnseenReturn DEF Resting
<1>7. QED  BY <1>1, <1>2, <1>3, <1>4, <1>5, <1>6 DEF Create

\* What tofu writes carries the ids of the state it found, or the new one.
LEMMA ApplyWriteUnseen ==
    ASSUME Typed, NEW q \in Procs, ~Seen(q), NEW p \in Procs, q # p, ApplyWrite(p)
    PROVE  ~Seen(q)'
<1> DEFINE me == proc[p]
           own == me.object.own
<1>1. /\ ~InLocals(q, me) /\ me \in Locals /\ me.object \in StateObject
      /\ me.want \in SUBSET Addresses /\ own \in Instances
  <2>1. me \in Locals /\ LocalsFit(me) /\ me.cmd = "apply" /\ me.pc = "applying"
    BY UnderWay DEF ApplyWrite, Pcs, Resting
  <2>2. me.object \in StateObject
    BY <2>1 DEF LocalsFit
  <2>3. QED  BY <2>1, <2>2 DEF Seen, Locals, StateObject
<1>2. Changes(p) \subseteq Addresses
  BY <1>1, InstancesAre DEF Changes, Locals
<1>3. PICK some \in SUBSET Changes(p) :
         /\ object' = [me.object EXCEPT !.own = After(p, some), !.serial = @ + 1]
         /\ proc' = [proc EXCEPT ![p].pc = "applied", ![p].ok = (some = Changes(p))]
  BY DEF ApplyWrite
<1> DEFINE after == After(p, some)
<1>4. /\ after \in Instances /\ DOMAIN after = (DOMAIN own \ some) \cup (some \cap me.want)
      /\ \A a \in DOMAIN after : after[a] = IF a \in some THEN p ELSE own[a]
  <2>1. some \in SUBSET Addresses
    BY <1>2
  <2>2. proc[p].object.own \in Instances /\ proc[p].want \in SUBSET Addresses
    BY <1>1
  <2>3. QED  BY <2>1, <2>2, AfterIs, ZenonT(40)
<1>5. object'.own = after
  <2>1. object' = [me.object EXCEPT !.own = after, !.serial = @ + 1]
    BY <1>3
  <2>2. me.object \in StateObject /\ after \in Instances
    BY <1>1, <1>4
  <2> HIDE DEF after, me
  <2>3. QED  BY <2>1, <2>2, WrittenIs
<1> HIDE DEF after
<1>6. ~InInstances(q, own)
  BY <1>1, ObjectAssumption DEF InLocals, InObject
<1>7. ~InInstances(q, after)
  BY <1>4, <1>6 DEF InInstances
<1>8. ~InObject(q, object')
  BY <1>5, <1>7 DEF InObject
<1>9. PICK ok : proc' = [proc EXCEPT ![p].pc = "applied", ![p].ok = ok]
  BY <1>3
<1> DEFINE m == [me EXCEPT !.pc = "applied", !.ok = ok]
<1>10. proc' = [proc EXCEPT ![p] = m]
  BY <1>9
<1>11. m.claims = me.claims /\ m.object = me.object /\ m.pc # "loaded"
  BY <1>1 DEF Locals
<1> HIDE DEF m
<1>12. ~InLocals(q, m)
  BY <1>1, <1>11 DEF InLocals
<1>13. UNCHANGED <<doc, base, imports>>
  BY DEF ApplyWrite, registry
<1>14. /\ imports' # Nil => ~InInstances(q, imports')
       /\ Entered' => ~InClaims(q, TheEntry'.claims)
  BY <1>13 DEF Seen, Entered, Registered, TheEntry
<1>15. QED  BY <1>8, <1>10, <1>12, <1>13, <1>14, UnseenStep

LEMMA ApplyPlanUnseen ==
    ASSUME Typed, NEW q \in Procs, ~Seen(q), NEW p \in Procs, ApplyPlan(p)
    PROVE  ~Seen(q)'
<1>1. Entered /\ TheEntry \in Entry /\ object \in StateObject
  BY EnteredIs DEF ApplyPlan, Gate, Valid, Typed, StateTyped
<1>2. PICK want \in SUBSET Addresses, replaced \in SUBSET DOMAIN object.own :
         LET created == (want \ DOMAIN object.own) \cup replaced
             deleted == DOMAIN object.own \ want
         IN  proc' = [proc EXCEPT
                ![p].pc = "planned", ![p].object = object,
                ![p].want = want, ![p].replaced = replaced,
                ![p].claims = PlannedClaims(TheEntry, created, deleted)]
  BY DEF ApplyPlan
<1> DEFINE created == (want \ DOMAIN object.own) \cup replaced
           deleted == DOMAIN object.own \ want
           claims == PlannedClaims(TheEntry, created, deleted)
           m == [proc[p] EXCEPT !.pc = "planned", !.object = object, !.want = want,
                                !.replaced = replaced, !.claims = claims]
<1>3. created \in SUBSET Addresses
  BY <1>1, InstancesAre DEF StateObject
<1>4. ~InClaims(q, claims)
  <2>1. ~InClaims(q, TheEntry.claims)
    BY <1>1 DEF Seen
  <2> HIDE DEF created, deleted
  <2>2. QED  BY <1>1, <1>3, <2>1, NotInPlanned
<1>5. proc' = [proc EXCEPT ![p] = m]
  BY <1>2 DEF Typed
<1> HIDE DEF claims
<1>6. /\ m.claims = claims /\ m.object = object /\ m.pc # "loaded"
      /\ ~InLocals(q, proc[p])
  BY DEF Typed, Locals, Seen
<1> HIDE DEF m
<1>7. ~InLocals(q, m)
  BY <1>4, <1>6 DEF InLocals, Seen
<1>8. QED  BY <1>5, <1>7, UnseenQuiet DEF ApplyPlan, registry, state, world

LEMMA ApplyUnseen ==
    ASSUME Typed, NEW q \in Procs, ~Seen(q), NEW p \in Procs, Apply(p), ApplyWrite(p) => q # p
    PROVE  ~Seen(q)'
<1>0. ~InLocals(q, proc[p]) /\ proc[p] \in Locals /\ proc[p].claims \in ClaimMap
  BY DEF Seen, Typed, Locals
<1>1. CASE ApplyLoad(p)
  BY <1>1, GateOpens, UnseenBegin DEF ApplyLoad
<1>2. CASE ApplyPlan(p)
  BY <1>2, ApplyPlanUnseen
<1>3. CASE ApplyNothing(p)
  <2>1. proc' = [proc EXCEPT ![p] = Ended("returned")] /\ UNCHANGED <<doc, object, base, imports>>
    BY <1>3 DEF ApplyNothing, Return, registry, state, world
  <2>2. Entered' => ~InClaims(q, TheEntry'.claims)
    BY <2>1 DEF Seen, Entered, Registered, TheEntry
  <2>3. QED  BY <2>1, <2>2, UnseenReturn DEF Resting
<1>4. CASE ApplyAcquire(p)
  <2> DEFINE w == proc[p].claims
             gone == DOMAIN proc[p].entry.claims \ DOMAIN w
             left == Restrict(TheEntry'.claims, DOMAIN TheEntry'.claims \ gone)
             m == [proc[p] EXCEPT !.pc = "acquired", !.released = gone, !.claims = left]
  <2>1. proc' = [proc EXCEPT ![p] = m] /\ UNCHANGED <<object, base, imports>>
        /\ doc' = AcquireClaims(doc, Me, w, p)
    BY <1>4 DEF ApplyAcquire, state, world, TheEntry
  <2>2. Entered /\ TheEntry \in Entry
    <3>1. Entered
      BY <1>4 DEF ApplyAcquire, AcquireRefused, Entered
    <3>2. QED  BY <3>1, EnteredIs
  <2>3. ~InClaims(q, TheEntry'.claims)
    <3>1. TheEntry.claims \in ClaimMap /\ ~InClaims(q, TheEntry.claims) /\ ~InClaims(q, w)
      BY <1>0, <2>2 DEF Seen, InLocals, Entry
    <3>2. TheEntry'.claims = MergeClaims(TheEntry.claims, w)
      BY <1>0, <2>1, <2>2, AcquiredEntry DEF Entered, Registered, TheEntry, Typed
    <3>3. QED  BY <1>0, <3>1, <3>2, NotInMerged
  <2>4. ~InClaims(q, left)
    BY <2>3, NotInRestricted
  <2> HIDE DEF left, gone
  <2>5. m.claims = left /\ m.object = proc[p].object /\ m.pc # "loaded"
    BY <1>0 DEF Locals
  <2> HIDE DEF m
  <2>6. ~InLocals(q, m)
    BY <1>0, <2>4, <2>5 DEF InLocals
  <2>7. ~InObject(q, object') /\ (imports' # Nil => ~InInstances(q, imports'))
    BY <2>1 DEF Seen
  <2>8. QED  BY <2>1, <2>3, <2>6, <2>7, UnseenStep
<1>5. CASE ApplyStart(p) \/ ApplyFails(p)
  <2>1. PICK pc \in Pcs \ {"loaded"} : Goto(p, pc)
    BY <1>5 DEF ApplyStart, ApplyFails, Pcs
  <2>2. UNCHANGED <<doc, object, base, imports>>
    BY <1>5 DEF ApplyStart, ApplyFails, registry, state, world
  <2>3. QED  BY <2>1, <2>2, UnseenGoto, UnseenQuiet
<1>6. CASE ApplyWrite(p)
  BY <1>6, ApplyWriteUnseen
<1>7. CASE ApplyPull(p)
  <2>1. UNCHANGED <<doc, object, base, imports>>
    BY <1>7 DEF ApplyPull, registry, state, world
  <2>2. PICK claims, released :
           /\ proc' = [proc EXCEPT ![p].pc = "refreshed", ![p].claims = claims, ![p].released = released]
           /\ ~InClaims(q, claims)
    <3>1. CASE /\ object # Nil
               /\ proc' = [proc EXCEPT
                     ![p].pc = "refreshed", ![p].claims = ClaimsFromState(@, object),
                     ![p].released = @ \ Present(object)]
      <4>1. /\ object \in StateObject /\ ~InInstances(q, object.own)
            /\ ~InClaims(q, proc[p].claims)
        BY <1>0, <3>1, ObjectIs DEF Seen, InObject, InLocals
      <4>2. ~InClaims(q, ClaimsFromState(proc[p].claims, object))
        BY <1>0, <4>1, NotInRefreshed
      <4>3. proc' = [proc EXCEPT ![p].pc = "refreshed",
                        ![p].claims = ClaimsFromState(proc[p].claims, object),
                        ![p].released = proc[p].released \ Present(object)]
        BY <1>0, <3>1 DEF Typed
      <4>4. QED  BY <4>2, <4>3
    <3>2. CASE proc' = [proc EXCEPT ![p].pc = "refreshed", ![p].released = {}]
      <4>1. proc' = [proc EXCEPT ![p].pc = "refreshed", ![p].claims = proc[p].claims,
                                 ![p].released = {}]
        <5>1. proc[p] = [proc[p] EXCEPT !.claims = proc[p].claims]
          BY <1>0 DEF Locals
        <5>2. [proc[p] EXCEPT !.pc = "refreshed", !.released = {}]
              = [proc[p] EXCEPT !.pc = "refreshed", !.claims = proc[p].claims, !.released = {}]
          BY <1>0 DEF Locals
        <5>3. QED  BY <3>2, <5>2 DEF Typed
      <4>2. QED  BY <1>0, <4>1 DEF InLocals
    <3>3. QED  BY <1>7, <3>1, <3>2 DEF ApplyPull
  <2> DEFINE m == [proc[p] EXCEPT !.pc = "refreshed", !.claims = claims, !.released = released]
  <2>3. proc' = [proc EXCEPT ![p] = m]
    BY <2>2 DEF Typed
  <2>4. m.claims = claims /\ m.object = proc[p].object /\ m.pc # "loaded"
    BY <1>0 DEF Locals
  <2> HIDE DEF m
  <2>5. ~InLocals(q, m)
    BY <1>0, <2>2, <2>4 DEF InLocals
  <2>6. QED  BY <2>1, <2>3, <2>5, UnseenQuiet
<1>8. CASE ApplyFinish(p)
  <2>1. PICK pc \in Resting : proc' = [proc EXCEPT ![p] = Ended(pc)]
    BY <1>8 DEF ApplyFinish, Resting
  <2>2. UNCHANGED <<object, base, imports>>
        /\ doc' = FinishApply(doc, Me, proc[p].ok, proc[p].claims, proc[p].released)
        /\ IsDocument(doc) /\ proc[p].ok \in BOOLEAN
    BY <1>0, <1>8 DEF ApplyFinish, state, world, Typed, Locals
  <2>3. Entered' => ~InClaims(q, TheEntry'.claims)
    <3>1. CASE Entered
      <4>1. TheEntry \in Entry /\ ~InClaims(q, TheEntry.claims) /\ ~InClaims(q, proc[p].claims)
        BY <1>0, <3>1, EnteredIs DEF Seen, InLocals
      <4>2. TheEntry.claims \in ClaimMap
        BY <4>1 DEF Entry
      <4>3. TheEntry'.claims = FinishClaims(TheEntry.claims, proc[p].claims, proc[p].released,
                                            IF proc[p].ok THEN proc[p].released ELSE {})
        BY <2>2, <3>1, FinishedEntry DEF Entered, Registered, TheEntry
      <4>4. QED  BY <1>0, <4>1, <4>2, <4>3, NotInFinished
    <3>2. CASE ~Entered
      BY <1>8, <3>2 DEF ApplyFinish, FinishRefused, Entered
    <3>3. QED  BY <3>1, <3>2
  <2>4. QED  BY <2>1, <2>2, <2>3, UnseenReturn DEF Resting
<1>9. QED
  BY <1>1, <1>2, <1>3, <1>4, <1>5, <1>6, <1>7, <1>8 DEF Apply

LEMMA UnseenSetStatus ==
    ASSUME Typed, NEW q, ~Seen(q), NEW s, NEW etag, NEW c \in ClaimMap, ~InClaims(q, c), Entered,
           doc' = SetStatus(doc, Me, s, etag, c)
    PROVE  ~InClaims(q, TheEntry'.claims)
<1>1. TheEntry.claims \in ClaimMap /\ ~InClaims(q, TheEntry.claims)
  BY EnteredIs DEF Seen, Entry
<1>2. TheEntry'.claims = MergeClaims(TheEntry.claims, c)
  BY SetStatusEntry DEF Entered, Registered, TheEntry, Typed
<1>3. QED  BY <1>1, <1>2, NotInMerged

LEMMA RebaseUnseen ==
    ASSUME Typed, NEW q \in Procs, ~Seen(q), NEW p \in Procs, Rebase(p)
    PROVE  ~Seen(q)'
<1>0. ~InLocals(q, proc[p]) /\ proc[p] \in Locals
  BY DEF Seen, Typed
<1>1. CASE RebaseLoad(p)
  BY <1>1, GateOpens, UnseenBegin DEF RebaseLoad
<1>2. CASE RebaseRead(p)
  <2> DEFINE m == [proc[p] EXCEPT !.pc = "read", !.etag = base.version, !.object = object]
  <2>1. proc' = [proc EXCEPT ![p] = m] /\ UNCHANGED <<doc, object, base, imports>>
    BY <1>2 DEF RebaseRead, registry, state, world
  <2>2. m.claims = proc[p].claims /\ m.object = object /\ m.pc # "loaded"
    BY <1>0 DEF Locals
  <2> HIDE DEF m
  <2>3. ~InLocals(q, m)
    BY <1>0, <2>2 DEF InLocals, Seen
  <2>4. QED  BY <2>1, <2>3, UnseenQuiet
<1>3. CASE RebasePull(p)
  <2> DEFINE m == [proc[p] EXCEPT !.pc = "pulled", !.base = base]
  <2>1. proc' = [proc EXCEPT ![p] = m] /\ UNCHANGED <<doc, object, base, imports>>
    BY <1>3 DEF RebasePull, registry, state, world
  <2>2. m.claims = proc[p].claims /\ m.object = proc[p].object /\ m.pc # "loaded"
    BY <1>0 DEF Locals
  <2> HIDE DEF m
  <2>3. ~InLocals(q, m)
    BY <1>0, <2>2 DEF InLocals
  <2>4. QED  BY <2>1, <2>3, UnseenQuiet
<1>4. CASE RebasePush(p)
  <2>1. Goto(p, "pushed") /\ object' = Rebuilt(p) /\ UNCHANGED <<doc, base, imports>>
    BY <1>4 DEF RebasePush, registry, world
  <2>2. PICK m : proc' = [proc EXCEPT ![p] = m] /\ ~InLocals(q, m)
    BY <2>1, UnseenGoto DEF Pcs
  <2>3. proc[p].object \in StateObject
    BY <1>4, UnderWay DEF RebasePush, LocalsFit, Pcs, Resting
  <2>4. ~InInstances(q, proc[p].object.own)
    BY <1>0, <2>3, ObjectAssumption DEF InLocals, InObject
  <2>5. object'.own = Restrict(proc[p].object.own,
                          DOMAIN proc[p].object.own \cap Creates(proc[p].entry.claims))
    BY <2>1 DEF Rebuilt
  <2>6. ~InObject(q, object')
    BY <2>4, <2>5, NotInRestricted DEF InObject
  <2>7. /\ imports' # Nil => ~InInstances(q, imports')
        /\ Entered' => ~InClaims(q, TheEntry'.claims)
    BY <2>1 DEF Seen, Entered, Registered, TheEntry
  <2>8. QED  BY <2>1, <2>2, <2>6, <2>7, UnseenStep
<1>5. CASE RebaseRecord(p)
  <2>1. /\ doc' = SetStatus(doc, Me, "active", proc[p].etag, << >>)
        /\ proc' = [proc EXCEPT ![p] = Ended("returned")] /\ UNCHANGED <<object, base, imports>>
        /\ Entered
    BY <1>5 DEF RebaseRecord, Return, state, world, Unchanged, SetStatusRefused, Entered
  <2>2. ~InClaims(q, TheEntry'.claims)
    BY <2>1, UnseenSetStatus, NothingIn, EmptyIsClaims
  <2>3. QED  BY <2>1, <2>2, UnseenReturn DEF Resting
<1>6. QED  BY <1>1, <1>2, <1>3, <1>4, <1>5 DEF Rebase

LEMMA MergeUnseen ==
    ASSUME Typed, NEW q \in Procs, ~Seen(q), NEW p \in Procs, Merge(p)
    PROVE  ~Seen(q)'
<1>0. ~InLocals(q, proc[p]) /\ proc[p] \in Locals /\ proc[p].claims \in ClaimMap
  BY DEF Seen, Typed, Locals
<1>1. CASE MergeLoad(p)
  BY <1>1, GateOpens, UnseenBegin DEF MergeLoad
<1>2. CASE MergeRead(p)
  <2> DEFINE claims == ClaimsFromState(proc[p].entry.claims, object)
             m == [proc[p] EXCEPT !.pc = "refreshed", !.claims = claims]
  <2>1. proc' = [proc EXCEPT ![p] = m] /\ UNCHANGED <<doc, object, base, imports>>
    BY <1>2 DEF MergeRead, registry, state, world
  <2>2. proc[p].entry \in Entry
    <3>1. LocalsFit(proc[p]) /\ proc[p].cmd = "merge"
      BY <1>2, UnderWay DEF MergeRead, Pcs, Resting
    <3>2. QED  BY <3>1 DEF LocalsFit, Cmds
  <2>3. ~InClaims(q, claims)
    <3>1. proc[p].entry.claims \in ClaimMap /\ ~InClaims(q, proc[p].entry.claims)
      BY <1>0, <1>2, <2>2 DEF MergeRead, At, InLocals, Entry
    <3>2. object \in StateObject /\ ~InInstances(q, object.own)
      BY <1>2, ObjectIs DEF MergeRead, Valid, Seen, InObject
    <3>3. QED  BY <3>1, <3>2, NotInRefreshed
  <2> HIDE DEF claims
  <2>4. m.claims = claims /\ m.object = proc[p].object /\ m.pc # "loaded"
    BY <1>0 DEF Locals
  <2> HIDE DEF m
  <2>5. ~InLocals(q, m)
    BY <1>0, <2>3, <2>4 DEF InLocals
  <2>6. QED  BY <2>1, <2>5, UnseenQuiet
<1>3. CASE MergeVerify(p)
  <2>1. Goto(p, "verified") /\ "verified" \in Pcs /\ UNCHANGED <<doc, object, base, imports>>
    BY <1>3 DEF MergeVerify, Pcs, registry, state, world
  <2>2. QED  BY <2>1, UnseenGoto, UnseenQuiet
<1>4. CASE MergeFreeze(p)
  <2>1. /\ doc' = SetStatus(doc, Me, "merging", TheEntry.etag, proc[p].claims)
        /\ imports' = ImportsOf(proc[p].claims) /\ Entered
        /\ proc' = [proc EXCEPT ![p] = Ended("returned")] /\ UNCHANGED <<object, base>>
    BY <1>4 DEF MergeFreeze, Return, state, Unchanged, SetStatusRefused, Entered
  <2>2. ~InClaims(q, TheEntry'.claims)
    BY <1>0, <2>1, UnseenSetStatus DEF InLocals
  <2>3. ~InInstances(q, imports')
    BY <1>0, <2>1, ImportsAre DEF InLocals, InClaims, InInstances, Creates
  <2>4. ~InObject(q, object')
    BY <2>1 DEF Seen
  <2>5. QED
    <3> DEFINE m == Ended("returned")
    <3>1. proc' = [proc EXCEPT ![p] = m] /\ ~InLocals(q, m)
      BY <2>1, UnseenEnded DEF Resting
    <3> HIDE DEF m
    <3>2. QED  BY <2>1, <2>2, <2>3, <2>4, <3>1, UnseenStep
<1>5. QED  BY <1>1, <1>2, <1>3, <1>4 DEF Merge

LEMMA UndoUnseen ==
    ASSUME Typed, NEW q \in Procs, ~Seen(q), NEW p \in Procs, Undo(p)
    PROVE  ~Seen(q)'
<1>1. CASE UndoLoad(p)
  BY <1>1, UnseenBegin DEF UndoLoad
<1>2. CASE UndoUnlink(p)
  <2>1. Goto(p, "unlinked") /\ UNCHANGED <<doc, object, base>> /\ imports' = Nil
    BY <1>2 DEF UndoUnlink, registry, state
  <2>2. PICK m : proc' = [proc EXCEPT ![p] = m] /\ ~InLocals(q, m)
    BY <2>1, UnseenGoto DEF Pcs
  <2>3. ~InObject(q, object') /\ (Entered' => ~InClaims(q, TheEntry'.claims))
    BY <2>1 DEF Seen, Entered, Registered, TheEntry
  <2>4. QED  BY <2>1, <2>2, <2>3, UnseenStep
<1>3. CASE UndoThaw(p)
  <2>1. /\ doc' = SetStatus(doc, Me, "active", TheEntry.etag, << >>) /\ Entered
        /\ proc' = [proc EXCEPT ![p] = Ended("returned")] /\ UNCHANGED <<object, base, imports>>
    BY <1>3 DEF UndoThaw, Return, state, world, SetStatusRefused, Entered
  <2>2. ~InClaims(q, TheEntry'.claims)
    BY <2>1, UnseenSetStatus, NothingIn, EmptyIsClaims
  <2>3. QED  BY <2>1, <2>2, UnseenReturn DEF Resting
<1>4. QED  BY <1>1, <1>2, <1>3 DEF Undo

LEMMA ReleaseUnseen ==
    ASSUME Typed, NEW q \in Procs, ~Seen(q), NEW p \in Procs, Release(p)
    PROVE  ~Seen(q)'
<1>1. /\ doc' = ReleaseOverlay(doc, Me) /\ UNCHANGED <<object, base, imports>>
      /\ proc' = [proc EXCEPT ![p] = Ended("returned")]
  BY DEF Release, Return, state, world
<1>2. ~Entered'
  BY <1>1, ReleaseIs DEF Entered, Registered
<1>3. QED  BY <1>1, <1>2, UnseenReturn DEF Resting

LEMMA ArchiveUnseen ==
    ASSUME Typed, NEW q \in Procs, ~Seen(q), NEW p \in Procs, NEW from, Archive(p, from),
           UNCHANGED <<doc, base, imports>>
    PROVE  ~Seen(q)'
<1>1. Goto(p, "archived") /\ object' = Nil
  BY DEF Archive
<1>2. PICK m : proc' = [proc EXCEPT ![p] = m] /\ ~InLocals(q, m)
  BY <1>1, UnseenGoto DEF Pcs
<1>3. /\ ~InObject(q, object') /\ (imports' # Nil => ~InInstances(q, imports'))
      /\ Entered' => ~InClaims(q, TheEntry'.claims)
  BY <1>1 DEF InObject, Seen, Entered, Registered, TheEntry
<1>4. QED  BY <1>2, <1>3, UnseenStep

LEMMA AbandonUnseen ==
    ASSUME Typed, NEW q \in Procs, ~Seen(q), NEW p \in Procs, Abandon(p)
    PROVE  ~Seen(q)'
<1>0. ~InLocals(q, proc[p]) /\ proc[p] \in Locals
  BY DEF Seen, Typed
<1>1. CASE AbandonLoad(p)
  BY <1>1, GateOpens, UnseenBegin DEF AbandonLoad
<1>2. CASE AbandonCheck(p)
  <2>1. PICK pc \in Pcs \ {"loaded"} :
           proc' = [proc EXCEPT ![p].object = object, ![p].pc = pc]
    <3> DEFINE bare == proc[p].entry.status = "creating" /\ object = Nil
               pc == IF bare THEN "archived"
                     ELSE IF proc[p].cmd = "abandon" THEN "checked" ELSE "destroyed"
    <3>1. pc \in Pcs \ {"loaded"}
      BY DEF Pcs
    <3>2. proc' = [proc EXCEPT ![p].object = object, ![p].pc = pc]
      BY <1>2 DEF AbandonCheck
    <3> HIDE DEF pc
    <3>3. QED  BY <3>1, <3>2
  <2> DEFINE m == [proc[p] EXCEPT !.object = object, !.pc = pc]
  <2>2. proc' = [proc EXCEPT ![p] = m] /\ UNCHANGED <<doc, object, base, imports>>
    BY <1>2, <2>1 DEF AbandonCheck, registry, state, world
  <2>3. m.claims = proc[p].claims /\ m.object = object /\ m.pc # "loaded"
    BY <1>0, <2>1 DEF Locals
  <2> HIDE DEF m
  <2>4. ~InLocals(q, m)
    BY <1>0, <2>3 DEF InLocals, Seen
  <2>5. QED  BY <2>2, <2>4, UnseenQuiet
<1>3. CASE AbandonStateRm(p)
  <2>1. Goto(p, "removed") /\ UNCHANGED <<doc, base, imports>> /\ object \in StateObject
    BY <1>3, ObjectIs DEF AbandonStateRm, registry, world
  <2>2. PICK m : proc' = [proc EXCEPT ![p] = m] /\ ~InLocals(q, m)
    BY <2>1, UnseenGoto DEF Pcs
  <2>3. ~InObject(q, object')
    BY <1>3, <2>1, BaredIs DEF Seen, InObject, InInstances, AbandonStateRm
  <2>4. /\ imports' # Nil => ~InInstances(q, imports')
        /\ Entered' => ~InClaims(q, TheEntry'.claims)
    BY <2>1 DEF Seen, Entered, Registered, TheEntry
  <2>5. QED  BY <2>1, <2>2, <2>3, <2>4, UnseenStep
<1>4. CASE AbandonPlan(p)
  <2> DEFINE m == [proc[p] EXCEPT !.pc = "planned", !.object = object]
  <2>1. proc' = [proc EXCEPT ![p] = m] /\ UNCHANGED <<doc, object, base, imports>>
    BY <1>4 DEF AbandonPlan, registry, state, world
  <2>2. m.claims = proc[p].claims /\ m.object = object /\ m.pc # "loaded"
    BY <1>0 DEF Locals
  <2> HIDE DEF m
  <2>3. ~InLocals(q, m)
    BY <1>0, <2>2 DEF InLocals, Seen
  <2>4. QED  BY <2>1, <2>3, UnseenQuiet
<1>5. CASE AbandonDestroy(p)
  <2>1. PICK some \in SUBSET DOMAIN object.own :
           /\ object' = [object EXCEPT !.serial = @ + 1, !.own = Restrict(@, DOMAIN @ \ some)]
           /\ Goto(p, "emptied") \/ proc' = [proc EXCEPT ![p] = Ended("stopped")]
    BY <1>5 DEF AbandonDestroy
  <2>2. object # Nil /\ object \in StateObject /\ UNCHANGED <<doc, base, imports>>
    BY <1>5, ObjectIs DEF AbandonDestroy, registry
  <2>3. ~InObject(q, object')
    <3>1. object'.own = Restrict(object.own, DOMAIN object.own \ some)
      BY <2>1, <2>2, AbandonDestroyIs
    <3>2. QED  BY <2>2, <3>1, NotInRestricted DEF Seen, InObject
  <2>4. PICK m : proc' = [proc EXCEPT ![p] = m] /\ ~InLocals(q, m)
    <3>1. CASE Goto(p, "emptied")
      BY <3>1, UnseenGoto DEF Pcs
    <3>2. CASE proc' = [proc EXCEPT ![p] = Ended("stopped")]
      BY <3>2, UnseenEnded DEF Resting
    <3>3. QED  BY <2>1, <3>1, <3>2
  <2>5. /\ imports' # Nil => ~InInstances(q, imports')
        /\ Entered' => ~InClaims(q, TheEntry'.claims)
    BY <2>2 DEF Seen, Entered, Registered, TheEntry
  <2>6. QED  BY <2>2, <2>3, <2>4, <2>5, UnseenStep
<1>6. CASE AbandonVerify(p)
  <2>1. Goto(p, "destroyed") /\ "destroyed" \in Pcs /\ UNCHANGED <<doc, object, base, imports>>
    BY <1>6 DEF AbandonVerify, Pcs, registry, state, world
  <2>2. QED  BY <2>1, UnseenGoto, UnseenQuiet
<1>7. CASE AbandonArchive(p)
  BY <1>7, ArchiveUnseen DEF AbandonArchive, registry
<1>8. CASE AbandonRelease(p)
  BY <1>8, ReleaseUnseen DEF AbandonRelease
<1>9. QED
  BY <1>1, <1>2, <1>3, <1>4, <1>5, <1>6, <1>7, <1>8 DEF Abandon

LEMMA FinalizeUnseen ==
    ASSUME Typed, NEW q \in Procs, ~Seen(q), NEW p \in Procs, Finalize(p)
    PROVE  ~Seen(q)'
<1>1. CASE FinalizeLoad(p)
  BY <1>1, GateOpens, UnseenBegin DEF FinalizeLoad
<1>2. CASE FinalizeCheck(p)
  <2>1. Goto(p, "checked") /\ "checked" \in Pcs /\ UNCHANGED <<doc, object, base, imports>>
    BY <1>2 DEF FinalizeCheck, Pcs, registry, state, world
  <2>2. QED  BY <2>1, UnseenGoto, UnseenQuiet
<1>3. CASE FinalizeArchive(p)
  BY <1>3, ArchiveUnseen DEF FinalizeArchive, registry, world
<1>4. CASE FinalizeRelease(p)
  BY <1>4, ReleaseUnseen DEF FinalizeRelease
<1>5. QED  BY <1>1, <1>2, <1>3, <1>4 DEF Finalize

\* The base gets the ids of the imports file, and none else.
LEMMA AroundUnseen ==
    ASSUME Typed, NEW q, ~Seen(q), TrunkMoves \/ TrunkAdopts \/ Timeout
    PROVE  ~Seen(q)'
<1>1. UNCHANGED <<doc, object, imports, proc>>
  BY DEF TrunkMoves, TrunkAdopts, Timeout, registry, state, world
<1>2. ~InInstances(q, base'.own)
  <2>1. CASE TrunkMoves \/ Timeout
    BY <2>1 DEF TrunkMoves, Timeout, world, Seen, Typed, StateTyped, BaseState
  <2>2. CASE TrunkAdopts
    <3> DEFINE all == DOMAIN imports \cup DOMAIN base.own
    <3>1. base'.own = [a \in all |-> IF a \in DOMAIN base.own THEN base.own[a] ELSE imports[a]]
      BY <2>2 DEF TrunkAdopts
    <3>2. ~InInstances(q, base.own) /\ ~InInstances(q, imports)
      BY <2>2 DEF TrunkAdopts, Seen
    <3>3. QED  BY <3>1, <3>2 DEF InInstances
  <2>3. QED  BY <2>1, <2>2
<1>3. UNCHANGED <<Entered, TheEntry>>
  BY <1>1 DEF Entered, Registered, TheEntry
<1>4. QED  BY <1>1, <1>2, <1>3 DEF Seen, InObject

\* Who has written has done so for good.
LEMMA OnlyItself ==
    ASSUME Typed, NEW p \in Procs,
           \/ Create(p) \/ Apply(p) \/ Rebase(p) \/ Merge(p) \/ Undo(p)
           \/ Abandon(p) \/ Finalize(p) \/ Stop(p)
    PROVE  \A q \in Procs \ {p} : proc'[q] = proc[q]
<1> USE DEF Typed, BeginLoaded, Begin, Goto, Return
<1>1. CASE Create(p)
  BY <1>1 DEF Create, CreateLoad, CreateRegister, CreatePull, CreatePush, CreateReadBack, CreateFlip
<1>2. CASE Apply(p)
  BY <1>2 DEF Apply, ApplyLoad, ApplyPlan, ApplyNothing, ApplyAcquire, ApplyStart, ApplyFails,
              ApplyWrite, ApplyPull, ApplyFinish
<1>3. CASE Rebase(p)
  BY <1>3 DEF Rebase, RebaseLoad, RebaseRead, RebasePull, RebasePush, RebaseRecord
<1>4. CASE Merge(p) \/ Undo(p)
  BY <1>4 DEF Merge, MergeLoad, MergeRead, MergeVerify, MergeFreeze, Undo, UndoLoad, UndoUnlink,
              UndoThaw
<1>5. CASE Abandon(p)
  BY <1>5 DEF Abandon, AbandonLoad, AbandonCheck, AbandonStateRm, AbandonPlan, AbandonDestroy,
              AbandonVerify, AbandonArchive, AbandonRelease, Archive, Release
<1>6. CASE Finalize(p) \/ Stop(p)
  BY <1>6 DEF Finalize, FinalizeLoad, FinalizeCheck, FinalizeArchive, FinalizeRelease, Archive,
              Release, Stop
<1>7. QED  BY <1>1, <1>2, <1>3, <1>4, <1>5, <1>6

LEMMA AfterWriting ==
    ASSUME Typed, NEW p \in Procs, HasWritten(p),
           \/ Create(p) \/ Apply(p) \/ Rebase(p) \/ Merge(p) \/ Undo(p)
           \/ Abandon(p) \/ Finalize(p) \/ Stop(p)
    PROVE  ApplyPull(p) \/ ApplyFinish(p) \/ Stop(p)
<1> USE DEF HasWritten, BeginLoaded, Begin, At
<1>1. CASE Create(p)
  BY <1>1 DEF Create, CreateLoad, CreateRegister, CreatePull, CreatePush, CreateReadBack, CreateFlip
<1>2. CASE Apply(p)
  BY <1>2 DEF Apply, ApplyLoad, ApplyPlan, ApplyNothing, ApplyAcquire, ApplyStart, ApplyFails,
              ApplyWrite
<1>3. CASE Rebase(p)
  BY <1>3 DEF Rebase, RebaseLoad, RebaseRead, RebasePull, RebasePush, RebaseRecord
<1>4. CASE Merge(p) \/ Undo(p)
  BY <1>4 DEF Merge, MergeLoad, MergeRead, MergeVerify, MergeFreeze, Undo, UndoLoad, UndoUnlink,
              UndoThaw
<1>5. CASE Abandon(p)
  BY <1>5 DEF Abandon, AbandonLoad, AbandonCheck, AbandonStateRm, AbandonPlan, AbandonDestroy,
              AbandonVerify, AbandonArchive, AbandonRelease, Abandons, Archive, Release
<1>6. CASE Finalize(p)
  BY <1>6 DEF Finalize, FinalizeLoad, FinalizeCheck, FinalizeArchive, FinalizeRelease, Archive,
              Release
<1>7. QED  BY <1>1, <1>2, <1>3, <1>4, <1>5, <1>6

LEMMA WrittenStays ==
    ASSUME Typed, NEW q \in Procs, HasWritten(q), [Next]_vars
    PROVE  HasWritten(q)'
<1>1. CASE proc' = proc
  BY <1>1 DEF HasWritten
<1>2. CASE \E p \in Procs : \/ Create(p) \/ Apply(p) \/ Rebase(p) \/ Merge(p) \/ Undo(p)
                            \/ Abandon(p) \/ Finalize(p) \/ Stop(p)
  <2>1. PICK p \in Procs : \/ Create(p) \/ Apply(p) \/ Rebase(p) \/ Merge(p) \/ Undo(p)
                           \/ Abandon(p) \/ Finalize(p) \/ Stop(p)
    BY <1>2
  <2>2. CASE p # q
    <3>1. proc'[q] = proc[q]
      BY <2>1, <2>2, OnlyItself
    <3>2. QED  BY <3>1 DEF HasWritten
  <2>3. CASE p = q
    <3>1. ApplyPull(q) \/ ApplyFinish(q) \/ Stop(q)
      BY <2>1, <2>3, AfterWriting
    <3>2. CASE ApplyPull(q)
      <4>1. proc'[q].cmd = "apply" /\ proc'[q].pc = "refreshed"
        BY <3>2 DEF ApplyPull, At, Typed, Locals
      <4>2. QED  BY <4>1 DEF HasWritten
    <3>3. CASE ApplyFinish(q) \/ Stop(q)
      <4>1. PICK pc \in {"returned", "stopped"} : proc' = [proc EXCEPT ![q] = Ended(pc)]
        BY <3>3 DEF ApplyFinish, Stop
      <4>2. Ended(pc).pc = pc
        BY EndedIs DEF Pcs, Resting
      <4>3. proc'[q].pc = pc
        BY <4>1, <4>2 DEF Typed
      <4>4. QED  BY <4>3 DEF HasWritten
    <3>4. QED  BY <3>1, <3>2, <3>3
  <2>4. QED  BY <2>2, <2>3
<1>3. CASE UNCHANGED vars \/ TrunkMoves \/ TrunkAdopts \/ Timeout
  BY <1>1, <1>3 DEF vars, TrunkMoves, TrunkAdopts, Timeout
<1>4. QED  BY <1>2, <1>3 DEF Next

LEMMA NextNumbered ==
    ASSUME Typed, Numbered, [Next]_vars
    PROVE  Numbered'
<1> SUFFICES ASSUME NEW q \in Procs, ~HasWritten(q)'  PROVE ~Seen(q)'
  BY DEF Numbered
<1>1. ~HasWritten(q)
  BY WrittenStays
<1>2. ~Seen(q)
  BY <1>1 DEF Numbered
<1>3. CASE UNCHANGED vars
  <2>1. UNCHANGED <<doc, object, base, imports, proc>>
    BY <1>3 DEF vars, registry, state, world
  <2>2. QED  BY <1>2, <2>1 DEF Seen, InObject, Entered, Registered, TheEntry
<1>4. CASE TrunkMoves \/ TrunkAdopts \/ Timeout
  BY <1>2, <1>4, AroundUnseen
<1>5. ASSUME NEW p \in Procs, Stop(p)  PROVE ~Seen(q)'
  <2>1. UNCHANGED <<doc, object, base, imports>> /\ proc' = [proc EXCEPT ![p] = Ended("stopped")]
    BY <1>5 DEF Stop, registry, world
  <2>2. Entered' => ~InClaims(q, TheEntry'.claims)
    BY <1>2, <2>1 DEF Seen, Entered, Registered, TheEntry
  <2>3. QED  BY <1>2, <2>1, <2>2, UnseenReturn DEF Resting
<1>6. ASSUME NEW p \in Procs, Apply(p)  PROVE ~Seen(q)'
  <2>1. ASSUME ApplyWrite(p), q = p  PROVE FALSE
    <3>1. PICK ok : proc' = [proc EXCEPT ![p].pc = "applied", ![p].ok = ok]
      BY <2>1 DEF ApplyWrite
    <3>2. proc'[p].cmd = "apply" /\ proc'[p].pc = "applied"
      BY <2>1, <3>1 DEF ApplyWrite, At, Typed, Locals
    <3>3. QED  BY <2>1, <3>2 DEF HasWritten
  <2>2. QED  BY <1>2, <1>6, <2>1, ApplyUnseen
<1>7. CASE \E p \in Procs : \/ Create(p) \/ Rebase(p) \/ Merge(p) \/ Undo(p)
                            \/ Abandon(p) \/ Finalize(p)
  BY <1>2, <1>7, CreateUnseen, RebaseUnseen, MergeUnseen, UndoUnseen, AbandonUnseen, FinalizeUnseen
<1>8. QED  BY <1>3, <1>4, <1>5, <1>6, <1>7 DEF Next

LEMMA InitNumbered == Init => Numbered
<1> SUFFICES ASSUME Init, NEW q  PROVE ~Seen(q)
  BY DEF Numbered
<1>1. ~Entered /\ object = Nil /\ imports = Nil /\ base.own = << >>
  BY DEF Init, EmptyDoc, Entered, Registered
<1>2. ASSUME NEW p \in Procs  PROVE ~InLocals(q, proc[p])
  <2>1. /\ proc[p].claims = << >> /\ proc[p].object = Nil /\ proc[p].pc # "loaded"
    BY DEF Init, Idle
  <2>2. QED  BY <2>1, NothingIn DEF InLocals, InObject
<1>3. QED  BY <1>1, <1>2, NothingIn DEF Seen, InObject

------------------------------------------------------------------------------
(***************************************************************************)
(* What the trunk has adopted.  Shared: the overlay state holds an object  *)
(* that the base has adopted.  Announced: it holds one that the imports    *)
(* file names, which the trunk may adopt at any time.  Settled: an overlay *)
(* that is not frozen holds nothing that is announced, and one that holds  *)
(* something shared is out of date, so that the freshness check keeps      *)
(* apply from it.  Spares: what the command under way has made sure of.    *)
(***************************************************************************)

Shared == object # Nil /\ ObjectsOf(object.own) \cap ObjectsOf(base.own) # {}

Announced ==
    object # Nil /\ imports # Nil /\ ObjectsOf(object.own) \cap ObjectsOf(imports) # {}

Settled ==
    /\ Announced => Status = "merging"
    /\ Shared => Status # "creating" /\ TheEntry.etag < base.version

Spares(p) ==
    LET me == proc[p]
    IN  /\ me.cmd \in {"apply", "rebase", "abandon"} => Status # "merging"
        /\ (me.cmd = "apply" /\ me.pc \in {"planned", "acquired", "applying"}) => ~Shared
        /\ (me.cmd = "rebase" /\ me.pc \in {"pulled", "pushed"}) => ~Shared
        /\ (me.cmd = "abandon" /\ me.pc \in {"checked", "removed", "planned"}) => ~Shared
        /\ (me.cmd = "undo" /\ me.pc = "unlinked") => imports = Nil

Sparing == Settled /\ \A p \in Running : Spares(p)

\* The objects of a part of the instances, and of an empty state.
LEMMA FewerObjects ==
    ASSUME NEW f, NEW g, DOMAIN g \subseteq DOMAIN f, \A a \in DOMAIN g : g[a] = f[a]
    PROVE  ObjectsOf(g) \subseteq ObjectsOf(f)
BY DEF ObjectsOf

LEMMA NothingShared ==
    ASSUME object # Nil => DOMAIN object.own = {}
    PROVE  ~Shared /\ ~Announced
BY OwnsNothing DEF Shared, Announced

\* Addresses apart, objects apart.
LEMMA SharedAddress ==
    ASSUME Shared
    PROVE  object # Nil /\ DOMAIN object.own \cap DOMAIN base.own # {}
BY DEF Shared, ObjectsOf

LEMMA Unclaimed ==
    ASSUME Consistent, Entered, Creates(TheEntry.claims) \cap DOMAIN base.own = {}
    PROVE  ~Shared
<1>1. object # Nil => DOMAIN object.own \subseteq Creates(TheEntry.claims)
  BY AllCreateIs DEF Consistent
<1>2. QED  BY <1>1, SharedAddress

LEMMA SettledUnmoved ==
    ASSUME UNCHANGED <<doc, object, base, imports>>
    PROVE  /\ Shared' = Shared /\ Status' = Status
           /\ Settled => Settled'
BY DEF Settled, Shared, Announced, Status, TheEntry

\* What the registry and the overlay state may become without harm.
LEMMA SettledKept ==
    ASSUME Settled, base' = base, imports' = imports \/ imports' = Nil,
           object' # Nil => object # Nil /\ ObjectsOf(object'.own) \subseteq ObjectsOf(object.own),
           object' # Nil => /\ TheEntry'.etag = TheEntry.etag
                            /\ Status' = "creating" => Status = "creating"
                            /\ imports' # Nil /\ Status = "merging" => Status' = "merging"
    PROVE  Settled' /\ (Shared' => Shared)
<1>1. Shared' => Shared
  BY DEF Shared
<1>2. Announced' => Announced
  BY DEF Announced
<1>3. QED  BY <1>1, <1>2 DEF Settled, Shared, Announced

LEMMA SparingStep ==
    ASSUME Typed, Sequential, NEW p \in Procs, NEW m, proc' = [proc EXCEPT ![p] = m],
           p \in Running \/ Running = {}, Settled', proc'[p] = m => Spares(p)'
    PROVE  Sparing'
<1>1. Running' \subseteq {p} /\ proc'[p] = m
  BY StepAlone DEF Sequential
<1>2. QED  BY <1>1 DEF Sparing

LEMMA SparingReturn ==
    ASSUME Typed, Sequential, NEW p \in Running, NEW pc \in Resting,
           proc' = [proc EXCEPT ![p] = Ended(pc)], Settled'
    PROVE  Sparing'
<1>1. Running' = {}
  BY ReturnAlone DEF Sequential
<1>2. QED  BY <1>1 DEF Sparing

\* A command that begins, on an entry that is not frozen if it is to write.
LEMMA SparingBegin ==
    ASSUME Concurrent = 1, Typed, Sequential, Sparing, NEW p \in Procs, NEW cmd,
           BeginLoaded(p, cmd, "loaded"), UNCHANGED <<registry, state, world>>,
           cmd \in {"apply", "rebase", "abandon"} => Status # "merging"
    PROVE  Sparing'
<1>1. Running' \subseteq {p} /\ proc'[p].cmd = cmd /\ proc'[p].pc = "loaded"
  BY BeginAlone
<1>2. Settled' /\ Status' = Status
  BY SettledUnmoved DEF Sparing, registry, state, world
<1>3. QED  BY <1>1, <1>2 DEF Sparing, Spares

LEMMA SparingOther ==
    ASSUME Typed, Sequential, NEW p \in Running, Settled', Spares(p)',
           \A q \in Procs \ {p} : proc'[q] = proc[q]
    PROVE  Sparing'
<1>1. Running' \subseteq {p}
  BY DEF Sequential, Alone, Running
<1>2. QED  BY <1>1 DEF Sparing

LEMMA NotMerging == ASSUME NEW S, Gate(S), "merging" \notin S  PROVE Entered /\ Status # "merging"
BY DEF Gate, EffectiveStatus, StaleApplying, Status

LEMMA CreateSparing ==
    ASSUME Concurrent = 1, Typed, Sequential, Sparing, NEW p \in Procs, Create(p)
    PROVE  Sparing'
<1>0. Settled /\ Consistent
  BY DEF Sparing, Sequential
<1>1. CASE CreateLoad(p)
  <2> DEFINE m == [Idle EXCEPT !.cmd = "create", !.pc = "loaded", !.etag = base.version,
                               !.entry = IF Entered THEN TheEntry ELSE Nil]
  <2>1. proc' = [proc EXCEPT ![p] = m] /\ Cardinality(Running) < Concurrent
    BY <1>1 DEF CreateLoad, Begin
  <2>2. m.cmd = "create"
    BY DEF Idle
  <2> HIDE DEF m
  <2>3. Running = {}
    BY <2>1, NobodyRuns DEF Sequential
  <2>4. Settled'
    BY <1>0, <1>1, SettledUnmoved DEF CreateLoad, registry, state, world
  <2>5. proc'[p] = m => Spares(p)'
    BY <2>2 DEF Spares
  <2>6. QED  BY <2>1, <2>3, <2>4, <2>5, SparingStep
<1> SUFFICES ASSUME ~CreateLoad(p)  PROVE Sparing'
  BY <1>1
<1>2. p \in Running /\ CreateFits(p) /\ proc[p].cmd = "create" /\ proc[p] \in Locals
  <2>1. PICK pc \in {"loaded", "registered", "pulled", "pushed", "read back"} : At(p, "create", pc)
    BY DEF Create, CreateRegister, CreatePull, CreatePush, CreateReadBack, CreateFlip
  <2>2. QED  BY <2>1, ItFits DEF CommandFits, Pcs, Resting
<1>3. object # Nil => DOMAIN object.own = {} /\ Entered
  BY <1>0, <1>2 DEF Consistent, ObjectsAreRegistered, CreateFits
<1>4. \A q \in Procs \ {p} : proc'[q] = proc[q]
  BY OnlyItself
<1>5. ~Shared' /\ ~Announced'
  <2>1. CASE CreatePush(p)
    <3>1. DOMAIN Forked(p, proc[p].base).own = {}
      BY NothingIsInstances DEF Forked
    <3>2. object' = object \/ object' = Forked(p, proc[p].base)
      BY <2>1 DEF CreatePush
    <3>3. object' # Nil => DOMAIN object'.own = {}
      BY <1>3, <3>1, <3>2
    <3>4. QED  BY <3>3, OwnsNothing DEF Shared, Announced
  <2>2. CASE ~CreatePush(p)
    <3>1. object' = object
      BY <2>2 DEF Create, CreateRegister, CreatePull, CreateReadBack, CreateFlip, state
    <3>2. QED  BY <1>3, <3>1, OwnsNothing DEF Shared, Announced
  <2>3. QED  BY <2>1, <2>2
<1>6. Settled'
  BY <1>5 DEF Settled
<1>7. CASE CreateFlip(p)
  BY <1>2, <1>6, <1>7, SparingReturn DEF CreateFlip, Return, Resting
<1>8. CASE ~CreateFlip(p)
  <2>1. proc'[p].cmd = "create"
    <3>1. CASE CreateRegister(p)
      BY <1>2, <3>1 DEF CreateRegister, Typed, Locals
    <3>2. CASE CreatePull(p)
      BY <1>2, <3>2 DEF CreatePull, Typed, Locals
    <3>3. CASE CreatePush(p)
      <4>1. Goto(p, "read back") \/ Goto(p, "pushed")
        BY <3>3 DEF CreatePush
      <4>2. QED  BY <1>2, <4>1 DEF Goto, Typed, Locals
    <3>4. CASE CreateReadBack(p)
      BY <1>2, <3>4 DEF CreateReadBack, Typed, Locals
    <3>5. QED  BY <1>8, <3>1, <3>2, <3>3, <3>4 DEF Create
  <2>2. QED  BY <1>2, <1>4, <1>6, <2>1, SparingOther DEF Spares
<1>9. QED  BY <1>7, <1>8

\* The freshness check keeps apply from what the trunk has adopted.
LEMMA ApplyPlanSparing ==
    ASSUME ~AllowStale, Typed, Sequential, Sparing, NEW p \in Procs, ApplyPlan(p)
    PROVE  Sparing'
<1>1. p \in Running /\ Settled /\ proc[p].cmd = "apply" /\ proc[p] \in Locals /\ Spares(p)
  <2>1. p \in Running /\ proc[p].cmd = "apply" /\ proc[p] \in Locals
    BY ItFits DEF ApplyPlan, Pcs, Resting
  <2>2. QED  BY <2>1 DEF Sparing
<1>2. ~Shared
  <2>1. TheEntry.etag = base.version
    BY DEF ApplyPlan
  <2>2. base.version \in Int
    BY Versions
  <2>3. QED  BY <1>1, <2>1, <2>2 DEF Settled
<1>3. Settled' /\ ~Shared' /\ Status' = Status
  BY <1>1, <1>2, SettledUnmoved DEF ApplyPlan, registry, state, world
<1>4. proc'[p].cmd = "apply"
  <2>1. PICK want \in SUBSET Addresses, replaced \in SUBSET DOMAIN object.own :
           LET created == (want \ DOMAIN object.own) \cup replaced
               deleted == DOMAIN object.own \ want
           IN  proc' = [proc EXCEPT
                  ![p].pc = "planned", ![p].object = object,
                  ![p].want = want, ![p].replaced = replaced,
                  ![p].claims = PlannedClaims(TheEntry, created, deleted)]
    BY DEF ApplyPlan
  <2>2. QED  BY <1>1, <2>1 DEF Typed, Locals
<1>5. Spares(p)'
  BY <1>1, <1>3, <1>4 DEF Spares
<1>6. \A q \in Procs \ {p} : proc'[q] = proc[q]
  BY OnlyItself DEF Apply
<1>7. QED  BY <1>1, <1>3, <1>5, <1>6, SparingOther

\* What an apply creates is neither announced nor adopted.
LEMMA ApplyWriteSparing ==
    ASSUME Typed, Sequential, Numbered, Sparing, NEW p \in Procs, ApplyWrite(p)
    PROVE  Sparing'
<1> DEFINE me == proc[p]
           own == me.object.own
<1>1. /\ p \in Running /\ ApplyFits(p) /\ Consistent /\ Settled /\ Spares(p)
      /\ me \in Locals /\ LocalsFit(me) /\ me.cmd = "apply" /\ me.pc = "applying"
  <2>1. /\ p \in Running /\ ApplyFits(p) /\ Consistent
        /\ me \in Locals /\ LocalsFit(me) /\ me.cmd = "apply" /\ me.pc = "applying"
    BY ItFits, UnderWay DEF ApplyWrite, CommandFits, Pcs, Resting
  <2>2. QED  BY <2>1 DEF Sparing
<1>2. /\ me.object \in StateObject /\ me.want \in SUBSET Addresses /\ own \in Instances
      /\ object = me.object /\ object # Nil
  <2>1. me.object \in StateObject /\ object = me.object
    BY <1>1 DEF LocalsFit, ApplyFits
  <2>2. QED  BY <1>1, <2>1, ObjectAssumption DEF Locals, StateObject
<1>3. Changes(p) \subseteq Addresses
  BY <1>1, <1>2, InstancesAre DEF Changes, Locals
<1>4. PICK some \in SUBSET Changes(p) :
         /\ object' = [me.object EXCEPT !.own = After(p, some), !.serial = @ + 1]
         /\ proc' = [proc EXCEPT ![p].pc = "applied", ![p].ok = (some = Changes(p))]
  BY DEF ApplyWrite
<1> DEFINE after == After(p, some)
<1>5. /\ after \in Instances /\ DOMAIN after = (DOMAIN own \ some) \cup (some \cap me.want)
      /\ \A a \in DOMAIN after : after[a] = IF a \in some THEN p ELSE own[a]
  <2>1. some \in SUBSET Addresses
    BY <1>3
  <2>2. proc[p].object.own \in Instances /\ proc[p].want \in SUBSET Addresses
    BY <1>2
  <2>3. QED  BY <2>1, <2>2, AfterIs, ZenonT(40)
<1>6. object'.own = after
  <2>1. object' = [me.object EXCEPT !.own = after, !.serial = @ + 1]
    BY <1>4
  <2>2. me.object \in StateObject /\ after \in Instances
    BY <1>2, <1>5
  <2> HIDE DEF after, me
  <2>3. QED  BY <2>1, <2>2, WrittenIs
<1> HIDE DEF after
<1>7. ASSUME NEW k \in ObjectsOf(after)
      PROVE  k \in ObjectsOf(own) \/ k[2] = p
  <2>1. PICK a \in DOMAIN after : k = <<a, after[a]>>
    BY DEF ObjectsOf
  <2>2. CASE a \in some
    BY <1>5, <2>1, <2>2
  <2>3. CASE a \notin some
    <3>1. a \in DOMAIN own /\ k = <<a, own[a]>>
      BY <1>5, <2>1, <2>3
    <3>2. QED  BY <3>1 DEF ObjectsOf
  <2>4. QED  BY <2>2, <2>3
<1>8. ~InInstances(p, base.own) /\ (imports # Nil => ~InInstances(p, imports))
  BY <1>1 DEF Numbered, HasWritten, Seen
<1>9. ASSUME NEW f, ~InInstances(p, f), ObjectsOf(own) \cap ObjectsOf(f) = {}
      PROVE  ObjectsOf(after) \cap ObjectsOf(f) = {}
  <2>1. \A k \in ObjectsOf(f) : k[2] # p
    BY <1>9 DEF ObjectsOf, InInstances
  <2>2. QED  BY <1>7, <1>9, <2>1
<1>10. UNCHANGED <<doc, base, imports>>
  BY DEF ApplyWrite, registry
<1>11. ~Shared'
  <2>1. ObjectsOf(own) \cap ObjectsOf(base.own) = {}
    BY <1>1, <1>2 DEF Spares, Shared
  <2>2. QED  BY <1>6, <1>8, <1>9, <1>10, <2>1 DEF Shared
<1>12. ~Announced'
  <2>1. imports # Nil => ObjectsOf(own) \cap ObjectsOf(imports) = {}
    BY <1>1, <1>2 DEF Spares, Settled, Announced
  <2>2. QED  BY <1>6, <1>8, <1>9, <1>10, <2>1 DEF Announced
<1>13. Settled' /\ Status' = Status
  BY <1>10, <1>11, <1>12 DEF Settled, Status, TheEntry
<1>14. proc'[p].cmd = "apply"
  BY <1>1, <1>4 DEF Typed, Locals
<1>15. Spares(p)'
  BY <1>1, <1>11, <1>13, <1>14 DEF Spares
<1>16. \A q \in Procs \ {p} : proc'[q] = proc[q]
  BY OnlyItself DEF Apply
<1>17. QED  BY <1>1, <1>13, <1>15, <1>16, SparingOther

LEMMA ApplySparing ==
    ASSUME Concurrent = 1, ~AllowStale, Typed, Sequential, Numbered, Sparing, NEW p \in Procs,
           Apply(p)
    PROVE  Sparing'
<1>1. CASE ApplyLoad(p)
  <2>1. Status # "merging"
    BY <1>1, NotMerging DEF ApplyLoad
  <2>2. QED  BY <1>1, <2>1, SparingBegin DEF ApplyLoad
<1>2. CASE ApplyPlan(p)
  BY <1>2, ApplyPlanSparing
<1>3. CASE ApplyWrite(p)
  BY <1>3, ApplyWriteSparing
<1> SUFFICES ASSUME ~ApplyLoad(p), ~ApplyPlan(p), ~ApplyWrite(p)  PROVE Sparing'
  BY <1>1, <1>2, <1>3
<1>4. /\ p \in Running /\ Entered /\ Settled /\ Spares(p)
      /\ proc[p].cmd = "apply" /\ proc[p] \in Locals /\ proc[p].claims \in ClaimMap
  <2>1. PICK pc \in {"planned", "acquired", "applied", "refreshed"} : At(p, "apply", pc)
    BY DEF Apply, ApplyNothing, ApplyAcquire, ApplyStart, ApplyFails, ApplyPull, ApplyFinish
  <2>2. QED  BY <2>1, ItFits DEF CommandFits, ApplyFits, Sparing, Locals, Pcs, Resting
<1>5. \A q \in Procs \ {p} : proc'[q] = proc[q]
  BY OnlyItself
<1>6. Status # "merging" /\ Me \in DOMAIN doc.overlays /\ IsDocument(doc)
  BY <1>4 DEF Spares, Entered, Registered, Typed
<1>7. CASE ApplyNothing(p)
  <2>1. Settled'
    BY <1>4, <1>7, SettledUnmoved DEF ApplyNothing, registry, state, world
  <2>2. QED  BY <1>4, <1>7, <2>1, SparingReturn DEF ApplyNothing, Return, Resting
<1>8. CASE ApplyAcquire(p)
  <2>1. doc' = AcquireClaims(doc, Me, proc[p].claims, p) /\ UNCHANGED <<object, base, imports>>
    BY <1>8 DEF ApplyAcquire, state, world
  <2>2. Status' = "applying" /\ TheEntry'.etag = TheEntry.etag
    BY <1>4, <1>6, <2>1, AcquiredEntry DEF TheEntry, Status
  <2>3. Settled' /\ (Shared' => Shared)
    BY <1>4, <1>6, <2>1, <2>2, SettledKept
  <2>4. proc'[p].cmd = "apply" /\ At(p, "apply", "planned")
    BY <1>4, <1>8 DEF ApplyAcquire, Typed, Locals
  <2>5. Spares(p)'
    BY <1>4, <2>2, <2>3, <2>4 DEF Spares, At
  <2>6. QED  BY <1>4, <1>5, <2>3, <2>5, SparingOther
<1>9. CASE ApplyStart(p) \/ ApplyFails(p)
  <2>1. Settled' /\ Shared' = Shared /\ Status' = Status
    BY <1>4, <1>9, SettledUnmoved DEF ApplyStart, ApplyFails, registry, state, world
  <2>2. Goto(p, "applying") \/ Goto(p, "applied")
    BY <1>9 DEF ApplyStart, ApplyFails
  <2>3. proc'[p].cmd = "apply" /\ proc[p].pc = "acquired"
    BY <1>4, <1>9, <2>2 DEF ApplyStart, ApplyFails, At, Goto, Typed, Locals
  <2>4. Spares(p)'
    BY <1>4, <2>1, <2>3 DEF Spares
  <2>5. QED  BY <1>4, <1>5, <2>1, <2>4, SparingOther
<1>10. CASE ApplyPull(p)
  <2>1. Settled' /\ Status' = Status
    BY <1>4, <1>10, SettledUnmoved DEF ApplyPull, registry, state, world
  <2>2. proc'[p].cmd = "apply" /\ proc'[p].pc = "refreshed"
    BY <1>4, <1>10 DEF ApplyPull, Typed, Locals
  <2>3. Spares(p)'
    BY <1>6, <2>1, <2>2 DEF Spares
  <2>4. QED  BY <1>4, <1>5, <2>1, <2>3, SparingOther
<1>11. CASE ApplyFinish(p)
  <2>1. /\ doc' = FinishApply(doc, Me, proc[p].ok, proc[p].claims, proc[p].released)
        /\ UNCHANGED <<object, base, imports>> /\ proc[p].ok \in BOOLEAN
    BY <1>4, <1>11 DEF ApplyFinish, state, world, Locals
  <2>2. Status' # "creating" /\ Status' # "merging" /\ TheEntry'.etag = TheEntry.etag
    BY <1>6, <2>1, FinishedEntry DEF TheEntry, Status
  <2>3. Settled'
    BY <1>4, <1>6, <2>1, <2>2, SettledKept
  <2>4. PICK pc \in Resting : proc' = [proc EXCEPT ![p] = Ended(pc)]
    BY <1>11 DEF ApplyFinish, Resting
  <2>5. QED  BY <1>4, <2>3, <2>4, SparingReturn
<1>12. QED  BY <1>7, <1>8, <1>9, <1>10, <1>11 DEF Apply

\* No rebase of an overlay whose claims the base has got.
LEMMA RebaseSparing ==
    ASSUME Concurrent = 1, Typed, Sequential, Sparing, NEW p \in Procs, Rebase(p)
    PROVE  Sparing'
<1>1. CASE RebaseLoad(p)
  <2>1. Status # "merging"
    BY <1>1, NotMerging DEF RebaseLoad
  <2>2. QED  BY <1>1, <2>1, SparingBegin DEF RebaseLoad
<1> SUFFICES ASSUME ~RebaseLoad(p)  PROVE Sparing'
  BY <1>1
<1>2. /\ p \in Running /\ RebaseFits(p) /\ Consistent /\ Settled /\ Spares(p)
      /\ proc[p].cmd = "rebase" /\ proc[p] \in Locals /\ LocalsFit(proc[p])
  <2>1. PICK pc \in {"loaded", "read", "pulled", "pushed"} : At(p, "rebase", pc)
    BY DEF Rebase, RebaseRead, RebasePull, RebasePush, RebaseRecord
  <2>2. QED  BY <2>1, ItFits, UnderWay DEF CommandFits, Sparing, Pcs, Resting
<1>3. \A q \in Procs \ {p} : proc'[q] = proc[q]
  BY OnlyItself
<1>4. CASE RebaseRead(p)
  <2>1. Settled' /\ Status' = Status
    BY <1>2, <1>4, SettledUnmoved DEF RebaseRead, registry, state, world
  <2>2. proc'[p].cmd = "rebase" /\ proc'[p].pc = "read"
    BY <1>2, <1>4 DEF RebaseRead, Typed, Locals
  <2>3. Spares(p)'
    BY <1>2, <2>1, <2>2 DEF Spares
  <2>4. QED  BY <1>2, <1>3, <2>1, <2>3, SparingOther
<1>5. CASE RebasePull(p)
  <2>1. ~Shared
    BY <1>2, <1>5, Unclaimed DEF RebasePull, RebaseFits
  <2>2. Settled' /\ Status' = Status /\ ~Shared'
    BY <1>2, <1>5, <2>1, SettledUnmoved DEF RebasePull, registry, state, world
  <2>3. proc'[p].cmd = "rebase" /\ proc'[p].pc = "pulled"
    BY <1>2, <1>5 DEF RebasePull, Typed, Locals
  <2>4. Spares(p)'
    BY <1>2, <2>2, <2>3 DEF Spares
  <2>5. QED  BY <1>2, <1>3, <2>2, <2>4, SparingOther
<1>6. CASE RebasePush(p)
  <2>1. /\ object' = Rebuilt(p) /\ UNCHANGED <<doc, base, imports>> /\ object # Nil
        /\ proc[p].pc = "pulled"
    BY <1>6 DEF RebasePush, Pushable, registry, world, At
  <2>2. object = proc[p].object /\ object.own \in Instances
    BY <1>2, <2>1, ObjectIs DEF RebaseFits
  <2> DEFINE carried == DOMAIN object.own \cap Creates(proc[p].entry.claims)
  <2>3. object'.own = Restrict(object.own, carried)
    BY <2>1, <2>2 DEF Rebuilt
  <2>4. ObjectsOf(object'.own) \subseteq ObjectsOf(object.own)
    <3>1. carried \in SUBSET DOMAIN object.own
      OBVIOUS
    <3> HIDE DEF carried
    <3>2. QED  BY <2>2, <2>3, <3>1, RestrictedIs, FewerObjects
  <2>5. UNCHANGED <<TheEntry, Status>>
    BY <2>1 DEF TheEntry, Status
  <2>6. Settled' /\ (Shared' => Shared)
    BY <1>2, <2>1, <2>4, <2>5, SettledKept
  <2>7. proc'[p].cmd = "rebase"
    BY <1>2, <1>6 DEF RebasePush, Goto, Typed, Locals
  <2>8. Spares(p)'
    BY <1>2, <2>1, <2>5, <2>6, <2>7 DEF Spares
  <2>9. QED  BY <1>2, <1>3, <2>6, <2>8, SparingOther
<1>7. CASE RebaseRecord(p)
  <2>1. doc' = SetStatus(doc, Me, "active", proc[p].etag, << >>) /\ Return(p)
        /\ UNCHANGED <<object, base, imports>> /\ proc[p].pc = "pushed"
    BY <1>7 DEF RebaseRecord, state, world, At
  <2>2. ~Shared /\ ~Announced
    BY <1>2, <2>1 DEF Spares, Settled
  <2>3. ~Shared' /\ ~Announced'
    BY <2>1, <2>2 DEF Shared, Announced
  <2>4. Settled'
    BY <2>3 DEF Settled
  <2>5. QED  BY <1>2, <2>1, <2>4, SparingReturn DEF Return, Resting
<1>8. QED  BY <1>4, <1>5, <1>6, <1>7 DEF Rebase

\* Only a frozen overlay is announced.
LEMMA MergeSparing ==
    ASSUME Concurrent = 1, Typed, Sequential, Sparing, NEW p \in Procs, Merge(p)
    PROVE  Sparing'
<1>1. CASE MergeLoad(p)
  BY <1>1, SparingBegin DEF MergeLoad
<1> SUFFICES ASSUME ~MergeLoad(p)  PROVE Sparing'
  BY <1>1
<1>2. /\ p \in Running /\ Entered /\ Status # "creating" /\ Settled
      /\ proc[p].cmd = "merge" /\ proc[p] \in Locals /\ proc[p].claims \in ClaimMap
  <2>1. PICK pc \in {"loaded", "refreshed", "verified"} : At(p, "merge", pc)
    BY DEF Merge, MergeRead, MergeVerify, MergeFreeze
  <2>2. QED  BY <2>1, ItFits DEF CommandFits, MergeFits, Sparing, Locals, Pcs, Resting
<1>3. \A q \in Procs \ {p} : proc'[q] = proc[q]
  BY OnlyItself
<1>4. CASE MergeRead(p) \/ MergeVerify(p)
  <2>1. Settled'
    BY <1>2, <1>4, SettledUnmoved DEF MergeRead, MergeVerify, registry, state, world
  <2>2. proc'[p].cmd = "merge"
    BY <1>2, <1>4 DEF MergeRead, MergeVerify, Goto, Typed, Locals
  <2>3. QED  BY <1>2, <1>3, <2>1, <2>2, SparingOther DEF Spares
<1>5. CASE MergeFreeze(p)
  <2>1. /\ doc' = SetStatus(doc, Me, "merging", TheEntry.etag, proc[p].claims) /\ Return(p)
        /\ UNCHANGED <<object, base>>
    BY <1>5 DEF MergeFreeze, state
  <2>2. Status' = "merging" /\ TheEntry'.etag = TheEntry.etag
    BY <1>2, <2>1, StatusSetIs
  <2>3. Shared' => Shared
    BY <2>1 DEF Shared
  <2>4. Settled'
    BY <1>2, <2>1, <2>2, <2>3 DEF Settled
  <2>5. QED  BY <1>2, <2>1, <2>4, SparingReturn DEF Return, Resting
<1>6. QED  BY <1>4, <1>5 DEF Merge

\* The imports file goes before the overlay thaws.
LEMMA UndoSparing ==
    ASSUME Concurrent = 1, Typed, Sequential, Sparing, NEW p \in Procs, Undo(p)
    PROVE  Sparing'
<1>1. CASE UndoLoad(p)
  BY <1>1, SparingBegin DEF UndoLoad
<1> SUFFICES ASSUME ~UndoLoad(p)  PROVE Sparing'
  BY <1>1
<1>2. /\ p \in Running /\ Entered /\ Status # "creating" /\ Settled /\ Spares(p)
      /\ proc[p].cmd = "undo" /\ proc[p] \in Locals
  <2>1. PICK pc \in {"loaded", "unlinked"} : At(p, "undo", pc)
    BY DEF Undo, UndoUnlink, UndoThaw
  <2>2. QED  BY <2>1, ItFits DEF CommandFits, UndoFits, Sparing, Pcs, Resting
<1>3. CASE UndoUnlink(p)
  <2>1. Goto(p, "unlinked") /\ imports' = Nil /\ UNCHANGED <<doc, object, base>>
    BY <1>3 DEF UndoUnlink, registry, state
  <2>2. UNCHANGED <<TheEntry, Status>>
    BY <2>1 DEF TheEntry, Status
  <2>3. Settled'
    BY <1>2, <2>1, <2>2, SettledKept
  <2>4. proc'[p].cmd = "undo"
    BY <1>2, <2>1 DEF Goto, Typed, Locals
  <2>5. \A q \in Procs \ {p} : proc'[q] = proc[q]
    BY OnlyItself
  <2>6. QED  BY <1>2, <2>1, <2>3, <2>4, <2>5, SparingOther DEF Spares
<1>4. CASE UndoThaw(p)
  <2>1. /\ doc' = SetStatus(doc, Me, "active", TheEntry.etag, << >>) /\ Return(p)
        /\ UNCHANGED <<object, base, imports>> /\ proc[p].pc = "unlinked"
    BY <1>4 DEF UndoThaw, state, world, At
  <2>2. Status' = "active" /\ TheEntry'.etag = TheEntry.etag
    BY <1>2, <2>1, StatusSetIs, EmptyIsClaims
  <2>3. imports' = Nil
    BY <1>2, <2>1 DEF Spares
  <2>4. Settled'
    BY <1>2, <2>1, <2>2, <2>3, SettledKept
  <2>5. QED  BY <1>2, <2>1, <2>4, SparingReturn DEF Return, Resting
<1>5. QED  BY <1>3, <1>4 DEF Undo

\* Without an overlay state nothing is shared.
LEMMA NoStateSparing ==
    ASSUME Typed, Sequential, NEW p \in Running, object' = Nil,
           \A q \in Procs \ {p} : proc'[q] = proc[q],
           proc'[p].cmd \in {"apply", "rebase", "abandon"} => Status' # "merging",
           proc'[p].cmd # "undo"
    PROVE  Sparing'
<1>1. ~Shared' /\ ~Announced'
  BY DEF Shared, Announced
<1>2. Settled' /\ Spares(p)'
  BY <1>1 DEF Settled, Spares
<1>3. QED  BY <1>2, SparingOther

LEMMA ReleaseSparing ==
    ASSUME Typed, Sequential, NEW p \in Running, Release(p), object = Nil
    PROVE  Sparing'
<1>1. object' = Nil /\ Return(p)
  BY DEF Release, state
<1>2. Settled'
  BY <1>1 DEF Settled, Shared, Announced
<1>3. QED  BY <1>1, <1>2, SparingReturn DEF Return, Resting

\* No abandon of an overlay whose claims the base has got, if it destroys.
LEMMA AbandonSparing ==
    ASSUME Concurrent = 1, Typed, Sequential, Sparing, NEW p \in Procs, Abandon(p)
    PROVE  Sparing'
<1>1. CASE AbandonLoad(p)
  <2>1. PICK cmd \in {"abandon", "abandon keep"} :
           /\ Gate(Releasable(cmd)) /\ BeginLoaded(p, cmd, "loaded")
           /\ UNCHANGED <<registry, state, world>>
    BY <1>1 DEF AbandonLoad
  <2>2. cmd \in {"apply", "rebase", "abandon"} => Status # "merging"
    BY <2>1, NotMerging DEF Releasable
  <2>3. QED  BY <2>1, <2>2, SparingBegin
<1> SUFFICES ASSUME ~AbandonLoad(p)  PROVE Sparing'
  BY <1>1
<1>2. /\ p \in Running /\ Entered /\ AbandonFits(p) /\ Consistent /\ Settled /\ Spares(p)
      /\ proc[p].cmd \in {"abandon", "abandon keep"} /\ proc[p] \in Locals
  <2>1. /\ Abandons(p)
        /\ proc[p].pc \in {"loaded", "checked", "removed", "planned", "emptied", "destroyed", "archived"}
    BY DEF Abandon, AbandonCheck, AbandonStateRm, AbandonPlan, AbandonDestroy, AbandonVerify,
           AbandonArchive, AbandonRelease, Archive, Release, At, Abandons
  <2>2. QED  BY <2>1, AbandonIsOn DEF AbandonFits, Sparing, Sequential, Pcs, Resting
<1>3. \A q \in Procs \ {p} : proc'[q] = proc[q]
  BY OnlyItself
<1>4. CASE AbandonCheck(p)
  <2>1. Settled' /\ Shared' = Shared /\ Status' = Status
    BY <1>2, <1>4, SettledUnmoved DEF AbandonCheck, registry, state, world
  <2>2. proc'[p].cmd = proc[p].cmd
    BY <1>2, <1>4 DEF AbandonCheck, Typed, Locals
  <2>3. ~Shared
    BY <1>2, <1>4, Unclaimed DEF AbandonCheck, AbandonFits, Shared
  <2>4. Spares(p)'
    BY <1>2, <2>1, <2>2, <2>3 DEF Spares
  <2>5. QED  BY <1>2, <1>3, <2>1, <2>4, SparingOther
<1>5. CASE AbandonStateRm(p)
  <2>1. /\ Goto(p, "removed") /\ UNCHANGED <<doc, base, imports>> /\ object # Nil
        /\ object \in StateObject /\ proc[p].pc = "checked" /\ proc[p].cmd = "abandon"
    BY <1>5, ObjectIs DEF AbandonStateRm, registry, world, At
  <2>2. ObjectsOf(object'.own) \subseteq ObjectsOf(object.own)
    BY <1>5, <2>1, BaredIs, FewerObjects
  <2>3. UNCHANGED <<TheEntry, Status>>
    BY <2>1 DEF TheEntry, Status
  <2>4. Settled' /\ (Shared' => Shared)
    BY <1>2, <2>1, <2>2, <2>3, SettledKept
  <2>5. proc'[p].cmd = "abandon"
    BY <1>2, <2>1 DEF Goto, Typed, Locals
  <2>6. Spares(p)'
    BY <1>2, <2>1, <2>3, <2>4, <2>5 DEF Spares
  <2>7. QED  BY <1>2, <1>3, <2>4, <2>6, SparingOther
<1>6. CASE AbandonPlan(p)
  <2>1. Settled' /\ Shared' = Shared /\ Status' = Status
    BY <1>2, <1>6, SettledUnmoved DEF AbandonPlan, registry, state, world
  <2>2. proc'[p].cmd = "abandon" /\ proc[p].cmd = "abandon" /\ proc[p].pc = "removed"
    BY <1>2, <1>6 DEF AbandonPlan, At, Typed, Locals
  <2>3. Spares(p)'
    BY <1>2, <2>1, <2>2 DEF Spares
  <2>4. QED  BY <1>2, <1>3, <2>1, <2>3, SparingOther
<1>7. CASE AbandonDestroy(p)
  <2>1. PICK some \in SUBSET DOMAIN object.own :
           /\ object' = [object EXCEPT !.serial = @ + 1, !.own = Restrict(@, DOMAIN @ \ some)]
           /\ Goto(p, "emptied") \/ proc' = [proc EXCEPT ![p] = Ended("stopped")]
    BY <1>7 DEF AbandonDestroy
  <2>2. /\ object # Nil /\ object \in StateObject /\ UNCHANGED <<doc, base, imports>>
        /\ proc[p].pc = "planned" /\ proc[p].cmd = "abandon"
    BY <1>7, ObjectIs DEF AbandonDestroy, registry, At
  <2>3. ObjectsOf(object'.own) \subseteq ObjectsOf(object.own)
    <3>1. object'.own = Restrict(object.own, DOMAIN object.own \ some)
      BY <2>1, <2>2, AbandonDestroyIs
    <3> DEFINE left == Restrict(object.own, DOMAIN object.own \ some)
    <3>2. DOMAIN left \subseteq DOMAIN object.own /\ \A a \in DOMAIN left : left[a] = object.own[a]
      BY DEF Restrict
    <3> HIDE DEF left
    <3>3. ObjectsOf(left) \subseteq ObjectsOf(object.own)
      BY <3>2, FewerObjects
    <3>4. QED  BY <3>1, <3>3 DEF left
  <2>4. UNCHANGED <<TheEntry, Status>>
    BY <2>2 DEF TheEntry, Status
  <2>5. Settled' /\ (Shared' => Shared)
    BY <1>2, <2>2, <2>3, <2>4, SettledKept
  <2>6. CASE Goto(p, "emptied")
    <3>1. proc'[p].cmd = "abandon"
      BY <1>2, <2>2, <2>6 DEF Goto, Typed, Locals
    <3>2. Spares(p)'
      BY <1>2, <2>2, <2>4, <2>5, <3>1 DEF Spares
    <3>3. QED  BY <1>2, <1>3, <2>5, <3>2, SparingOther
  <2>7. CASE proc' = [proc EXCEPT ![p] = Ended("stopped")]
    BY <1>2, <2>5, <2>7, SparingReturn DEF Resting
  <2>8. QED  BY <2>1, <2>6, <2>7
<1>8. CASE AbandonVerify(p)
  <2>1. Settled' /\ Status' = Status
    BY <1>2, <1>8, SettledUnmoved DEF AbandonVerify, registry, state, world
  <2>2. proc'[p].cmd = "abandon" /\ proc'[p].pc = "destroyed" /\ proc[p].cmd = "abandon"
    BY <1>2, <1>8 DEF AbandonVerify, Goto, At, Typed, Locals
  <2>3. Spares(p)'
    BY <1>2, <2>1, <2>2 DEF Spares
  <2>4. QED  BY <1>2, <1>3, <2>1, <2>3, SparingOther
<1>9. CASE AbandonArchive(p)
  <2>1. object' = Nil /\ UNCHANGED doc /\ Goto(p, "archived")
    BY <1>9 DEF AbandonArchive, Archive, registry
  <2>2. proc'[p].cmd = proc[p].cmd /\ Status' = Status
    BY <1>2, <2>1 DEF Goto, Typed, Locals, Status, TheEntry
  <2>3. QED  BY <1>2, <1>3, <2>1, <2>2, NoStateSparing DEF Spares
<1>10. CASE AbandonRelease(p)
  <2>1. object = Nil
    BY <1>2, <1>10 DEF AbandonRelease, Release, AbandonFits
  <2>2. QED  BY <1>2, <1>10, <2>1, ReleaseSparing DEF AbandonRelease
<1>11. QED
  BY <1>4, <1>5, <1>6, <1>7, <1>8, <1>9, <1>10 DEF Abandon

LEMMA FinalizeSparing ==
    ASSUME Concurrent = 1, Typed, Sequential, Sparing, NEW p \in Procs, Finalize(p)
    PROVE  Sparing'
<1>1. CASE FinalizeLoad(p)
  BY <1>1, SparingBegin DEF FinalizeLoad
<1> SUFFICES ASSUME ~FinalizeLoad(p)  PROVE Sparing'
  BY <1>1
<1>2. /\ p \in Running /\ FinalizeFits(p) /\ Settled /\ proc[p].cmd = "finalize"
      /\ proc[p] \in Locals
  <2>1. PICK pc \in {"loaded", "checked", "archived"} : At(p, "finalize", pc)
    BY DEF Finalize, FinalizeCheck, FinalizeArchive, FinalizeRelease, Archive, Release, At
  <2>2. QED  BY <2>1, ItFits DEF CommandFits, Sparing, Pcs, Resting
<1>3. \A q \in Procs \ {p} : proc'[q] = proc[q]
  BY OnlyItself
<1>4. CASE FinalizeCheck(p)
  <2>1. Settled'
    BY <1>2, <1>4, SettledUnmoved DEF FinalizeCheck, registry, state, world
  <2>2. proc'[p].cmd = "finalize"
    BY <1>2, <1>4 DEF FinalizeCheck, Goto, Typed, Locals
  <2>3. QED  BY <1>2, <1>3, <2>1, <2>2, SparingOther DEF Spares
<1>5. CASE FinalizeArchive(p)
  <2>1. object' = Nil /\ proc'[p].cmd = "finalize"
    BY <1>2, <1>5 DEF FinalizeArchive, Archive, Goto, Typed, Locals
  <2>2. QED  BY <1>2, <1>3, <2>1, NoStateSparing
<1>6. CASE FinalizeRelease(p)
  <2>1. object = Nil
    BY <1>2, <1>6 DEF FinalizeRelease, Release, FinalizeFits
  <2>2. QED  BY <1>2, <1>6, <2>1, ReleaseSparing DEF FinalizeRelease
<1>7. QED  BY <1>4, <1>5, <1>6 DEF Finalize

\* What the trunk adopts was announced, and puts the overlay out of date.
LEMMA AroundSparing ==
    ASSUME Typed, Sequential, Fresh, Sparing, TrunkMoves \/ TrunkAdopts \/ Timeout
    PROVE  Sparing'
<1>1. UNCHANGED <<doc, object, imports, proc>>
  BY DEF TrunkMoves, TrunkAdopts, Timeout, registry, state, world
<1>2. Running' = Running /\ UNCHANGED <<Entered, TheEntry, Status, Announced>>
  BY <1>1 DEF Running, Entered, Registered, TheEntry, Status, Announced
<1>3. ObjectsOf(base'.own) \subseteq ObjectsOf(base.own)
          \cup (IF imports = Nil THEN {} ELSE ObjectsOf(imports))
  <2>1. CASE TrunkMoves \/ Timeout
    <3>1. base'.own = base.own
      BY <2>1 DEF TrunkMoves, Timeout, world, Typed, StateTyped, BaseState
    <3>2. QED  BY <3>1
  <2>2. CASE TrunkAdopts
    <3> DEFINE all == DOMAIN imports \cup DOMAIN base.own
    <3>1. base'.own = [a \in all |-> IF a \in DOMAIN base.own THEN base.own[a] ELSE imports[a]]
      BY <2>2 DEF TrunkAdopts
    <3>2. imports # Nil
      BY <2>2 DEF TrunkAdopts
    <3>3. ASSUME NEW k \in ObjectsOf(base'.own)
          PROVE  k \in ObjectsOf(base.own) \cup ObjectsOf(imports)
      <4>1. PICK a \in all : k = <<a, base'.own[a]>>
        BY <3>1, <3>3 DEF ObjectsOf
      <4>2. CASE a \in DOMAIN base.own
        BY <3>1, <4>1, <4>2 DEF ObjectsOf
      <4>3. CASE a \notin DOMAIN base.own
        BY <3>1, <4>1, <4>3 DEF ObjectsOf
      <4>4. QED  BY <4>2, <4>3
    <3>4. QED  BY <3>2, <3>3
  <2>3. QED  BY <2>1, <2>2
<1>4. Shared' => Shared \/ Announced
  BY <1>1, <1>3 DEF Shared, Announced
<1>5. base' = base \/ base'.version = base.version + 1
  <2>1. base.version \in Int /\ base \in BaseState
    BY Versions DEF Typed, StateTyped
  <2>2. QED  BY <2>1 DEF TrunkMoves, TrunkAdopts, Timeout, world, BaseState
<1>6. (Shared \/ Announced) => /\ Entered /\ Status # "creating"
                               /\ TheEntry.etag \in Etags /\ TheEntry.etag <= base.version
  <2>1. Shared \/ Announced => object # Nil /\ DOMAIN object.own # {}
    BY OwnsNothing DEF Shared, Announced
  <2>2. Shared \/ Announced => Entered /\ Status # "creating"
    BY <2>1 DEF Sequential, Consistent, ObjectsAreRegistered
  <2>3. QED  BY <2>2 DEF Fresh, Built
<1>7. Settled'
  <2>1. Announced' => Status' = "merging"
    BY <1>2 DEF Sparing, Settled
  <2>2. CASE base' = base
    <3>1. Shared' = Shared
      BY <1>1, <2>2 DEF Shared
    <3>2. QED  BY <1>2, <2>1, <2>2, <3>1 DEF Sparing, Settled
  <2>3. CASE base'.version = base.version + 1
    <3>1. \A e \in Etags : e <= base.version => e < base'.version
      BY <2>3, Versions
    <3>2. QED  BY <1>2, <1>4, <1>6, <2>1, <3>1 DEF Settled
  <2>4. QED  BY <1>5, <2>2, <2>3
<1>8. ASSUME NEW p \in Running  PROVE Spares(p)'
  <2>1. Spares(p) /\ Settled
    BY DEF Sparing
  <2>2. QED  BY <1>1, <1>2, <1>4, <2>1 DEF Spares, Settled
<1>9. QED  BY <1>2, <1>7, <1>8 DEF Sparing

LEMMA NextSparing ==
    ASSUME Concurrent = 1, ~AllowStale, Typed, Sequential, Fresh, Numbered, Sparing, [Next]_vars
    PROVE  Sparing'
<1>1. CASE UNCHANGED vars
  <2>1. UNCHANGED <<doc, expired, lineage, object, lock, base, cloud, kept, imports, proc>>
    BY <1>1 DEF vars, registry, state, world
  <2>2. Running' = Running /\ Settled' /\ Shared' = Shared /\ Status' = Status
    BY <2>1, SettledUnmoved DEF Sparing, Running
  <2>3. ASSUME NEW p \in Running  PROVE Spares(p)'
    BY <2>1, <2>2 DEF Sparing, Spares
  <2>4. QED  BY <2>2, <2>3 DEF Sparing
<1>2. ASSUME NEW p \in Procs, Stop(p)  PROVE Sparing'
  <2>1. Settled'
    BY <1>2, SettledUnmoved DEF Sparing, Stop, registry, world
  <2>2. QED  BY <1>2, <2>1, SparingReturn DEF Stop, Resting
<1>3. CASE TrunkMoves \/ TrunkAdopts \/ Timeout
  BY <1>3, AroundSparing
<1>4. CASE \E p \in Procs : \/ Create(p) \/ Apply(p) \/ Rebase(p) \/ Merge(p) \/ Undo(p)
                            \/ Abandon(p) \/ Finalize(p)
  BY <1>4, CreateSparing, ApplySparing, RebaseSparing, MergeSparing, UndoSparing,
     AbandonSparing, FinalizeSparing
<1>5. QED  BY <1>1, <1>2, <1>3, <1>4 DEF Next

\* Only apply and abandon destroy, and only what the overlay state holds.
LEMMA AdoptedStay ==
    ASSUME Typed, Sequential, Sparing, [Next]_vars
    PROVE  ObjectsOf(base.own) \cap cloud \subseteq cloud'
<1>1. CASE cloud' = cloud
  BY <1>1
<1>2. ASSUME NEW p \in Procs, ApplyWrite(p)
      PROVE  ObjectsOf(base.own) \cap cloud \subseteq cloud'
  <2>1. p \in Running /\ ApplyFits(p) /\ Spares(p) /\ proc[p].cmd = "apply" /\ proc[p].pc = "applying"
    BY <1>2, ItFits DEF ApplyWrite, CommandFits, Sparing, Pcs, Resting
  <2>2. LocalsFit(proc[p])
    BY <1>2, UnderWay DEF ApplyWrite, Pcs, Resting
  <2>3. object = proc[p].object /\ object # Nil
    BY <2>1, <2>2, ObjectAssumption DEF ApplyFits, LocalsFit
  <2>4. ObjectsOf(object.own) \cap ObjectsOf(base.own) = {}
    BY <2>1, <2>3 DEF Spares, Shared
  <2>5. PICK some \in SUBSET Changes(p) :
           cloud \ ObjectsOf(Restrict(object.own, DOMAIN object.own \cap some)) \subseteq cloud'
    BY <1>2, <2>3 DEF ApplyWrite
  <2> DEFINE gone == Restrict(object.own, DOMAIN object.own \cap some)
  <2>6. ObjectsOf(gone) \subseteq ObjectsOf(object.own)
    BY DEF Restrict, ObjectsOf
  <2> HIDE DEF gone
  <2>7. QED  BY <2>4, <2>5, <2>6 DEF gone
<1>3. ASSUME NEW p \in Procs, AbandonDestroy(p)
      PROVE  ObjectsOf(base.own) \cap cloud \subseteq cloud'
  <2>1. object # Nil /\ proc[p].cmd = "abandon" /\ proc[p].pc = "planned"
    BY <1>3 DEF AbandonDestroy, At
  <2>2. Spares(p)
    BY <2>1 DEF Sparing, Running
  <2>3. ObjectsOf(object.own) \cap ObjectsOf(base.own) = {}
    BY <2>1, <2>2 DEF Spares, Shared
  <2>4. PICK some \in SUBSET DOMAIN object.own :
           cloud' = cloud \ ObjectsOf(Restrict(object.own, some))
    BY <1>3 DEF AbandonDestroy
  <2> DEFINE gone == Restrict(object.own, some)
  <2>5. ObjectsOf(gone) \subseteq ObjectsOf(object.own)
    BY DEF Restrict, ObjectsOf
  <2> HIDE DEF gone
  <2>6. QED  BY <2>3, <2>4, <2>5 DEF gone
<1>4. ASSUME NEW p \in Procs, ~ApplyWrite(p), ~AbandonDestroy(p),
             \/ Create(p) \/ Apply(p) \/ Rebase(p) \/ Merge(p) \/ Undo(p)
             \/ Abandon(p) \/ Finalize(p) \/ Stop(p)
      PROVE  cloud' = cloud
  <2> USE DEF world
  <2>1. CASE Create(p)
    BY <2>1 DEF Create, CreateLoad, CreateRegister, CreatePull, CreatePush, CreateReadBack,
                CreateFlip
  <2>2. CASE Apply(p)
    BY <1>4, <2>2 DEF Apply, ApplyLoad, ApplyPlan, ApplyNothing, ApplyAcquire, ApplyStart,
                      ApplyFails, ApplyPull, ApplyFinish
  <2>3. CASE Rebase(p)
    BY <2>3 DEF Rebase, RebaseLoad, RebaseRead, RebasePull, RebasePush, RebaseRecord
  <2>4. CASE Merge(p) \/ Undo(p)
    BY <2>4 DEF Merge, MergeLoad, MergeRead, MergeVerify, MergeFreeze, Undo, UndoLoad,
                UndoUnlink, UndoThaw
  <2>5. CASE Abandon(p)
    BY <1>4, <2>5 DEF Abandon, AbandonLoad, AbandonCheck, AbandonStateRm, AbandonPlan,
                      AbandonVerify, AbandonArchive, AbandonRelease, Release
  <2>6. CASE Finalize(p) \/ Stop(p)
    BY <2>6 DEF Finalize, FinalizeLoad, FinalizeCheck, FinalizeArchive, FinalizeRelease,
                Release, Stop
  <2>7. QED  BY <1>4, <2>1, <2>2, <2>3, <2>4, <2>5, <2>6
<1>5. CASE UNCHANGED vars \/ TrunkMoves \/ TrunkAdopts \/ Timeout
  BY <1>1, <1>5 DEF vars, TrunkMoves, TrunkAdopts, Timeout, world
<1>6. QED  BY <1>1, <1>2, <1>3, <1>4, <1>5 DEF Next

\* An overlay never destroys an object the trunk has adopted, wherever commands
\* stop, as long as no apply is run with --allow-stale.
THEOREM AdoptedAreSpared ==
    ASSUME Concurrent = 1, ~AllowStale
    PROVE  Spec => AdoptedSurvive
<1> DEFINE Inv == Typed /\ ApplyingHasRun /\ Sequential /\ Fresh /\ Numbered /\ Sparing
<1>1. Init => Inv
  <2> SUFFICES ASSUME Init  PROVE Fresh /\ Sparing
    BY InitTyped, InitSequential, InitNumbered
       DEF ApplyingHasRun, Init, EmptyDoc, Entered, Registered
  <2>1. Running = {}
    BY IdleIs DEF Init, Running
  <2>2. ~Entered /\ object = Nil /\ lineage = Nil
    BY DEF Init, EmptyDoc, Entered, Registered
  <2>3. QED  BY <2>1, <2>2 DEF Fresh, Built, Sparing, Settled, Shared, Announced
<1>2. Inv /\ [Next]_vars => Inv'
  BY NextTyped, NextSequential, NextFresh, NextNumbered, NextSparing
<1>3. Inv /\ [Next]_vars => [ObjectsOf(base.own) \cap cloud \subseteq cloud']_vars
  BY AdoptedStay
<1> HIDE DEF Inv
<1>4. QED  BY <1>1, <1>2, <1>3, PTL DEF Spec, AdoptedSurvive

------------------------------------------------------------------------------
(***************************************************************************)
(* Applies that overlap, and take over from each other, with merges and    *)
(* their undoing in between; one create.  A run that was taken over may    *)
(* still be in tofu.  Outdated: the state is not any more that of its      *)
(* plan, so tofu will refuse.  Done: the current run, all of its plan      *)
(* carried out.  Whoever reports it done, and whoever freezes the overlay  *)
(* afterwards, has outdated all the others.                                *)
(***************************************************************************)

Together == {"create", "apply", "merge", "undo"}

OneCreator == \A p, q \in Creators : p = q

Outdated(q) == proc[q].object.serial < object.serial

Acquired(q) == proc[q].cmd = "apply" /\ proc[q].pc \in {"acquired", "applying"}

Carried(q) == proc[q].cmd = "apply" /\ proc[q].pc \in {"applied", "refreshed"} /\ proc[q].ok

Done(q) == Carried(q) /\ Entered /\ TheEntry.run = q

LateApply(p) ==
    LET me == proc[p]
    IN  /\ AllCreate(me.claims)
        /\ me.pc \in {"loaded", "planned", "acquired", "applying"} => ~me.ok
        /\ me.pc \in {"planned", "acquired", "applying"} =>
              object # Nil /\ (Outdated(p) \/ object = me.object)
        /\ me.pc = "planned" => me.want \subseteq DOMAIN me.claims
        /\ me.pc \in {"acquired", "applying"} =>
              Outdated(p) \/ me.want \subseteq DOMAIN TheEntry.claims
        /\ me.pc = "applying" => lock = p /\ object = me.object
        /\ (me.pc = "refreshed" /\ Done(p) /\ object # Nil) =>
              me.released \cap DOMAIN object.own = {}

LateFits(p) ==
    LET me == proc[p]
    IN  /\ me.cmd \in Together
        /\ me.cmd = "create" =>
              /\ p \in Creators /\ CreateFits(p)
              /\ me.pc \in {"loaded", "registered", "pulled"} => object = Nil
        /\ me.cmd # "create" => Entered /\ Status # "creating"
        /\ me.cmd = "merge" => AllCreate(me.claims) /\ AllCreate(me.entry.claims)
        /\ me.cmd = "apply" => LateApply(p)

\* Nobody else can write any more.
Last == \A q \in Procs : Acquired(q) => Outdated(q)

Late ==
    /\ Consistent
    /\ \A p \in Creators : proc[p].pc = "idle" => ~Entered
    /\ \A p \in Running : LateFits(p)
    /\ (Entered /\ Status \in {"active", "merging"}) => Last
    /\ (\E p \in Procs : Done(p)) => Last

\* What the others rely on when one command takes a step.  First a step that
\* leaves the entry and the state alone.
LEMMA OthersStay ==
    ASSUME NEW q, LateFits(q), proc'[q] = proc[q], UNCHANGED <<doc, object>>,
           lock' = lock \/ lock # q
    PROVE  LateFits(q)'
<1>1. UNCHANGED <<Entered, TheEntry, Status>>
  BY DEF Entered, Registered, TheEntry, Status
<1>2. CreateFits(q) => CreateFits(q)'
  BY <1>1 DEF CreateFits
<1>3. LateApply(q) => LateApply(q)'
  BY <1>1 DEF LateApply, Outdated, Done, Carried, AllCreate
<1>4. QED  BY <1>1, <1>2, <1>3 DEF LateFits, AllCreate

\* Then one that may write them.
LEMMA OthersFit ==
    ASSUME Typed, NEW q \in Running, LateFits(q), proc[q].cmd # "create", proc'[q] = proc[q],
           Entered', Status' # "creating",
           object' = object \/ (object' # Nil /\ object'.serial = object.serial + 1),
           Acquired(q) /\ proc[q].pc = "applying" => UNCHANGED <<object, lock>>,
           Acquired(q) /\ ~Outdated(q)' => DOMAIN TheEntry.claims \subseteq DOMAIN TheEntry'.claims,
           Done(q)' => Done(q) /\ object' = object
    PROVE  LateFits(q)'
<1>1. proc[q].cmd = "apply" => LateApply(q)'
  <2> SUFFICES ASSUME proc[q].cmd = "apply"  PROVE LateApply(q)'
    OBVIOUS
  <2>1. LateApply(q)
    BY DEF LateFits
  <2>2. proc[q].pc \in {"planned", "acquired", "applying"} =>
           object' # Nil /\ (Outdated(q)' \/ object' = proc[q].object)
    <3> SUFFICES ASSUME proc[q].pc \in {"planned", "acquired", "applying"}
                 PROVE  object' # Nil /\ (Outdated(q)' \/ object' = proc[q].object)
      OBVIOUS
    <3>1. object # Nil /\ (Outdated(q) \/ object = proc[q].object)
      BY <2>1 DEF LateApply
    <3>2. proc[q].object.serial \in Nat /\ object.serial \in Nat
      BY <3>1, ObjectIs DEF Typed, LocalsFit, StateObject
    <3>3. QED  BY <3>1, <3>2 DEF Outdated
  <2>3. proc[q].pc \in {"acquired", "applying"} =>
           Outdated(q)' \/ proc[q].want \subseteq DOMAIN TheEntry'.claims
    <3> SUFFICES ASSUME proc[q].pc \in {"acquired", "applying"}, ~Outdated(q)'
                 PROVE  proc[q].want \subseteq DOMAIN TheEntry'.claims
      OBVIOUS
    <3>1. Acquired(q) /\ object' = proc[q].object
      BY <2>2 DEF Acquired
    <3>2. ~Outdated(q)
      <4>1. object # Nil /\ object'.serial \in Nat /\ proc[q].object.serial \in Nat
        BY <2>1, <3>1, ObjectIs DEF LateApply, Typed, LocalsFit, StateObject
      <4>2. object.serial \in Nat
        BY <4>1, ObjectIs DEF StateObject
      <4>3. QED  BY <3>1, <4>1, <4>2 DEF Outdated
    <3>3. QED  BY <2>1, <3>1, <3>2 DEF LateApply
  <2>4. proc[q].pc = "applying" => lock' = q /\ object' = proc[q].object
    BY <2>1 DEF LateApply, Acquired
  <2>5. (proc[q].pc = "refreshed" /\ Done(q)' /\ object' # Nil) =>
           proc[q].released \cap DOMAIN object'.own = {}
    BY <2>1 DEF LateApply
  <2>6. QED  BY <2>1, <2>2, <2>3, <2>4, <2>5 DEF LateApply, AllCreate
<1>2. QED  BY <1>1 DEF LateFits, AllCreate

LEMMA CreatorAlone ==
    ASSUME OneCreator, Late, NEW p \in Running, proc[p].cmd = "create"
    PROVE  Running = {p}
<1>1. p \in Creators /\ (Entered => Status = "creating")
  BY DEF Late, LateFits, CreateFits
<1>2. ASSUME NEW q \in Running  PROVE q = p
  BY <1>1 DEF Late, LateFits, OneCreator
<1>3. QED  BY <1>2

\* A step of p, put together.
LEMMA LateStep ==
    ASSUME OneCreator, Typed, Late, NEW p \in Procs, NEW m, proc' = [proc EXCEPT ![p] = m],
           m.pc # "idle", Consistent', Entered' => Entered \/ p \in Creators,
           \A q \in Running \ {p} : LateFits(q)',
           proc'[p] = m /\ m.pc \notin Resting => LateFits(p)',
           (Entered' /\ Status' \in {"active", "merging"}) => Last',
           (\E q \in Procs : Done(q)') => Last'
    PROVE  Late'
<1>1. proc'[p] = m /\ \A q \in Procs \ {p} : proc'[q] = proc[q]
  BY DEF Typed
<1>2. \A q \in Creators : proc'[q].pc = "idle" => ~Entered'
  BY <1>1, LifecycleAssumption DEF Late, OneCreator
<1>3. ASSUME NEW q \in Running'  PROVE LateFits(q)'
  <2>1. q \in Procs
    BY DEF Running
  <2>2. CASE q = p
    BY <1>1, <2>2 DEF Running, Resting
  <2>3. CASE q # p
    BY <1>1, <2>1, <2>3 DEF Running
  <2>4. QED  BY <2>2, <2>3
<1>4. QED  BY <1>2, <1>3 DEF Late

\* A step of p that writes neither the entry nor the state.
LEMMA LateQuiet ==
    ASSUME OneCreator, Typed, Late, NEW p \in Procs, NEW m, proc' = [proc EXCEPT ![p] = m],
           m.pc # "idle", UNCHANGED <<doc, lineage, object, base, cloud, kept>>,
           \A q \in Procs \ {p} : lock' = lock \/ lock # q,
           proc'[p] = m /\ m.pc \notin Resting => LateFits(p)',
           m.cmd = "apply" /\ m.pc \in {"acquired", "applying"} =>
              Acquired(p) /\ m.object = proc[p].object,
           m.cmd = "apply" /\ m.pc \in {"applied", "refreshed"} /\ m.ok => Carried(p)
    PROVE  Late'
<1>1. proc'[p] = m /\ \A q \in Procs \ {p} : proc'[q] = proc[q]
  BY DEF Typed
<1>2. UNCHANGED <<Entered, TheEntry, Status>>
  BY DEF Entered, Registered, TheEntry, Status
<1>3. Consistent'
  BY Unmoved DEF Late
<1>4. ASSUME NEW q \in Running \ {p}  PROVE LateFits(q)'
  <2>1. LateFits(q) /\ q \in Procs \ {p}
    BY DEF Late, Running
  <2>2. QED  BY <1>1, <2>1, OthersStay
<1>5. Last => Last'
  <2> SUFFICES ASSUME Last, NEW q \in Procs, Acquired(q)'  PROVE Outdated(q)'
    BY DEF Last
  <2>1. Acquired(q) /\ proc'[q].object = proc[q].object
    BY <1>1 DEF Acquired
  <2>2. QED  BY <2>1 DEF Last, Outdated
<1>6. ASSUME NEW q \in Procs, Done(q)'  PROVE Done(q)
  BY <1>1, <1>2, <1>6 DEF Done, Carried
<1>7. QED  BY <1>1, <1>2, <1>3, <1>4, <1>5, <1>6, LateStep DEF Late

\* Only its creator runs before there is an entry, and while it is creating.
LEMMA LateEntered ==
    ASSUME Late, NEW p \in Running, proc[p].cmd # "create"
    PROVE  LateFits(p) /\ Entered /\ Status # "creating"
BY DEF Late, LateFits

LEMMA LateBegin ==
    ASSUME Commands \subseteq Together, OneCreator, Typed, Late, NEW p \in Procs,
           NEW cmd \in {"apply", "merge", "undo"}, BeginLoaded(p, cmd, "loaded"),
           Entered, Status # "creating", UNCHANGED <<registry, state, world>>
    PROVE  Late'
<1> DEFINE m == [Idle EXCEPT !.cmd = cmd, !.pc = "loaded", !.entry = TheEntry,
                             !.recorded = lineage]
<1>1. proc' = [proc EXCEPT ![p] = m] /\ cmd \in Commands
  BY DEF BeginLoaded, Begin
<1>2. m.cmd = cmd /\ m.pc = "loaded" /\ m.entry = TheEntry /\ m.claims = << >> /\ m.ok = FALSE
  BY DEF Idle
<1> HIDE DEF m
<1>3. UNCHANGED <<doc, lineage, object, lock, base, cloud, kept>>
  BY DEF registry, state, world
<1>4. AllCreate(<< >>) /\ AllCreate(TheEntry.claims)
  BY EmptyIsClaims DEF AllCreate, Late, Consistent
<1>5. ASSUME proc'[p] = m  PROVE LateFits(p)'
  <2>1. Entered' /\ Status' # "creating"
    BY <1>3 DEF Entered, Registered, TheEntry, Status
  <2>2. LateApply(p)'
    BY <1>2, <1>4, <1>5 DEF LateApply, AllCreate
  <2>3. QED  BY <1>1, <1>2, <1>4, <1>5, <2>1, <2>2 DEF LateFits, AllCreate
<1>6. QED  BY <1>1, <1>2, <1>3, <1>5, LateQuiet

LEMMA CreateLoadLate ==
    ASSUME Commands \subseteq Together, OneCreator, Typed, Late, NEW p \in Procs, CreateLoad(p)
    PROVE  Late'
<1> DEFINE m == [Idle EXCEPT !.cmd = "create", !.pc = "loaded", !.etag = base.version,
                             !.entry = IF Entered THEN TheEntry ELSE Nil]
<1>1. proc' = [proc EXCEPT ![p] = m] /\ "create" \in Commands /\ proc[p].pc = "idle"
  BY DEF CreateLoad, Begin
<1>2. m.cmd = "create" /\ m.pc = "loaded"
  BY DEF Idle
<1> HIDE DEF m
<1>3. UNCHANGED <<doc, lineage, object, lock, base, cloud, kept>>
  BY DEF CreateLoad, registry, state, world
<1>4. p \in Creators /\ ~Entered
  BY <1>1 DEF CreateLoad, Late
<1>5. object = Nil /\ ~Entered'
  BY <1>3, <1>4 DEF Late, Consistent, ObjectsAreRegistered, Entered, Registered
<1>6. ASSUME proc'[p] = m  PROVE LateFits(p)'
  <2>1. CreateFits(p)'
    BY <1>2, <1>5, <1>6 DEF CreateFits
  <2>2. QED  BY <1>1, <1>2, <1>3, <1>4, <1>5, <1>6, <2>1 DEF LateFits
<1>7. QED  BY <1>1, <1>2, <1>3, <1>6, LateQuiet

\* What the further steps of create have in common.
LEMMA CreateStepIs ==
    ASSUME Typed, NEW p \in Procs, Create(p), ~CreateLoad(p)
    PROVE  /\ p \in Running /\ proc[p].cmd = "create"
           /\ \E m : /\ proc' = [proc EXCEPT ![p] = m]
                     /\ m.pc \in {"registered", "pulled", "pushed", "read back"} =>
                           m.cmd = "create"
                     /\ m.pc \in {"registered", "pulled", "pushed", "read back", "returned"}
                     /\ m.pc \in {"registered", "pulled"} =>
                           object' = object /\ proc[p].pc \in {"loaded", "registered"}
<1>1. CASE CreateRegister(p)
  <2> DEFINE m == [proc[p] EXCEPT !.pc = "registered", !.recorded = lineage]
  <2>1. p \in Running /\ proc[p] \in Locals /\ proc[p].cmd = "create" /\ proc[p].pc = "loaded"
    BY <1>1, UnderWay, AtRuns DEF CreateRegister, Pcs, Resting
  <2>2. proc' = [proc EXCEPT ![p] = m] /\ m.pc = "registered" /\ m.cmd = "create"
    BY <1>1, <2>1 DEF CreateRegister, Locals
  <2>3. object' = object
    BY <1>1 DEF CreateRegister, state
  <2> HIDE DEF m
  <2>4. QED  BY <2>1, <2>2, <2>3
<1>2. CASE CreatePull(p)
  <2> DEFINE m == [proc[p] EXCEPT !.pc = "pulled", !.base = base]
  <2>1. p \in Running /\ proc[p] \in Locals /\ proc[p].cmd = "create" /\ proc[p].pc = "registered"
    BY <1>2, UnderWay, AtRuns DEF CreatePull, Pcs, Resting
  <2>2. proc' = [proc EXCEPT ![p] = m] /\ m.pc = "pulled" /\ m.cmd = "create"
    BY <1>2, <2>1 DEF CreatePull, Locals
  <2>3. object' = object
    BY <1>2 DEF CreatePull, state
  <2> HIDE DEF m
  <2>4. QED  BY <2>1, <2>2, <2>3
<1>3. CASE CreatePush(p)
  <2>1. p \in Running /\ proc[p].cmd = "create"
    BY <1>3, UnderWay, AtRuns DEF CreatePush, Pcs, Resting
  <2>2. PICK pc \in {"read back", "pushed"} : Goto(p, pc)
    BY <1>3 DEF CreatePush
  <2>3. pc \in Pcs
    BY DEF Pcs
  <2>4. \E m : proc' = [proc EXCEPT ![p] = m] /\ m.pc = pc /\ m.cmd = proc[p].cmd
    <3> DEFINE m == [proc[p] EXCEPT !.pc = pc]
    <3>1. proc' = [proc EXCEPT ![p] = m]
      BY <2>2 DEF Goto
    <3>2. m.pc = pc /\ m.cmd = proc[p].cmd
      BY DEF Typed, Locals
    <3> HIDE DEF m
    <3>3. QED  BY <3>1, <3>2
  <2>5. QED  BY <2>1, <2>2, <2>4
<1>4. CASE CreateReadBack(p)
  <2> DEFINE m == [proc[p] EXCEPT !.pc = "read back", !.recorded = object.lineage]
  <2>1. p \in Running /\ proc[p] \in Locals /\ proc[p].cmd = "create"
    BY <1>4, UnderWay, AtRuns DEF CreateReadBack, Pcs, Resting
  <2>2. proc' = [proc EXCEPT ![p] = m] /\ m.pc = "read back" /\ m.cmd = "create"
    BY <1>4, <2>1 DEF CreateReadBack, Locals
  <2> HIDE DEF m
  <2>3. QED  BY <2>1, <2>2
<1>5. CASE CreateFlip(p)
  <2>1. p \in Running /\ proc[p].cmd = "create"
    BY <1>5, UnderWay, AtRuns DEF CreateFlip, Pcs, Resting
  <2>2. proc' = [proc EXCEPT ![p] = Ended("returned")] /\ Ended("returned").pc = "returned"
    BY <1>5, EndedIs DEF CreateFlip, Return, Pcs, Resting
  <2>3. QED  BY <2>1, <2>2
<1>6. QED  BY <1>1, <1>2, <1>3, <1>4, <1>5 DEF Create

LEMMA CreateLate ==
    ASSUME Commands \subseteq Together, OneCreator, Typed, Late, NEW p \in Procs, Create(p)
    PROVE  Late'
<1>1. CASE CreateLoad(p)
  BY <1>1, CreateLoadLate
<1>2. CASE ~CreateLoad(p)
  <2>1. p \in Running /\ proc[p].cmd = "create"
    BY <1>2, CreateStepIs
  <2>2. PICK m : /\ proc' = [proc EXCEPT ![p] = m]
                 /\ m.pc \in {"registered", "pulled", "pushed", "read back"} => m.cmd = "create"
                 /\ m.pc \in {"registered", "pulled", "pushed", "read back", "returned"}
                 /\ m.pc \in {"registered", "pulled"} =>
                       object' = object /\ proc[p].pc \in {"loaded", "registered"}
    BY <1>2, CreateStepIs
  <2>3. Running = {p} /\ LateFits(p) /\ p \in Creators
    BY <2>1, CreatorAlone DEF Late, LateFits
  <2>4. Sequential
    <3>1. CommandFits(p)
      BY <2>1, <2>3 DEF LateFits, CommandFits
    <3>2. QED  BY <2>3, <3>1 DEF Late, Sequential, Alone
  <2>5. Sequential'
    BY <1>2, <2>4, CreateGoesOn
  <2>6. proc'[p] = m /\ \A q \in Procs \ {p} : proc'[q] = proc[q]
    BY <2>2 DEF Typed
  <2>7. m.pc \notin Resting => LateFits(p)'
    <3> SUFFICES ASSUME m.pc \notin Resting  PROVE LateFits(p)'
      OBVIOUS
    <3>1. p \in Running' /\ proc'[p].cmd = "create" /\ m.pc # "loaded"
      BY <2>2, <2>6 DEF Running, Resting
    <3>2. CreateFits(p)'
      BY <2>5, <3>1 DEF Sequential, CommandFits
    <3>3. m.pc \in {"registered", "pulled"} => object' = Nil
      BY <2>1, <2>2, <2>3 DEF LateFits
    <3>4. QED  BY <2>3, <2>6, <3>1, <3>2, <3>3 DEF LateFits, Together
  <2>8. Last'
    <3> SUFFICES ASSUME NEW q \in Procs, Acquired(q)'  PROVE FALSE
      BY DEF Last
    <3>1. q # p
      BY <2>2, <2>6 DEF Acquired
    <3>2. q \in Running
      BY <2>6, <3>1 DEF Acquired, Running
    <3>3. QED  BY <2>3, <3>1, <3>2
  <2>9. QED
    BY <2>2, <2>3, <2>5, <2>7, <2>8, LateStep DEF Sequential
<1>3. QED  BY <1>1, <1>2

(* apply *)

\* The locals of an apply under way.
LEMMA LateAt ==
    ASSUME Typed, Late, NEW p \in Procs, NEW cmd, cmd # "create",
           NEW pc \in Pcs \ Resting, At(p, cmd, pc)
    PROVE  /\ p \in Running /\ proc[p] \in Locals /\ LocalsFit(proc[p])
           /\ proc[p].cmd = cmd /\ proc[p].pc = pc
           /\ LateFits(p) /\ Entered /\ Status # "creating" /\ Consistent
<1>1. p \in Running /\ proc[p] \in Locals /\ LocalsFit(proc[p])
      /\ proc[p].cmd = cmd /\ proc[p].pc = pc
  BY AtRuns, UnderWay
<1>2. QED  BY <1>1, LateEntered DEF Late

\* What a step leaves alone.
LEMMA EntryKept ==
    ASSUME UNCHANGED doc
    PROVE  UNCHANGED <<Entered, TheEntry, Status>>
BY DEF Entered, Registered, TheEntry, Status

LEMMA ApplyPlanLate ==
    ASSUME OneCreator, Typed, Late, NEW p \in Procs, ApplyPlan(p)
    PROVE  Late'
<1>1. /\ LateFits(p) /\ Entered /\ Status # "creating" /\ Consistent
      /\ proc[p].cmd = "apply" /\ proc[p].pc = "loaded"
  BY LateAt DEF ApplyPlan, Pcs, Resting
<1>2. object # Nil /\ ~proc[p].ok
  BY <1>1, PlanIs DEF LateFits, LateApply
<1>3. PICK m : /\ proc' = [proc EXCEPT ![p] = m]
               /\ m.cmd = "apply" /\ m.pc = "planned" /\ m.object = object /\ m.ok = proc[p].ok
               /\ AllCreate(m.claims) /\ m.want \subseteq DOMAIN m.claims
  BY <1>1, PlanIs
<1>4. UNCHANGED <<doc, lineage, object, lock, base, cloud, kept>>
  BY DEF ApplyPlan, registry, state, world
<1>5. ASSUME proc'[p] = m  PROVE LateFits(p)'
  <2>1. Entered' /\ Status' # "creating"
    BY <1>1, <1>4, EntryKept
  <2>2. LateApply(p)'
    BY <1>2, <1>3, <1>4, <1>5 DEF LateApply
  <2>3. QED  BY <1>3, <1>5, <2>1, <2>2 DEF LateFits, Together
<1>6. QED  BY <1>3, <1>4, <1>5, LateQuiet

LEMMA ApplyAcquireLate ==
    ASSUME OneCreator, Typed, Late, NEW p \in Procs, ApplyAcquire(p)
    PROVE  Late'
<1>1. /\ p \in Running /\ LateFits(p) /\ Entered /\ Status # "creating" /\ Consistent
      /\ proc[p].cmd = "apply" /\ proc[p].pc = "planned" /\ LateApply(p)
  BY LateAt DEF ApplyAcquire, Pcs, Resting, LateFits
<1>2. /\ Consistent' /\ Entered' /\ Status' = "applying" /\ TheEntry'.run = p
      /\ DOMAIN TheEntry'.claims = DOMAIN TheEntry.claims \cup DOMAIN proc[p].claims
      /\ \E m : /\ proc' = [proc EXCEPT ![p] = m]
                /\ m.cmd = "apply" /\ m.pc = "acquired" /\ AllCreate(m.claims)
                /\ m.object = proc[p].object /\ m.want = proc[p].want /\ m.ok = proc[p].ok
  BY <1>1, AcquiredIs DEF LateApply
<1>3. PICK m : /\ proc' = [proc EXCEPT ![p] = m]
               /\ m.cmd = "apply" /\ m.pc = "acquired" /\ AllCreate(m.claims)
               /\ m.object = proc[p].object /\ m.want = proc[p].want /\ m.ok = proc[p].ok
  BY <1>2
<1>4. proc'[p] = m /\ \A q \in Procs \ {p} : proc'[q] = proc[q]
  BY <1>3 DEF Typed
<1>5. UNCHANGED <<object, lock>>
  BY DEF ApplyAcquire, state
<1>6. ASSUME NEW q \in Procs  PROVE ~Done(q)'
  BY <1>2, <1>3, <1>4 DEF Done, Carried
<1>7. ASSUME NEW q \in Running \ {p}  PROVE LateFits(q)'
  <2>1. LateFits(q) /\ proc[q].cmd # "create" /\ proc'[q] = proc[q] /\ q \in Procs
    BY <1>1, <1>4, CreatorAlone DEF Late, Running
  <2>2. QED  BY <1>2, <1>5, <1>6, <2>1, OthersFit
<1>8. LateApply(p)'
  BY <1>1, <1>2, <1>3, <1>4, <1>5, <1>6 DEF LateApply, Outdated
<1>9. LateFits(p)'
  BY <1>2, <1>3, <1>4, <1>8 DEF LateFits, Together
<1>10. QED  BY <1>1, <1>2, <1>3, <1>6, <1>7, <1>9, LateStep

\* Who gets into tofu has the current state.
LEMMA ApplyStartLate ==
    ASSUME OneCreator, Typed, Late, NEW p \in Procs, ApplyStart(p)
    PROVE  Late'
<1>1. /\ p \in Running /\ LateFits(p) /\ Entered /\ Status # "creating"
      /\ proc[p].cmd = "apply" /\ proc[p].pc = "acquired" /\ LateApply(p)
      /\ proc[p] \in Locals /\ LocalsFit(proc[p])
  BY LateAt DEF ApplyStart, Pcs, Resting, LateFits
<1>2. object = proc[p].object /\ object # Nil /\ ~Outdated(p)
  <2>1. object # Nil /\ object.serial = proc[p].object.serial /\ object.serial \in Nat
    BY ObjectIs DEF ApplyStart, StateObject
  <2>2. QED  BY <1>1, <2>1 DEF LateApply, Outdated
<1> DEFINE m == [proc[p] EXCEPT !.pc = "applying"]
<1>3. /\ proc' = [proc EXCEPT ![p] = m] /\ m.cmd = "apply" /\ m.pc = "applying"
      /\ m.object = proc[p].object /\ m.claims = proc[p].claims /\ m.want = proc[p].want
      /\ m.ok = proc[p].ok
  BY <1>1 DEF ApplyStart, Goto, Locals
<1> HIDE DEF m
<1>4. UNCHANGED <<doc, lineage, object, base, cloud, kept>> /\ lock' = p /\ lock = Nil
  BY DEF ApplyStart, registry, world
<1>5. \A q \in Procs : lock # q
  BY <1>4, LifecycleAssumption, NilAssumption
<1>6. ASSUME proc'[p] = m  PROVE LateFits(p)'
  <2>1. Entered' /\ Status' # "creating" /\ TheEntry' = TheEntry
    BY <1>1, <1>4, EntryKept
  <2>2. LateApply(p)'
    BY <1>1, <1>2, <1>3, <1>4, <1>6, <2>1 DEF LateApply, AllCreate
  <2>3. QED  BY <1>3, <1>6, <2>1, <2>2 DEF LateFits, Together
<1>7. Acquired(p)
  BY <1>1 DEF Acquired
<1>8. QED  BY <1>3, <1>4, <1>5, <1>6, <1>7, LateQuiet

\* Who writes has outdated everybody else.
LEMMA ApplyWriteLate ==
    ASSUME OneCreator, Typed, Late, NEW p \in Procs, ApplyWrite(p)
    PROVE  Late'
<1>1. /\ p \in Running /\ LateFits(p) /\ Entered /\ Status # "creating" /\ Consistent
      /\ proc[p].cmd = "apply" /\ proc[p].pc = "applying" /\ LateApply(p)
      /\ proc[p] \in Locals /\ LocalsFit(proc[p])
  BY LateAt DEF ApplyWrite, Pcs, Resting, LateFits
<1>2. object # Nil /\ object = proc[p].object /\ lock = p /\ object.serial \in Nat
  BY <1>1, ObjectIs DEF LateApply, StateObject
<1>3. proc[p].want \subseteq DOMAIN TheEntry.claims
  BY <1>1, <1>2 DEF LateApply, Outdated
<1>4. /\ Consistent' /\ UNCHANGED doc
      /\ object' # Nil /\ object'.serial = object.serial + 1
      /\ \E m : /\ proc' = [proc EXCEPT ![p] = m]
                /\ m.cmd = "apply" /\ m.pc = "applied" /\ m.claims = proc[p].claims
  BY <1>1, <1>2, <1>3, WriteIs
<1>5. PICK m : /\ proc' = [proc EXCEPT ![p] = m]
               /\ m.cmd = "apply" /\ m.pc = "applied" /\ m.claims = proc[p].claims
  BY <1>4
<1>6. proc'[p] = m /\ \A q \in Procs \ {p} : proc'[q] = proc[q]
  BY <1>5 DEF Typed
<1>7. UNCHANGED <<Entered, TheEntry, Status>>
  BY <1>4, EntryKept
\* Nobody else is in tofu, and no run is done but this one.
<1>8. ASSUME NEW q \in Procs \ {p}  PROVE ~(Acquired(q) /\ proc[q].pc = "applying") /\ ~Done(q)
  <2>1. ~(Acquired(q) /\ proc[q].pc = "applying")
    BY <1>2 DEF Acquired, Late, LateFits, LateApply, Running
  <2>2. Acquired(p) /\ ~Outdated(p)
    BY <1>1, <1>2 DEF Acquired, Outdated
  <2>3. QED  BY <2>1, <2>2 DEF Late, Last
<1>9. ASSUME NEW q \in Running \ {p}  PROVE LateFits(q)'
  <2>1. LateFits(q) /\ proc[q].cmd # "create" /\ proc'[q] = proc[q] /\ q \in Procs
    BY <1>1, <1>6, CreatorAlone DEF Late, Running
  <2>2. Done(q)' => Done(q)
    BY <1>7, <2>1 DEF Done, Carried
  <2>3. QED  BY <1>1, <1>4, <1>7, <1>8, <2>1, <2>2, OthersFit
<1>10. Last'
  <2> SUFFICES ASSUME NEW q \in Procs, Acquired(q)'  PROVE Outdated(q)'
    BY DEF Last
  <2>1. q # p
    BY <1>5, <1>6 DEF Acquired
  <2>2. proc'[q] = proc[q] /\ Acquired(q) /\ q \in Running
    BY <1>6, <2>1 DEF Acquired, Running
  <2>3. /\ Outdated(q) \/ object = proc[q].object
        /\ proc[q].object \in StateObject
    BY <2>2 DEF Late, LateFits, LateApply, Acquired, Typed, LocalsFit
  <2>4. proc[q].object.serial \in Nat
    BY <2>3 DEF StateObject
  <2>5. QED  BY <1>2, <1>4, <2>2, <2>3, <2>4 DEF Outdated
<1>11. LateApply(p)'
  BY <1>1, <1>5, <1>6 DEF LateApply
<1>12. LateFits(p)'
  BY <1>1, <1>5, <1>6, <1>7, <1>11 DEF LateFits, Together
<1>13. QED  BY <1>4, <1>5, <1>7, <1>9, <1>10, <1>12, LateStep

LEMMA LastStays ==
    ASSUME Typed, Last, NEW p \in Procs, NEW m, proc' = [proc EXCEPT ![p] = m],
           m.pc \notin {"acquired", "applying"}, object' = object
    PROVE  Last'
<1> SUFFICES ASSUME NEW q \in Procs, Acquired(q)'  PROVE Outdated(q)'
  BY DEF Last
<1>1. q # p
  BY DEF Typed, Acquired
<1>2. proc'[q] = proc[q] /\ Acquired(q)
  BY <1>1 DEF Typed, Acquired
<1>3. QED  BY <1>2 DEF Last, Outdated

\* tofu failed before it changed anything: nothing is carried out.
LEMMA ApplyFailsLate ==
    ASSUME OneCreator, Typed, Late, NEW p \in Procs, ApplyFails(p)
    PROVE  Late'
<1>1. /\ LateFits(p) /\ Entered /\ Status # "creating"
      /\ proc[p].cmd = "apply" /\ proc[p].pc = "acquired" /\ LateApply(p)
      /\ proc[p] \in Locals
  BY LateAt DEF ApplyFails, Pcs, Resting, LateFits
<1> DEFINE m == [proc[p] EXCEPT !.pc = "applied"]
<1>2. /\ proc' = [proc EXCEPT ![p] = m] /\ m.cmd = "apply" /\ m.pc = "applied"
      /\ m.claims = proc[p].claims /\ m.ok = proc[p].ok
  BY <1>1 DEF ApplyFails, Goto, Locals
<1> HIDE DEF m
<1>3. ~m.ok /\ AllCreate(m.claims)
  BY <1>1, <1>2 DEF LateApply
<1>4. UNCHANGED <<doc, lineage, object, lock, base, cloud, kept>>
  BY DEF ApplyFails, registry, state, world
<1>5. ASSUME proc'[p] = m  PROVE LateFits(p)'
  <2>1. Entered' /\ Status' # "creating"
    BY <1>1, <1>4, EntryKept
  <2>2. LateApply(p)'
    BY <1>2, <1>3, <1>5 DEF LateApply
  <2>3. QED  BY <1>2, <1>5, <2>1, <2>2 DEF LateFits, Together
<1>6. QED  BY <1>2, <1>3, <1>4, <1>5, LateQuiet

\* What is released is not in the state that was pulled.
LEMMA ApplyPullLate ==
    ASSUME OneCreator, Typed, Late, NEW p \in Procs, ApplyPull(p)
    PROVE  Late'
<1>1. /\ LateFits(p) /\ Entered /\ Status # "creating"
      /\ proc[p].cmd = "apply" /\ proc[p].pc = "applied" /\ LateApply(p)
      /\ proc[p] \in Locals /\ proc[p].claims \in ClaimMap
  BY LateAt DEF ApplyPull, Pcs, Resting, LateFits, Locals
<1>2. UNCHANGED <<doc, lineage, object, lock, base, cloud, kept>>
  BY DEF ApplyPull, registry, state, world
<1>3. ASSUME NEW m, proc' = [proc EXCEPT ![p] = m], m.cmd = "apply", m.pc = "refreshed",
             m.ok = proc[p].ok, AllCreate(m.claims),
             object # Nil => m.released \cap DOMAIN object.own = {}
      PROVE  Late'
  <2>1. ASSUME proc'[p] = m  PROVE LateFits(p)'
    <3>1. Entered' /\ Status' # "creating"
      BY <1>1, <1>2, EntryKept
    <3>2. LateApply(p)'
      BY <1>2, <1>3, <2>1 DEF LateApply
    <3>3. QED  BY <1>3, <2>1, <3>1, <3>2 DEF LateFits, Together
  <2>2. m.ok => Carried(p)
    BY <1>1, <1>3 DEF Carried
  <2>3. QED  BY <1>2, <1>3, <2>1, <2>2, LateQuiet
<1>4. CASE /\ object # Nil
           /\ proc' = [proc EXCEPT
                 ![p].pc = "refreshed", ![p].claims = ClaimsFromState(@, object),
                 ![p].released = @ \ Present(object)]
  <2> DEFINE claims == ClaimsFromState(proc[p].claims, object)
             released == proc[p].released \ Present(object)
             m == [proc[p] EXCEPT !.pc = "refreshed", !.claims = claims, !.released = released]
  <2>1. proc' = [proc EXCEPT ![p] = m]
    BY <1>1, <1>4 DEF Typed
  <2>2. AllCreate(claims)
    BY <1>1, <1>4, ObjectIs, RefreshedKinds DEF LateApply
  <2>3. released \cap DOMAIN object.own = {}
    BY DEF Present
  <2> HIDE DEF claims, released
  <2>4. /\ m.cmd = "apply" /\ m.pc = "refreshed" /\ m.claims = claims
        /\ m.released = released /\ m.ok = proc[p].ok
    BY <1>1 DEF Locals
  <2> HIDE DEF m
  <2>5. QED  BY <1>3, <2>1, <2>2, <2>3, <2>4
<1>5. CASE proc' = [proc EXCEPT ![p].pc = "refreshed", ![p].released = {}]
  <2> DEFINE m == [proc[p] EXCEPT !.pc = "refreshed", !.released = {}]
  <2>1. proc' = [proc EXCEPT ![p] = m]
    BY <1>5
  <2>2. /\ m.cmd = "apply" /\ m.pc = "refreshed" /\ m.claims = proc[p].claims
        /\ m.released = {} /\ m.ok = proc[p].ok
    BY <1>1 DEF Locals
  <2> HIDE DEF m
  <2>3. QED  BY <1>1, <1>3, <2>1, <2>2 DEF LateApply
<1>6. QED  BY <1>4, <1>5 DEF ApplyPull

\* Only the current run finishes; if all of its plan is carried out the others
\* are outdated, and claims may go.
LEMMA ApplyFinishLate ==
    ASSUME OneCreator, Typed, Late, NEW p \in Procs, ApplyFinish(p)
    PROVE  Late'
<1>1. /\ p \in Running /\ LateFits(p) /\ Entered /\ Status # "creating" /\ Consistent
      /\ proc[p].cmd = "apply" /\ proc[p].pc = "refreshed" /\ LateApply(p)
  BY LateAt DEF ApplyFinish, Pcs, Resting, LateFits
<1>2. TheEntry.run = p
  BY <1>1 DEF ApplyFinish, FinishRefused, Entered, TheEntry
<1>3. proc[p].ok => Done(p) /\ Last
  BY <1>1, <1>2 DEF Done, Carried, Late
<1>4. /\ Consistent' /\ Entered' /\ TheEntry'.run = Nil
      /\ Status' = IF proc[p].ok THEN "active" ELSE "dirty"
      /\ ~proc[p].ok => DOMAIN TheEntry.claims \subseteq DOMAIN TheEntry'.claims
      /\ \E pc \in Resting \ {"idle"} : proc' = [proc EXCEPT ![p] = Ended(pc)]
  BY <1>1, <1>3, FinishedConsistent DEF LateApply
<1>5. PICK pc \in Resting \ {"idle"} : proc' = [proc EXCEPT ![p] = Ended(pc)]
  BY <1>4
<1> DEFINE m == Ended(pc)
<1>6. proc' = [proc EXCEPT ![p] = m] /\ m.pc = pc /\ m.pc \in Resting \ {"idle"}
  BY <1>5, EndedIs DEF Pcs
<1> HIDE DEF m
<1>7. proc'[p] = m /\ \A q \in Procs \ {p} : proc'[q] = proc[q]
  BY <1>6 DEF Typed
<1>8. UNCHANGED <<object, lock>>
  BY DEF ApplyFinish, state
<1>9. ASSUME NEW q \in Procs  PROVE ~Done(q)'
  BY <1>4, LifecycleAssumption, NilAssumption DEF Done
<1>10. ASSUME NEW q \in Running \ {p}  PROVE LateFits(q)'
  <2>1. LateFits(q) /\ proc[q].cmd # "create" /\ proc'[q] = proc[q] /\ q \in Procs
    BY <1>1, <1>7, CreatorAlone DEF Late, Running
  <2>2. Acquired(q) /\ ~Outdated(q)' => DOMAIN TheEntry.claims \subseteq DOMAIN TheEntry'.claims
    BY <1>3, <1>4, <1>8, <2>1 DEF Last, Outdated
  <2>3. Status' # "creating"
    BY <1>4
  <2>4. QED  BY <1>4, <1>8, <1>9, <2>1, <2>2, <2>3, OthersFit
<1>11. Last => Last'
  BY <1>6, <1>8, LastStays DEF Resting
<1>12. (Entered' /\ Status' \in {"active", "merging"}) => Last'
  BY <1>3, <1>4, <1>11
<1>13. QED  BY <1>1, <1>4, <1>6, <1>9, <1>10, <1>12, LateStep

\* A command that returns without a word to the others.
LEMMA LateReturn ==
    ASSUME OneCreator, Typed, Late, NEW p \in Procs, NEW pc \in Resting \ {"idle"},
           proc' = [proc EXCEPT ![p] = Ended(pc)],
           UNCHANGED <<doc, lineage, object, base, cloud, kept>>,
           \A q \in Procs \ {p} : lock' = lock \/ lock # q
    PROVE  Late'
<1> DEFINE m == Ended(pc)
<1>1. proc' = [proc EXCEPT ![p] = m] /\ m.pc \in Resting \ {"idle"}
  BY EndedIs DEF Pcs
<1> HIDE DEF m
<1>2. QED  BY <1>1, LateQuiet DEF Resting

LEMMA ApplyLate ==
    ASSUME Commands \subseteq Together, OneCreator, Typed, Late, NEW p \in Procs, Apply(p)
    PROVE  Late'
<1>1. CASE ApplyLoad(p)
  BY <1>1, NotCreating, LateBegin DEF ApplyLoad
<1>2. CASE ApplyNothing(p)
  BY <1>2, LateReturn DEF ApplyNothing, Return, Resting, registry, state, world
<1>3. QED
  BY <1>1, <1>2, ApplyPlanLate, ApplyAcquireLate, ApplyStartLate, ApplyFailsLate, ApplyWriteLate,
     ApplyPullLate, ApplyFinishLate DEF Apply

(* merge, merge --undo, and the world around *)

\* Freezing and thawing: the overlay was active or merging, so all that an
\* apply under way has planned is outdated already.
LEMMA StatusLate ==
    ASSUME OneCreator, Typed, Late, NEW p \in Running, proc[p].cmd # "create",
           Status \in {"active", "merging"}, NEW s \in {"active", "merging"},
           NEW etag, NEW c \in ClaimMap, AllCreate(c),
           doc' = SetStatus(doc, Me, s, etag, c), Return(p),
           UNCHANGED <<lineage, object, lock, base, cloud, kept>>
    PROVE  Late'
<1>1. Entered /\ Status # "creating" /\ Consistent /\ Last /\ p \in Procs
  BY LateEntered DEF Late, Running
<1>2. /\ Consistent' /\ Entered' /\ Status' = s /\ TheEntry'.run = TheEntry.run
      /\ DOMAIN TheEntry.claims \subseteq DOMAIN TheEntry'.claims
  BY <1>1, StatusConsistent
<1> DEFINE m == Ended("returned")
<1>3. proc' = [proc EXCEPT ![p] = m] /\ m.pc = "returned"
  BY EndedIs DEF Return, Pcs, Resting
<1> HIDE DEF m
<1>4. proc'[p] = m /\ \A q \in Procs \ {p} : proc'[q] = proc[q]
  BY <1>1, <1>3 DEF Typed
<1>5. Last'
  BY <1>1, <1>3, LastStays
<1>6. ASSUME NEW q \in Running \ {p}  PROVE LateFits(q)'
  <2>1. LateFits(q) /\ proc[q].cmd # "create" /\ proc'[q] = proc[q]
    BY <1>1, <1>4, CreatorAlone DEF Late, Running
  <2>2. Done(q)' => Done(q)
    BY <1>1, <1>2, <2>1 DEF Done, Carried
  <2>3. QED  BY <1>2, <2>1, <2>2, OthersFit
<1>7. m.pc \in Resting
  BY <1>3 DEF Resting
<1>8. QED  BY <1>1, <1>2, <1>3, <1>5, <1>6, <1>7, LateStep

LEMMA MergeLate ==
    ASSUME Commands \subseteq Together, OneCreator, Typed, Late, NEW p \in Procs, Merge(p)
    PROVE  Late'
<1>1. CASE MergeLoad(p)
  BY <1>1, NotCreating, LateBegin DEF MergeLoad
\* Reading and verifying write nothing but the locals.
<1>2. ASSUME NEW pc \in {"refreshed", "verified"}, NEW old \in Pcs \ Resting,
             At(p, "merge", old), NEW m, proc' = [proc EXCEPT ![p] = m],
             m.cmd = "merge", m.pc = pc, AllCreate(m.claims), AllCreate(m.entry.claims),
             UNCHANGED <<registry, state, world>>
      PROVE  Late'
  <2>1. Entered /\ Status # "creating"
    BY <1>2, LateAt
  <2>2. UNCHANGED <<doc, lineage, object, lock, base, cloud, kept>>
    BY <1>2 DEF registry, state, world
  <2>3. ASSUME proc'[p] = m  PROVE LateFits(p)'
    <3>1. Entered' /\ Status' # "creating"
      BY <2>1, <2>2, EntryKept
    <3>2. QED  BY <1>2, <2>3, <3>1 DEF LateFits, Together, AllCreate
  <2>4. QED  BY <1>2, <2>2, <2>3, LateQuiet
<1>3. CASE MergeRead(p)
  <2> DEFINE claims == ClaimsFromState(proc[p].entry.claims, object)
             m == [proc[p] EXCEPT !.pc = "refreshed", !.claims = claims]
  <2>1. /\ At(p, "merge", "loaded") /\ "loaded" \in Pcs \ Resting
        /\ LateFits(p) /\ proc[p] \in Locals /\ LocalsFit(proc[p]) /\ proc[p].cmd = "merge"
    BY <1>3, LateAt DEF MergeRead, Pcs, Resting
  <2>2. AllCreate(claims)
    <3>1. object \in StateObject
      BY <1>3, ObjectIs DEF MergeRead, Valid
    <3>2. proc[p].entry.claims \in ClaimMap
      BY <2>1 DEF LocalsFit, Cmds, Entry
    <3>3. AllCreate(proc[p].entry.claims)
      BY <2>1 DEF LateFits
    <3>4. QED  BY <3>1, <3>2, <3>3, RefreshedKinds
  <2> HIDE DEF claims
  <2>3. /\ proc' = [proc EXCEPT ![p] = m] /\ m.cmd = "merge" /\ m.pc = "refreshed"
        /\ m.claims = claims /\ m.entry = proc[p].entry
    BY <1>3, <2>1 DEF MergeRead, Locals, claims
  <2> HIDE DEF m
  <2>4. AllCreate(m.claims) /\ AllCreate(m.entry.claims)
    BY <2>1, <2>2, <2>3 DEF LateFits
  <2>5. UNCHANGED <<registry, state, world>>
    BY <1>3 DEF MergeRead
  <2>6. QED  BY <1>2, <2>1, <2>3, <2>4, <2>5
<1>4. CASE MergeVerify(p)
  <2> DEFINE m == [proc[p] EXCEPT !.pc = "verified"]
  <2>1. /\ At(p, "merge", "refreshed") /\ "refreshed" \in Pcs \ Resting
        /\ LateFits(p) /\ proc[p] \in Locals /\ proc[p].cmd = "merge"
    BY <1>4, LateAt DEF MergeVerify, Pcs, Resting
  <2>2. /\ proc' = [proc EXCEPT ![p] = m] /\ m.cmd = "merge" /\ m.pc = "verified"
        /\ m.claims = proc[p].claims /\ m.entry = proc[p].entry
    BY <1>4, <2>1 DEF MergeVerify, Goto, Locals
  <2> HIDE DEF m
  <2>3. AllCreate(m.claims) /\ AllCreate(m.entry.claims)
    BY <2>1, <2>2 DEF LateFits
  <2>4. UNCHANGED <<registry, state, world>>
    BY <1>4 DEF MergeVerify
  <2>5. QED  BY <1>2, <2>1, <2>2, <2>3, <2>4
<1>5. CASE MergeFreeze(p)
  <2>1. /\ p \in Running /\ LateFits(p) /\ proc[p] \in Locals /\ proc[p].cmd = "merge"
    BY <1>5, LateAt DEF MergeFreeze, Pcs, Resting
  <2>2. proc[p].claims \in ClaimMap /\ AllCreate(proc[p].claims)
    BY <2>1 DEF Locals, LateFits
  <2>3. Status = "active"
    BY <1>5 DEF MergeFreeze, Unchanged, SetStatusRefused, TheEntry, Status
  <2>4. doc' = SetStatus(doc, Me, "merging", TheEntry.etag, proc[p].claims) /\ Return(p)
        /\ UNCHANGED <<lineage, object, lock, base, cloud, kept>>
    BY <1>5 DEF MergeFreeze, state
  <2>5. QED  BY <2>1, <2>2, <2>3, <2>4, StatusLate
<1>6. QED  BY <1>1, <1>3, <1>4, <1>5 DEF Merge

LEMMA UndoLate ==
    ASSUME Commands \subseteq Together, OneCreator, Typed, Late, NEW p \in Procs, Undo(p)
    PROVE  Late'
<1>1. CASE UndoLoad(p)
  <2>1. Entered /\ Status # "creating" /\ BeginLoaded(p, "undo", "loaded")
        /\ UNCHANGED <<registry, state, world>>
    BY <1>1 DEF UndoLoad, Status
  <2>2. QED  BY <2>1, LateBegin
<1>2. CASE UndoUnlink(p)
  <2> DEFINE m == [proc[p] EXCEPT !.pc = "unlinked"]
  <2>1. Entered /\ Status # "creating" /\ proc[p] \in Locals /\ proc[p].cmd = "undo"
    BY <1>2, LateAt DEF UndoUnlink, Pcs, Resting
  <2>2. proc' = [proc EXCEPT ![p] = m] /\ m.cmd = "undo" /\ m.pc = "unlinked"
    BY <1>2, <2>1 DEF UndoUnlink, Goto, Locals
  <2> HIDE DEF m
  <2>3. UNCHANGED <<doc, lineage, object, lock, base, cloud, kept>>
    BY <1>2 DEF UndoUnlink, registry, state
  <2>4. ASSUME proc'[p] = m  PROVE LateFits(p)'
    <3>1. Entered' /\ Status' # "creating"
      BY <2>1, <2>3, EntryKept
    <3>2. QED  BY <2>2, <2>4, <3>1 DEF LateFits, Together
  <2>5. QED  BY <2>2, <2>3, <2>4, LateQuiet
<1>3. CASE UndoThaw(p)
  <2>1. p \in Running /\ proc[p].cmd = "undo"
    BY <1>3, LateAt DEF UndoThaw, Pcs, Resting
  <2>2. << >> \in ClaimMap /\ AllCreate(<< >>)
    BY EmptyIsClaims DEF AllCreate
  <2>3. Status = "merging"
    BY <1>3 DEF UndoThaw, SetStatusRefused, TheEntry, Status
  <2>4. doc' = SetStatus(doc, Me, "active", TheEntry.etag, << >>) /\ Return(p)
        /\ UNCHANGED <<lineage, object, lock, base, cloud, kept>>
    BY <1>3 DEF UndoThaw, state, world
  <2>5. QED  BY <2>1, <2>2, <2>3, <2>4, StatusLate
<1>4. QED  BY <1>1, <1>2, <1>3 DEF Undo

LEMMA AroundLate ==
    ASSUME Typed, Late, TrunkMoves \/ TrunkAdopts \/ Timeout
    PROVE  Late'
<1>1. Consistent' /\ UNCHANGED <<doc, lineage, object, lock, cloud, kept, proc>>
  BY AroundConsistent DEF Late
<1>2. Running' = Running /\ UNCHANGED <<Entered, TheEntry, Status>>
  BY <1>1, EntryKept DEF Running
<1>3. ASSUME NEW q \in Running  PROVE LateFits(q)'
  BY <1>1, <1>3, OthersStay DEF Late
<1>4. (Last => Last') /\ \A q \in Procs : Done(q)' = Done(q)
  BY <1>1, <1>2 DEF Last, Acquired, Outdated, Done, Carried
<1>5. QED  BY <1>1, <1>2, <1>3, <1>4 DEF Late

LEMMA NoOthers ==
    ASSUME Commands \subseteq Together, Late, NEW p \in Procs
    PROVE  ~Rebase(p) /\ ~Abandon(p) /\ ~Finalize(p)
<1> DEFINE others == {"rebase", "abandon", "abandon keep", "finalize"}
<1>1. others \cap Together = {}
  BY DEF Together
<1>2. ASSUME NEW cmd \in others  PROVE ~BeginLoaded(p, cmd, "loaded")
  BY <1>1 DEF BeginLoaded, Begin
<1>3. ASSUME proc[p].cmd \in others  PROVE proc[p].pc \in Resting
  BY <1>1, <1>3 DEF Late, LateFits, Running, Resting
<1>4. ~Rebase(p)
  BY <1>2, <1>3
     DEF Rebase, RebaseLoad, RebaseRead, RebasePull, RebasePush, RebaseRecord, At, Resting
<1>5. ~Abandon(p)
  BY <1>2, <1>3
     DEF Abandon, AbandonLoad, AbandonCheck, AbandonStateRm, AbandonPlan, AbandonDestroy,
         AbandonVerify, AbandonArchive, AbandonRelease, Abandons, Archive, Release, At, Resting
<1>6. ~Finalize(p)
  BY <1>2, <1>3
     DEF Finalize, FinalizeLoad, FinalizeCheck, FinalizeArchive, FinalizeRelease, Archive,
         Release, At, Resting
<1>7. QED  BY <1>4, <1>5, <1>6

LEMMA NextLate ==
    ASSUME Commands \subseteq Together, OneCreator, Typed, Late, [Next]_vars
    PROVE  Late'
<1>1. CASE UNCHANGED vars
  <2>1. UNCHANGED <<doc, lineage, object, lock, base, cloud, kept, proc>>
    BY <1>1 DEF vars, registry, state, world
  <2>2. Consistent' /\ Running' = Running /\ UNCHANGED <<Entered, TheEntry, Status>>
    BY <2>1, EntryKept, Unmoved DEF Late, Running
  <2>3. ASSUME NEW q \in Running  PROVE LateFits(q)'
    BY <2>1, <2>3, OthersStay DEF Late
  <2>4. (Last => Last') /\ \A q \in Procs : Done(q)' = Done(q)
    BY <2>1, <2>2 DEF Last, Acquired, Outdated, Done, Carried
  <2>5. QED  BY <2>1, <2>2, <2>3, <2>4 DEF Late
<1>2. ASSUME NEW p \in Procs, Stop(p)  PROVE Late'
  <2>1. \A q \in Procs \ {p} : lock' = lock \/ lock # q
    BY <1>2 DEF Stop
  <2>2. QED  BY <1>2, <2>1, LateReturn DEF Stop, Resting, registry, world
<1>3. CASE TrunkMoves \/ TrunkAdopts \/ Timeout
  BY <1>3, AroundLate
<1>4. ASSUME NEW p \in Procs, \/ Create(p) \/ Apply(p) \/ Rebase(p) \/ Merge(p) \/ Undo(p)
                              \/ Abandon(p) \/ Finalize(p)
      PROVE  Late'
  BY <1>4, CreateLate, ApplyLate, MergeLate, UndoLate, NoOthers
<1>5. QED  BY <1>1, <1>2, <1>3, <1>4 DEF Next

LEMMA InitLate == Init => Late
<1> SUFFICES ASSUME Init  PROVE Late
  OBVIOUS
<1>1. Running = {} /\ \A q \in Procs : proc[q].pc = "idle"
  BY IdleIs DEF Init, Running
<1>2. ~Entered /\ object = Nil /\ cloud = {}
  BY DEF Init, EmptyDoc, Entered, Registered
<1>3. Consistent
  BY <1>2 DEF Consistent, ObjectsAreRegistered, NoOrphans
<1>4. QED  BY <1>1, <1>2, <1>3 DEF Late, Done

LEMMA AlwaysLate ==
    ASSUME Commands \subseteq Together, OneCreator
    PROVE  Spec => [](Typed /\ Late)
<1> DEFINE Inv == Typed /\ ApplyingHasRun /\ Late
<1>1. Init => Inv
  BY InitTyped, InitLate DEF ApplyingHasRun, Init, EmptyDoc, Entered, Registered
<1>2. Inv /\ [Next]_vars => Inv'
  BY NextTyped, NextLate
<1>3. Inv => Typed /\ Late
  OBVIOUS
<1> HIDE DEF Inv
<1>4. QED  BY <1>1, <1>2, <1>3, PTL DEF Spec

\* Applies, merges and undos that overlap in any way, fresh or stale, orphan no
\* object of the overlay: a saved plan is refused once another has written.
THEOREM OverlapsOrphanNothing ==
    ASSUME Commands \subseteq Together, OneCreator
    PROVE  Spec => []NoOrphans
<1>1. Late => NoOrphans
  BY DEF Late, Consistent
<1>2. QED  BY <1>1, AlwaysLate, PTL

\* However they overlap, what the state holds next to the base is claimed: a
\* taken-over apply never drops the claims of the one that took over.
THEOREM OverlapsHoldWhatIsClaimed ==
    ASSUME Commands \subseteq Together, OneCreator
    PROVE  Spec => []OwnInstancesAreClaimed
<1>1. Late => OwnInstancesAreClaimed
  BY AllCreateIs DEF Late, Consistent, OwnInstancesAreClaimed
<1>2. QED  BY <1>1, AlwaysLate, PTL

\* However they overlap, commands can go on with the overlay: its state is
\* registered, under the lineage it has.
THEOREM OverlapsKeepTheState ==
    ASSUME Commands \subseteq Together, OneCreator
    PROVE  Spec => [](ObjectsAreRegistered /\ LineageIsRecorded)
<1>1. Late => ObjectsAreRegistered /\ LineageIsRecorded
  BY DEF Late, Consistent, LineageIsRecorded, Status
<1>2. QED  BY <1>1, AlwaysLate, PTL

\* Only a create pushes, and only an apply writes, the state.
LEMMA WhoWrites ==
    ASSUME Commands \subseteq Together, Late, Next, object' # object
    PROVE  \E p \in Procs : CreatePush(p) \/ ApplyWrite(p)
<1>1. ~TrunkMoves /\ ~TrunkAdopts /\ ~Timeout /\ \A p \in Procs : ~Stop(p)
  BY DEF TrunkMoves, TrunkAdopts, Timeout, Stop, state
<1>2. PICK p \in Procs : Create(p) \/ Apply(p) \/ Merge(p) \/ Undo(p)
  BY <1>1, NoOthers DEF Next
<1>3. Create(p) => CreatePush(p)
  BY DEF Create, CreateLoad, CreateRegister, CreatePull, CreateReadBack, CreateFlip, state
<1>4. Apply(p) => ApplyWrite(p)
  BY DEF Apply, ApplyLoad, ApplyPlan, ApplyNothing, ApplyAcquire, ApplyStart, ApplyFails,
         ApplyPull, ApplyFinish, state
<1>5. ~Merge(p) /\ ~Undo(p)
  BY DEF Merge, MergeLoad, MergeRead, MergeVerify, MergeFreeze, Undo, UndoLoad, UndoUnlink,
         UndoThaw, state
<1>6. QED  BY <1>2, <1>3, <1>4, <1>5

\* While it is merging an overlay is frozen, whatever applies were under way
\* when it was: the state stays what the imports file was made from.
THEOREM MergingStaysFrozen ==
    ASSUME Commands \subseteq Together, OneCreator
    PROVE  Spec => MergingIsFrozen
<1> DEFINE Frozen == (Entered /\ TheEntry.status = "merging"
                      /\ Entered' /\ TheEntry'.status = "merging")
                         => object' = object \/ object' = Nil
<1>1. ASSUME Typed, Late, Next, Entered, Status = "merging"  PROVE object' = object
  <2> SUFFICES ASSUME object' # object  PROVE FALSE
    OBVIOUS
  <2>1. PICK p \in Procs : CreatePush(p) \/ ApplyWrite(p)
    BY <1>1, WhoWrites
  <2>2. CASE CreatePush(p)
    <3>1. p \in Running /\ proc[p].cmd = "create"
      BY <2>2, AtRuns DEF CreatePush, At, Pcs, Resting
    <3>2. QED  BY <1>1, <3>1 DEF Late, LateFits, CreateFits
  <2>3. CASE ApplyWrite(p)
    <3>1. Acquired(p) /\ LateApply(p) /\ proc[p].pc = "applying"
      BY <1>1, <2>3, LateAt DEF ApplyWrite, Acquired, LateFits, Pcs, Resting
    <3>2. object # Nil /\ object = proc[p].object /\ object.serial \in Nat
      BY <1>1, <3>1, ObjectIs DEF LateApply, StateObject
    <3>3. Outdated(p)
      BY <1>1, <3>1 DEF Late, Last
    <3>4. QED  BY <3>2, <3>3 DEF Outdated
  <2>4. QED  BY <2>1, <2>2, <2>3
<1>2. Typed /\ Late /\ [Next]_vars => [Frozen]_vars
  BY <1>1 DEF Status
<1> HIDE DEF Frozen
<1>3. Spec => [][Frozen]_vars
  BY <1>2, AlwaysLate, PTL DEF Spec
<1>4. QED  BY <1>3 DEF MergingIsFrozen, Frozen

------------------------------------------------------------------------------
(***************************************************************************)
(* What overlapping commands break, and commands that run one after the    *)
(* other do not: a release is of an overlay the command was to release,    *)
(* and a rebase keeps all instances (compare the runs release_races and    *)
(* rebase_races_apply).                                                    *)
(***************************************************************************)

Releasers == {"abandon", "abandon keep", "finalize"}

Steps(p) ==
    \/ Create(p) \/ Apply(p) \/ Rebase(p) \/ Merge(p) \/ Undo(p)
    \/ Abandon(p) \/ Finalize(p) \/ Stop(p)

Gated ==
    \A p \in Running : proc[p].cmd \in Releasers =>
        Entered /\ EffectiveStatus \in Releasable(proc[p].cmd)

LEMMA GatedKept ==
    ASSUME NEW cmd \in Releasers, Entered, EffectiveStatus \in Releasable(cmd),
           doc' = doc, expired \subseteq expired'
    PROVE  Entered' /\ EffectiveStatus' \in Releasable(cmd)
<1>1. UNCHANGED <<Entered, TheEntry, Status>>
  BY EntryKept
<1>2. "applying" \notin Releasable(cmd)
  BY DEF Releasers, Releasable
<1>3. EffectiveStatus' = EffectiveStatus
  BY <1>1, <1>2 DEF EffectiveStatus, StaleApplying
<1>4. QED  BY <1>1, <1>3

\* One command at a time: who steps runs already, or begins as the only one.
LEMMA WhoSteps ==
    ASSUME Concurrent = 1, Typed, Sequential, NEW p \in Procs, Steps(p)
    PROVE  Running \subseteq {p}
<1> USE DEF Begin, BeginLoaded, At, Running
<1>1. CASE Create(p)
  <2>1. p \in Running \/ Cardinality(Running) < Concurrent
    BY <1>1 DEF Create, CreateLoad, CreateRegister, CreatePull, CreatePush, CreateReadBack,
                CreateFlip
  <2>2. QED  BY <2>1, NobodyRuns DEF Sequential, Alone
<1>2. CASE Apply(p)
  <2>1. p \in Running \/ Cardinality(Running) < Concurrent
    BY <1>2 DEF Apply, ApplyLoad, ApplyPlan, ApplyNothing, ApplyAcquire, ApplyStart, ApplyFails,
                ApplyWrite, ApplyPull, ApplyFinish
  <2>2. QED  BY <2>1, NobodyRuns DEF Sequential, Alone
<1>3. CASE Rebase(p)
  <2>1. p \in Running \/ Cardinality(Running) < Concurrent
    BY <1>3 DEF Rebase, RebaseLoad, RebaseRead, RebasePull, RebasePush, RebaseRecord
  <2>2. QED  BY <2>1, NobodyRuns DEF Sequential, Alone
<1>4. CASE Merge(p) \/ Undo(p)
  <2>1. p \in Running \/ Cardinality(Running) < Concurrent
    BY <1>4 DEF Merge, MergeLoad, MergeRead, MergeVerify, MergeFreeze, Undo, UndoLoad,
                UndoUnlink, UndoThaw
  <2>2. QED  BY <2>1, NobodyRuns DEF Sequential, Alone
<1>5. CASE Abandon(p)
  <2>1. p \in Running \/ Cardinality(Running) < Concurrent
    BY <1>5 DEF Abandon, AbandonLoad, AbandonCheck, AbandonStateRm, AbandonPlan, AbandonDestroy,
                AbandonVerify, AbandonArchive, AbandonRelease, Archive, Release
  <2>2. QED  BY <2>1, NobodyRuns DEF Sequential, Alone
<1>6. CASE Finalize(p) \/ Stop(p)
  <2>1. p \in Running \/ Cardinality(Running) < Concurrent
    BY <1>6 DEF Finalize, FinalizeLoad, FinalizeCheck, FinalizeArchive, FinalizeRelease, Archive,
                Release, Stop
  <2>2. QED  BY <2>1, NobodyRuns DEF Sequential, Alone
<1>7. QED  BY <1>1, <1>2, <1>3, <1>4, <1>5, <1>6 DEF Steps

LEMMA NobodyElse ==
    ASSUME NEW p \in Procs, NEW pc \in Resting, proc' = [proc EXCEPT ![p] = Ended(pc)], Typed
    PROVE  p \notin Running'
<1>1. Ended(pc).pc = pc
  BY EndedIs DEF Pcs
<1>2. QED  BY <1>1 DEF Typed, Running, Resting

LEMMA BegunIs ==
    ASSUME Typed, NEW p \in Procs, NEW cmd, BeginLoaded(p, cmd, "loaded")
    PROVE  proc'[p].cmd = cmd
<1> DEFINE m == [Idle EXCEPT !.cmd = cmd, !.pc = "loaded", !.entry = TheEntry,
                             !.recorded = lineage]
<1>1. proc' = [proc EXCEPT ![p] = m] /\ m.cmd = cmd
  BY DEF BeginLoaded, Begin, Idle
<1> HIDE DEF m
<1>2. QED  BY <1>1 DEF Typed

LEMMA GoneOn ==
    ASSUME Typed, NEW p \in Procs, NEW pc, Goto(p, pc)
    PROVE  proc'[p].cmd = proc[p].cmd
BY DEF Goto, Typed, Locals

\* A command that goes on stays the command it is.
LEMMA ApplyStays ==
    ASSUME Typed, NEW p \in Procs, Apply(p), p \in Running'
    PROVE  proc'[p].cmd = "apply"
<1>1. ~Return(p) /\ \A pc \in Resting : proc' # [proc EXCEPT ![p] = Ended(pc)]
  BY NobodyElse DEF Return, Resting
<1>2. CASE ApplyLoad(p)
  BY <1>2, BegunIs DEF ApplyLoad
<1>3. CASE ApplyPlan(p)
  <2>1. PICK want \in SUBSET Addresses, replaced \in SUBSET DOMAIN object.own :
           LET created == (want \ DOMAIN object.own) \cup replaced
               deleted == DOMAIN object.own \ want
           IN  proc' = [proc EXCEPT
                  ![p].pc = "planned", ![p].object = object,
                  ![p].want = want, ![p].replaced = replaced,
                  ![p].claims = PlannedClaims(TheEntry, created, deleted)]
    BY <1>3 DEF ApplyPlan
  <2>2. QED  BY <1>3, <2>1 DEF ApplyPlan, At, Typed, Locals
<1>4. CASE ApplyAcquire(p)
  BY <1>4 DEF ApplyAcquire, At, Typed, Locals
<1>5. CASE ApplyWrite(p)
  BY <1>5 DEF ApplyWrite, At, Typed, Locals
<1>6. CASE ApplyPull(p)
  BY <1>6 DEF ApplyPull, At, Typed, Locals
<1>7. CASE ApplyStart(p) \/ ApplyFails(p)
  BY <1>7, GoneOn DEF ApplyStart, ApplyFails, At
<1>8. ~ApplyNothing(p) /\ ~ApplyFinish(p)
  BY <1>1 DEF ApplyNothing, ApplyFinish, Resting
<1>9. QED  BY <1>2, <1>3, <1>4, <1>5, <1>6, <1>7, <1>8 DEF Apply

LEMMA OthersStayThemselves ==
    ASSUME Typed, NEW p \in Procs, Create(p) \/ Rebase(p) \/ Merge(p) \/ Undo(p), p \in Running'
    PROVE  proc'[p].cmd \in {"create", "rebase", "merge", "undo"}
<1>1. ~Return(p)
  BY NobodyElse DEF Return, Resting
<1>2. CASE Create(p)
  <2>1. CASE CreateLoad(p)
    <3> DEFINE m == [Idle EXCEPT !.cmd = "create", !.pc = "loaded", !.etag = base.version,
                                 !.entry = IF Entered THEN TheEntry ELSE Nil]
    <3>1. proc' = [proc EXCEPT ![p] = m] /\ m.cmd = "create"
      BY <2>1 DEF CreateLoad, Begin, Idle
    <3> HIDE DEF m
    <3>2. QED  BY <3>1 DEF Typed
  <2>2. CASE CreateRegister(p)
    BY <2>2 DEF CreateRegister, At, Typed, Locals
  <2>3. CASE CreatePull(p)
    BY <2>3 DEF CreatePull, At, Typed, Locals
  <2>4. CASE CreatePush(p)
    BY <2>4, GoneOn DEF CreatePush, At
  <2>5. CASE CreateReadBack(p)
    BY <2>5 DEF CreateReadBack, At, Typed, Locals
  <2>6. QED  BY <1>1, <1>2, <2>1, <2>2, <2>3, <2>4, <2>5 DEF Create, CreateFlip
<1>3. CASE Rebase(p)
  <2>1. CASE RebaseRead(p)
    BY <2>1 DEF RebaseRead, At, Typed, Locals
  <2>2. CASE RebasePull(p)
    BY <2>2 DEF RebasePull, At, Typed, Locals
  <2>3. QED
    BY <1>1, <1>3, <2>1, <2>2, BegunIs, GoneOn
       DEF Rebase, RebaseLoad, RebasePush, RebaseRecord, At
<1>4. CASE Merge(p)
  <2>1. CASE MergeRead(p)
    BY <2>1 DEF MergeRead, At, Typed, Locals
  <2>2. QED
    BY <1>1, <1>4, <2>1, BegunIs, GoneOn DEF Merge, MergeLoad, MergeVerify, MergeFreeze, At
<1>5. CASE Undo(p)
  BY <1>1, <1>5, BegunIs, GoneOn DEF Undo, UndoLoad, UndoUnlink, UndoThaw, At
<1>6. QED  BY <1>2, <1>3, <1>4, <1>5

\* Abandon and finalize pass the gate when they begin, and write the registry
\* only with their last step.
LEMMA ReleaserMoves ==
    ASSUME Typed, NEW p \in Procs, Steps(p), p \in Running', proc'[p].cmd \in Releasers
    PROVE  /\ UNCHANGED <<doc, expired>>
           /\ \/ p \in Running /\ proc[p].cmd = proc'[p].cmd
              \/ Gate(Releasable(proc'[p].cmd))
<1>1. ~Return(p) /\ \A pc \in Resting : proc' # [proc EXCEPT ![p] = Ended(pc)]
  BY NobodyElse DEF Return, Resting
<1>2. ~Create(p) /\ ~Apply(p) /\ ~Rebase(p) /\ ~Merge(p) /\ ~Undo(p) /\ ~Stop(p)
  BY <1>1, ApplyStays, OthersStayThemselves DEF Releasers, Stop, Resting
<1>3. CASE Abandon(p)
  <2>1. CASE AbandonLoad(p)
    <3>1. PICK cmd \in {"abandon", "abandon keep"} :
             Gate(Releasable(cmd)) /\ BeginLoaded(p, cmd, "loaded")
      BY <2>1 DEF AbandonLoad
    <3>2. proc'[p].cmd = cmd
      BY <3>1, BegunIs
    <3>3. QED  BY <2>1, <3>1, <3>2 DEF AbandonLoad, registry
  <2>2. CASE AbandonCheck(p)
    <3>1. proc'[p].cmd = proc[p].cmd
      BY <2>2 DEF AbandonCheck, Typed, Locals
    <3>2. QED  BY <2>2, <3>1 DEF AbandonCheck, Running, registry
  <2>3. CASE AbandonPlan(p)
    <3>1. proc'[p].cmd = proc[p].cmd
      BY <2>3 DEF AbandonPlan, Typed, Locals
    <3>2. QED  BY <2>3, <3>1 DEF AbandonPlan, At, Running, registry
  <2>4. CASE AbandonStateRm(p) \/ AbandonVerify(p)
    BY <2>4, GoneOn DEF AbandonStateRm, AbandonVerify, At, Running, registry
  <2>5. CASE AbandonDestroy(p)
    <3>1. At(p, "abandon", "planned") /\ Goto(p, "emptied") /\ UNCHANGED registry
      BY <1>1, <2>5 DEF AbandonDestroy, Resting
    <3>2. QED  BY <3>1, GoneOn DEF At, Running, registry
  <2>6. CASE AbandonArchive(p)
    BY <2>6, GoneOn DEF AbandonArchive, Archive, Running, registry
  <2>7. QED  BY <1>1, <1>3, <2>1, <2>2, <2>3, <2>4, <2>5, <2>6 DEF Abandon, AbandonRelease, Release
<1>4. CASE Finalize(p)
  <2>1. CASE FinalizeLoad(p)
    BY <2>1, BegunIs DEF FinalizeLoad, registry
  <2>2. CASE FinalizeCheck(p) \/ FinalizeArchive(p)
    BY <2>2, GoneOn DEF FinalizeCheck, FinalizeArchive, Archive, At, Running, registry
  <2>3. QED  BY <1>1, <1>4, <2>1, <2>2 DEF Finalize, FinalizeRelease, Release
<1>5. QED  BY <1>2, <1>3, <1>4 DEF Steps

LEMMA NextGated ==
    ASSUME Concurrent = 1, Typed, Sequential, Gated, [Next]_vars  PROVE Gated'
<1> SUFFICES ASSUME NEW q \in Running', proc'[q].cmd \in Releasers
             PROVE  Entered' /\ EffectiveStatus' \in Releasable(proc'[q].cmd)
  BY DEF Gated
<1>1. q \in Procs
  BY DEF Running
<1>2. CASE UNCHANGED vars \/ TrunkMoves \/ TrunkAdopts \/ Timeout
  <2>1. UNCHANGED <<doc, proc>> /\ expired \subseteq expired'
    BY <1>2 DEF vars, TrunkMoves, TrunkAdopts, Timeout, registry
  <2>2. Entered /\ EffectiveStatus \in Releasable(proc[q].cmd)
    BY <2>1 DEF Gated, Running
  <2>3. QED  BY <2>1, <2>2, GatedKept
<1>3. ASSUME NEW p \in Procs, Steps(p)
      PROVE  Entered' /\ EffectiveStatus' \in Releasable(proc'[q].cmd)
  <2>1. q = p
    BY <1>1, <1>3, WhoSteps, OnlyItself DEF Steps, Running
  <2>2. /\ UNCHANGED <<doc, expired>>
        /\ Entered /\ EffectiveStatus \in Releasable(proc'[q].cmd)
    BY <1>3, <2>1, ReleaserMoves DEF Gated, Gate
  <2>3. QED  BY <2>2, GatedKept
<1>4. QED  BY <1>2, <1>3 DEF Next, Steps

LEMMA AlwaysGated ==
    ASSUME Concurrent = 1
    PROVE  Spec => [](Typed /\ Sequential /\ Gated)
<1> DEFINE Inv == Typed /\ ApplyingHasRun /\ Sequential /\ Gated
<1>1. Init => Gated
  BY IdleIs DEF Init, Gated, Running
<1>2. Init => Inv
  BY <1>1, InitTyped, InitSequential DEF ApplyingHasRun, Init, EmptyDoc, Entered, Registered
<1>3. Inv /\ [Next]_vars => Inv'
  BY NextTyped, NextSequential, NextGated
<1>4. Inv => Typed /\ Sequential /\ Gated
  OBVIOUS
<1> HIDE DEF Inv
<1>5. QED  BY <1>2, <1>3, <1>4, PTL DEF Spec

\* Who changes the locals of a command.
LEMMA OwnStep ==
    ASSUME Typed, NEW p \in Procs, Next, proc'[p] # proc[p]
    PROVE  Steps(p)
<1>1. PICK q \in Procs : Steps(q)
  BY DEF Next, Steps, TrunkMoves, TrunkAdopts, Timeout
<1>2. q = p
  BY <1>1, OnlyItself DEF Steps
<1>3. QED  BY <1>1, <1>2

LEMMA StopIs == ASSUME Typed, NEW p \in Procs, Stop(p)  PROVE proc'[p].pc = "stopped"
BY EndedIs DEF Stop, Typed, Pcs, Resting

\* What abandon or finalize releases is still in a status in which they are
\* accepted, when the commands of an overlay run one after the other.
THEOREM ReleasesAreGated ==
    ASSUME Concurrent = 1
    PROVE  Spec => ReleasedAsGated
<1> DEFINE Fits == \A p \in Procs :
        (proc[p].pc = "archived" /\ proc'[p].pc = "returned" /\ Entered)
            => EffectiveStatus \in Releasable(proc[p].cmd)
<1>1. ASSUME Typed, Gated, Next, NEW p \in Procs, proc[p].pc = "archived",
             proc'[p].pc = "returned"
      PROVE  EffectiveStatus \in Releasable(proc[p].cmd)
  <2>1. Steps(p) /\ ~Stop(p)
    BY <1>1, OwnStep, StopIs
  <2>2. ~Create(p) /\ ~Apply(p) /\ ~Rebase(p) /\ ~Merge(p) /\ ~Undo(p)
    BY <1>1 DEF Create, CreateLoad, CreateRegister, CreatePull, CreatePush, CreateReadBack,
                CreateFlip, Apply, ApplyLoad, ApplyPlan, ApplyNothing, ApplyAcquire, ApplyStart,
                ApplyFails, ApplyWrite, ApplyPull, ApplyFinish, Rebase, RebaseLoad, RebaseRead,
                RebasePull, RebasePush, RebaseRecord, Merge, MergeLoad, MergeRead, MergeVerify,
                MergeFreeze, Undo, UndoLoad, UndoUnlink, UndoThaw, BeginLoaded, Begin, At
  <2>3. Abandon(p) => Abandons(p)
    BY <1>1 DEF Abandon, AbandonLoad, AbandonCheck, AbandonStateRm, AbandonPlan, AbandonDestroy,
                AbandonVerify, AbandonArchive, AbandonRelease, BeginLoaded, Begin, At
  <2>4. Finalize(p) => proc[p].cmd = "finalize"
    BY <1>1 DEF Finalize, FinalizeLoad, FinalizeCheck, FinalizeArchive, FinalizeRelease,
                BeginLoaded, Begin, At
  <2>5. p \in Running /\ proc[p].cmd \in Releasers
    BY <1>1, <2>1, <2>2, <2>3, <2>4 DEF Steps, Abandons, Releasers, Running
  <2>6. QED  BY <1>1, <2>5 DEF Gated
<1>2. Typed /\ Sequential /\ Gated /\ [Next]_vars => [Fits]_vars
  BY <1>1
<1> HIDE DEF Fits
<1>3. Spec => [][Fits]_vars
  BY <1>2, AlwaysGated, PTL DEF Spec
<1>4. QED  BY <1>3 DEF ReleasedAsGated, Fits

\* A rebase carries over every instance the overlay has created, when the
\* commands of an overlay run one after the other, however often it was
\* interrupted before.
THEOREM RebasesKeepInstances ==
    ASSUME Concurrent = 1
    PROVE  Spec => RebaseKeepsInstances
<1> DEFINE Fits == \A p \in Procs :
        (proc[p].cmd = "rebase" /\ proc[p].pc = "pulled" /\ proc'[p].pc = "pushed")
            => ObjectsOf(object.own) \subseteq ObjectsOf(object'.own)
<1>1. ASSUME Typed, Sequential, Next, NEW p \in Procs, proc[p].cmd = "rebase",
             proc[p].pc = "pulled", proc'[p].pc = "pushed"
      PROVE  ObjectsOf(object.own) \subseteq ObjectsOf(object'.own)
  <2>1. Steps(p) /\ ~Stop(p)
    BY <1>1, OwnStep, StopIs
  <2>2. ~Create(p) /\ ~Apply(p) /\ ~Merge(p) /\ ~Undo(p)
    BY <1>1 DEF Create, CreateLoad, CreateRegister, CreatePull, CreatePush, CreateReadBack,
                CreateFlip, Apply, ApplyLoad, ApplyPlan, ApplyNothing, ApplyAcquire, ApplyStart,
                ApplyFails, ApplyWrite, ApplyPull, ApplyFinish, Merge, MergeLoad, MergeRead,
                MergeVerify, MergeFreeze, Undo, UndoLoad, UndoUnlink, UndoThaw, BeginLoaded,
                Begin, At
  <2>3. ~Abandon(p) /\ ~Finalize(p)
    BY <1>1 DEF Abandon, AbandonLoad, AbandonCheck, AbandonStateRm, AbandonPlan, AbandonDestroy,
                AbandonVerify, AbandonArchive, AbandonRelease, Abandons, Finalize, FinalizeLoad,
                FinalizeCheck, FinalizeArchive, FinalizeRelease, Archive, Release, BeginLoaded,
                Begin, At
  <2>4. RebasePush(p)
    BY <1>1, <2>1, <2>2, <2>3
       DEF Steps, Rebase, RebaseLoad, RebaseRead, RebasePull, RebaseRecord, BeginLoaded, Begin, At
  <2>5. /\ p \in Running /\ RebaseFits(p) /\ Consistent
        /\ LocalsFit(proc[p]) /\ object # Nil
    BY <1>1, <2>4, ItFits, UnderWay DEF RebasePush, Pushable, CommandFits, Pcs, Resting
  <2>6. /\ object' = Rebuilt(p) /\ object = proc[p].object /\ object \in StateObject
        /\ proc[p].entry = TheEntry /\ proc[p].base \in BaseState
    BY <1>1, <2>4, <2>5, ObjectIs DEF RebasePush, RebaseFits, LocalsFit
  <2>7. DOMAIN object.own \subseteq Creates(proc[p].entry.claims)
    BY <2>5, <2>6, AllCreateIs DEF Consistent, RebaseFits
  <2>8. /\ DOMAIN object'.own = DOMAIN object.own
        /\ \A a \in DOMAIN object.own : object'.own[a] = object.own[a]
    BY <2>6, <2>7 DEF Rebuilt, Restrict, StateObject
  <2>9. QED  BY <2>8 DEF ObjectsOf
<1>2. Typed /\ Sequential /\ Gated /\ [Next]_vars => [Fits]_vars
  BY <1>1
<1> HIDE DEF Fits
<1>3. Spec => [][Fits]_vars
  BY <1>2, AlwaysGated, PTL DEF Spec
<1>4. QED  BY <1>3 DEF RebaseKeepsInstances, Fits

==============================================================================
