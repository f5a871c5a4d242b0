------------------------------ MODULE StateDoc -------------------------------
(***************************************************************************)
(* The state documents of a base and of one overlay, and the objects they  *)
(* record: fork, rebuild (inject_instances) and the destroy plan of        *)
(* abandon, while tofu writes both documents.                              *)
(*                                                                         *)
(* A document has resources, each with its provider, and instances, each   *)
(* current or deposed and written with the schema version of a provider    *)
(* release.  A deposed instance is the old object of a replacement that    *)
(* was interrupted.  An instance stands for one object outside.            *)
(*                                                                         *)
(* The commands do not overlap here (see OverlayLifecycle), the addresses  *)
(* of the base are those of the last fork or rebase, and lineages, update  *)
(* claims, merges and --keep-resources are left out.                       *)
(***************************************************************************)
EXTENDS PlanPolicy, Integers

CONSTANTS
    ResourceOf,   \* the resource of each address
    TypeOf,       \* the type of each resource
    Sorted,       \* all addresses, in the order of their names
    Providers,    \* provider configurations
    Branch,       \* addresses the branch may add
    Strays,       \* addresses where the base may keep an old object alone
    OnlyClaims,   \* whether apply is used with --only-claims
    MaxSchema,    \* bound: schema versions
    MaxBase,      \* bound: serials of the base
    MaxOverlay    \* bound: serials at which the overlay is applied

ASSUME StateDocAssumption ==
    /\ DOMAIN ResourceOf = Addresses
    /\ Sorted \in Seq(Addresses) /\ Addresses = Range(Sorted)
    /\ Branch \subseteq Addresses /\ Strays \subseteq Addresses
    /\ OnlyClaims \in BOOLEAN
    /\ {MaxSchema, MaxBase, MaxOverlay} \subseteq Nat

VARIABLES
    base,      \* the base state
    overlay,   \* the overlay state, or Nil
    entry,     \* status, claims, the base serial and addresses; or Nil
    objects    \* what exists: objects by address and id

vars == <<base, overlay, entry, objects>>

------------------------------------------------------------------------------
(* Documents *)

Schemas == 0..MaxSchema

Instance == [address: Addresses, deposed: BOOLEAN, id: Nat, schema: Schemas]

Documents ==
    [serial: Nat, provider: UNION {[R -> Providers] : R \in SUBSET Range(ResourceOf)},
     instances: SUBSET Instance]

Entries ==
    [status: {"active", "dirty"}, claims: Claims, serial: Nat, addresses: SUBSET Addresses]

ASSUME DocumentAssumption == Nil \notin Documents /\ Nil \notin Entries

Current(doc) == {i \in doc.instances : ~i.deposed}

\* index_instances, addresses: deposed instances are passed over.
Present(doc) == {i.address : i \in Current(doc)}

Objects(doc) == {<<i.address, i.id>> : i \in doc.instances}

ResourcesOf(instances) == {ResourceOf[i.address] : i \in instances}

\* A resource whose last instance goes leaves the document.
Document(serial, provider, instances) ==
    [serial |-> serial, provider |-> Restrict(provider, ResourcesOf(instances)),
     instances |-> instances]

IsDocument(doc) ==
    /\ doc \in Documents /\ DOMAIN doc.provider = ResourcesOf(doc.instances)
    /\ \A i, j \in doc.instances :
          /\ i # j /\ i.address = j.address => i.id # j.id /\ (i.deposed \/ j.deposed)

ProviderOf(doc, i) == doc.provider[ResourceOf[i.address]]

\* _max_schema_version looks at these, deposed instances included.
SchemasOf(doc, type, provider) ==
    {i.schema : i \in {j \in doc.instances :
        TypeOf[ResourceOf[j.address]] = type /\ ProviderOf(doc, j) = provider}}

\* Mutant: only the resource itself is looked at.
TooNew_PerResource(dst, i, provider) ==
    LET known == {j.schema : j \in {k \in dst.instances :
                    ResourceOf[k.address] = ResourceOf[i.address]}}
    IN  known # {} /\ i.schema > Max(known)

\* _check_schema_version
TooNew(dst, i, provider) ==
    LET known == SchemasOf(dst, TypeOf[ResourceOf[i.address]], provider)
    IN  known # {} /\ i.schema > Max(known)

\* _entry_for
Differs(dst, i, provider) ==
    ResourceOf[i.address] \in DOMAIN dst.provider /\ ProviderOf(dst, i) # provider

\* Mutant: an entry that the destination does not have is not made.
Inserted_NoEntry(dst, i, provider) == [dst EXCEPT !.instances = @ \cup {i}]

Inserted(dst, i, provider) ==
    [dst EXCEPT !.provider = Override([r \in {ResourceOf[i.address]} |-> provider], @),
                !.instances = @ \cup {i}]

\* inject_instances, for one address of src; Nil if it is refused.
Injected(src, doc, a) ==
    LET i == CHOOSE j \in Current(src) : j.address = a
        p == ProviderOf(src, i)
    IN  IF a \in Present(doc) \/ TooNew(doc, i, p) \/ Differs(doc, i, p) THEN Nil
        ELSE Inserted(doc, i, p)

\* inject_instances, for addresses of src in the order of their names.
Inject(dst, src, addresses) ==
    LET Step(doc, a) == IF doc = Nil \/ a \notin addresses THEN doc ELSE Injected(src, doc, a)
    IN  FoldLeft(Step, dst, Sorted)

BumpSerial(doc, atLeast) == [doc EXCEPT !.serial = Max({@, atLeast}) + 1]

\* _build_rebased
Rebuilt(claims, from, on) ==
    LET injected == Inject(on, from, Creates(claims) \cap Present(from))
    IN  IF injected = Nil THEN Nil ELSE BumpSerial(injected, Max({from.serial, on.serial}))

------------------------------------------------------------------------------
(* What tofu does to a document.  A new object gets an id that is not used. *)

Recorded == Objects(base) \cup (IF overlay = Nil THEN {} ELSE Objects(overlay))

Fresh(a) ==
    LET taken == objects \cup Recorded
    IN  CHOOSE n \in 0..Cardinality(taken) : <<a, n>> \notin taken

New(a, schema) == [address |-> a, deposed |-> FALSE, id |-> Fresh(a), schema |-> schema]

\* The instances that changes of a plan take away, and those they add.
Gone(doc, changes) ==
    {i \in doc.instances : \E c \in changes :
        c.action # "create" /\ c.address = i.address /\ c.deposed = i.deposed}

Come(changes, schema) ==
    {New(c.address, schema) : c \in {d \in changes : d.action \in {"create", "replace"}}}

ChangeOf(a, action, deposed) ==
    [address |-> a, from |-> Nil, deposed |-> deposed, importing |-> FALSE,
     action |-> action, differing |-> {}]

\* Deposed objects are in every plan.
Leftovers(doc) == {ChangeOf(i.address, "delete", TRUE) : i \in doc.instances \ Current(doc)}

\* The document after some changes of a plan; the old objects of those
\* replaced in left stay as deposed ones.
Applied(doc, changes, left, provider, schema) ==
    LET gone == Gone(doc, changes)
        old  == {i \in gone : ~i.deposed /\ i.address \in left}
        kept == (doc.instances \ gone) \cup Come(changes, schema)
                   \cup {[i EXCEPT !.deposed = TRUE] : i \in old}
    IN  Document(doc.serial + 1, Override([r \in ResourcesOf(kept) |-> provider], doc.provider), kept)

\* A release reads what was written by itself and by earlier ones.
Reads(schema, doc) == \A i \in doc.instances : i.schema <= schema

Replaced(changes) == {c.address : c \in {d \in changes : d.action = "replace"}}

\* What exists after doc became next.
Carried(doc, next) == (objects \ (Objects(doc) \ Objects(next))) \cup (Objects(next) \ Objects(doc))

------------------------------------------------------------------------------

Init ==
    /\ \E instances \in SUBSET [address: Addresses, deposed: {FALSE}, id: {0}, schema: Schemas],
          p \in Providers :
          base = Document(0, [r \in Range(ResourceOf) |-> p], instances)
    /\ IsDocument(base)
    /\ overlay = Nil /\ entry = Nil
    /\ objects = Objects(base)

Claimed == IF entry = Nil THEN {} ELSE Creates(entry.claims)

\* The trunk pipeline adds, replaces or removes a resource, and may leave the
\* old object behind; what the overlay creates is guarded.  Bound: an old object
\* is left alone only in Strays.
TrunkApplies ==
    /\ base.serial < MaxBase
    /\ \E provider \in Providers, schema \in Schemas, a \in Addresses :
       \E main \in {{}, {ChangeOf(a, IF a \in Present(base) THEN "replace" ELSE "create", FALSE)},
                    {ChangeOf(a, "delete", FALSE)}},
          done \in SUBSET Leftovers(base), left \in {{}, {a}} :
          /\ Reads(schema, base)
          /\ main \cup done # {}
          /\ \A c \in main : /\ c.action = "create" => a \notin Claimed
                             /\ c.action = "delete" => a \in Present(base)
          /\ main = {} => left = {}
          /\ base' = Applied(base, main \cup done, left, provider, schema)
          /\ \A i \in base'.instances : i.address \in Present(base') \cup Strays
    /\ objects' = Carried(base, base')
    /\ UNCHANGED <<overlay, entry>>

\* The trunk configures another provider for a resource.
TrunkConfigures ==
    /\ base.serial < MaxBase
    /\ \E r \in DOMAIN base.provider, p \in Providers :
          base' = [base EXCEPT !.serial = @ + 1, !.provider[r] = p]
    /\ UNCHANGED <<overlay, entry, objects>>

\* fork: a copy with serial 0.
Fork ==
    /\ entry = Nil
    /\ overlay' = [base EXCEPT !.serial = 0]
    /\ entry' = [status |-> "active", claims |-> << >>, serial |-> base.serial,
                 addresses |-> Present(base)]
    /\ UNCHANGED <<base, objects>>

\* A replacement that fails may have come as far as the deletion.
Halves(changes) == {[c EXCEPT !.action = "delete"] : c \in {d \in changes : d.action # "create"}}

\* A plan lists the deposed objects last.
InOrder(changes) ==
    SetToSeq({c \in changes : ~c.deposed}) \o SetToSeq({c \in changes : c.deposed})

\* What apply carries out: the plan, or with --only-claims, when something of
\* the base would change as well, what of it is targeted at its claims.
Chosen(plan, full) ==
    {plan} \cup
        IF OnlyClaims /\ Present(overlay) \cap entry.addresses # {}
        THEN {{c \in plan : c.address \in DOMAIN full.claims}} ELSE {}

\* A plan of the branch, judged by the policy, and what tofu makes of it.
Apply ==
    /\ entry # Nil /\ entry.serial = base.serial /\ overlay.serial < MaxOverlay
    /\ \E provider \in Providers, schema \in Schemas, a \in Addresses :
       \E main \in {{}} \cup {{ChangeOf(a, action, FALSE)} :
                        action \in IF a \in Present(overlay) THEN {"delete", "replace"}
                                   ELSE {act \in {"create"} : a \in Branch}} :
          LET plan == main \cup Leftovers(overlay)
              Judge(changes) == Evaluate(entry.claims, entry.addresses, {}, InOrder(changes))
          IN  /\ Reads(schema, overlay) /\ Judge(plan).ok
              /\ \E changes \in Chosen(plan, Judge(plan)) :
                    LET policy   == Judge(changes)
                        acquired == Override(entry.claims, policy.claims)
                        released == DOMAIN entry.claims \ DOMAIN policy.claims
                    IN  /\ changes # {} /\ policy.ok
                        /\ \/ /\ overlay' = Applied(overlay, changes, {}, provider, schema)
                              /\ entry' = [entry EXCEPT !.status = "active",
                                    !.claims = DropClaims(acquired, released \ Present(overlay'))]
                           \/ /\ \E some \in (SUBSET changes) \cup (SUBSET Halves(changes)) :
                                 \E left \in SUBSET Replaced(some) :
                                    overlay' = Applied(overlay, some, left, provider, schema)
                              /\ entry' = [entry EXCEPT !.status = "dirty", !.claims = acquired]
    /\ objects' = Carried(overlay, overlay')
    /\ UNCHANGED base

\* Mutant: an overlay whose apply failed may be rebased.
Rebasable_Dirty == entry.status \in {"active", "dirty"}

Rebasable == entry.status = "active"

Conflicts == Creates(entry.claims) \cap Present(base)

Rebase ==
    /\ entry # Nil /\ Rebasable /\ entry.serial # base.serial
    /\ Conflicts = {}
    /\ Rebuilt(entry.claims, overlay, base) # Nil
    /\ overlay' = Rebuilt(entry.claims, overlay, base)
    /\ entry' = [entry EXCEPT !.serial = base.serial, !.addresses = Present(base)]
    /\ UNCHANGED <<base, objects>>

\* Mutant: the destroy plan is not looked at.
Offenders_None(doc) == {}

\* The deletions of the destroy plan that are not of the overlay.
Offenders(doc) == {i \in doc.instances : i.address \notin Creates(entry.claims)}

\* tofu state rm takes away every object at an address.
StateRm(doc) ==
    LET others == Present(doc) \ Creates(entry.claims)
    IN  Document(doc.serial, doc.provider, {i \in doc.instances : i.address \notin others})

\* _destroy_own_resources: state rm, a destroy plan, its check, and as much of
\* it as tofu gets done; the overlay goes when nothing is left.
Abandon ==
    /\ entry # Nil /\ Conflicts = {}
    /\ LET own == StateRm(overlay)
       IN  \E gone \in IF Offenders(own) = {} THEN SUBSET own.instances ELSE {{}} :
              LET next == Document(own.serial, own.provider, own.instances \ gone)
              IN  /\ objects' = Carried(own, next)
                  /\ IF next.instances = {} /\ Offenders(own) = {}
                     THEN overlay' = Nil /\ entry' = Nil
                     ELSE overlay' = next /\ UNCHANGED entry
    /\ UNCHANGED base

Next == TrunkApplies \/ TrunkConfigures \/ Fork \/ Apply \/ Rebase \/ Abandon

Spec == Init /\ [][Next]_vars

------------------------------------------------------------------------------

TypeOK ==
    /\ IsDocument(base)
    /\ (entry = Nil) <=> (overlay = Nil)
    /\ entry # Nil =>
          /\ IsDocument(overlay) /\ entry \in Entries /\ entry.serial <= base.serial

\* Every object that exists is in one of the documents: no rebuild and no
\* interrupted apply or abandon loses one, old objects of replacements included
\* (index_instances passes over them).
NothingIsLost == objects \subseteq Recorded

\* Every object the base records exists: neither an apply nor the destroy plan
\* of an overlay, which has copies of all of them, destroys one ("so base
\* resources can never be destroyed").
BaseObjectsSurvive == Objects(base) \subseteq objects

\* No own instance is newer than all the base has of its type and provider:
\* the release that wrote the base can read what a rebuild takes over.
Readable(o) ==
    \A i \in o.instances \ base.instances :
        LET known == SchemasOf(base, TypeOf[ResourceOf[i.address]], ProviderOf(o, i))
        IN  known # {} => \E s \in known : i.schema <= s

\* A rebuilt overlay is the whole base as it is, old objects and providers
\* included, and the current objects of its create claims, which keep their
\* providers and are readable; and tofu takes it for newer than both.
RebaseMerges ==
    [][Rebase =>
        LET own == {i \in Current(overlay) : i.address \in Creates(entry.claims)}
        IN  /\ overlay'.instances = base.instances \cup own
            /\ \A i \in base.instances : ProviderOf(overlay', i) = ProviderOf(base, i)
            /\ \A i \in own : ProviderOf(overlay', i) = ProviderOf(overlay, i)
            /\ Readable(overlay')
            /\ overlay'.serial > Max({base.serial, overlay.serial})]_vars

==============================================================================
