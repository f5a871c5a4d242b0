--------------------------- MODULE StateDocProofs ----------------------------
(***************************************************************************)
(* That the state documents are documents, that no object is lost and none *)
(* of the base is destroyed, and what a rebuild makes of two documents:    *)
(* for every value of the constants, TypeOK and RebaseMerges without a     *)
(* further assumption, the others for overlays that add nothing where the  *)
(* base may keep an old object alone; and NothingIsLost for those that do  *)
(* not use apply --only-claims.                                            *)
(***************************************************************************)
EXTENDS StateDoc, PlanPolicyProofs

(* The inductive invariant. *)

\* The sets of instances and of objects are finite.
Finite ==
    /\ IsFiniteSet(objects) /\ IsFiniteSet(base.instances)
    /\ entry # Nil => IsFiniteSet(overlay.instances)

\* Where the base has an old object alone.
Straying == \A i \in base.instances : i.address \in Present(base) \cup Strays

\* What the overlay claims is what it creates, none of it in the base of its
\* last fork or rebase; and it knows the addresses of that base.
Claiming ==
    entry # Nil =>
        /\ Updates(entry.claims) = {} /\ Creates(entry.claims) \subseteq Branch
        /\ Creates(entry.claims) \cap entry.addresses = {}
        /\ entry.serial = base.serial => entry.addresses = Present(base)

\* An own object is not one of the base, not even an old one at its address.
Apart ==
    entry # Nil =>
        \A i \in Current(overlay), j \in base.instances :
            i.address \in Creates(entry.claims) /\ i.address = j.address => i.id # j.id

\* An instance of the overlay is a copy from the base, which still records the
\* object if it exists, or it is claimed, and then an old object is there only
\* after an apply that failed.
Inherited(i) ==
    /\ i.address \in entry.addresses \cup Strays
    /\ <<i.address, i.id>> \in objects => <<i.address, i.id>> \in Objects(base)

Owned(i) ==
    /\ i.address \in Creates(entry.claims)
    /\ i.deposed => entry.status = "dirty"

Accounted == entry # Nil => \A i \in overlay.instances : Inherited(i) \/ Owned(i)

------------------------------------------------------------------------------
(* Finite sets and maxima. *)

LEMMA MostIs ==
    ASSUME NEW n \in Nat, NEW s \in SUBSET (0..n), s # {}
    PROVE  Max(s) \in s /\ \A y \in s : Max(s) >= y
<1> DEFINE T == {n - y : y \in s}
<1>1. T \in SUBSET Nat /\ T # {}
  <2>1. ASSUME NEW y \in s  PROVE n - y \in Nat
    <3>1. y \in 0..n
      OBVIOUS
    <3>2. QED  BY <3>1
  <2>2. QED  BY <2>1
<1>2. PICK m \in T : \A k \in T : m <= k
  <2> HIDE DEF T
  <2> QED  BY <1>1, LeastNumber
<1>3. PICK x \in s : m = n - x
  BY <1>2
<1>4. \A y \in s : x >= y
  <2> SUFFICES ASSUME NEW y \in s  PROVE x >= y
    OBVIOUS
  <2>1. n - y \in T /\ x \in 0..n /\ y \in 0..n
    OBVIOUS
  <2>2. n - x <= n - y
    BY <1>2, <1>3, <2>1
  <2>3. QED  BY <2>1, <2>2
<1>5. QED  BY <1>4 DEF Max

LEMMA MostOfTwo ==
    ASSUME NEW x \in Nat, NEW y \in Nat
    PROVE  /\ Max({x, y}) \in Nat /\ Max({x, y}) >= x /\ Max({x, y}) >= y
           /\ Max({x, y}) \in {x, y}
<1>1. x + y \in Nat /\ {x, y} \in SUBSET (0..(x + y)) /\ {x, y} # {}
  OBVIOUS
<1>2. Max({x, y}) \in {x, y} /\ \A z \in {x, y} : Max({x, y}) >= z
  BY <1>1, MostIs
<1>3. QED  BY <1>2

LEMMA ObjectsAreFinite ==
    ASSUME NEW doc, IsFiniteSet(doc.instances)
    PROVE  IsFiniteSet(Objects(doc))
<1> DEFINE f == [i \in doc.instances |-> <<i.address, i.id>>]
<1>1. f \in Surjection(doc.instances, Objects(doc))
  BY DEF Surjection, Objects
<1>2. QED  BY <1>1, FS_Surjection

LEMMA RecordedIsFinite ==
    ASSUME Finite, (entry = Nil) <=> (overlay = Nil)
    PROVE  IsFiniteSet(objects \cup Recorded)
<1>1. IsFiniteSet(Objects(base)) /\ IsFiniteSet(objects)
  BY ObjectsAreFinite DEF Finite
<1>2. IsFiniteSet(IF overlay = Nil THEN {} ELSE Objects(overlay))
  <2>1. CASE overlay = Nil
    BY <2>1, FS_EmptySet
  <2>2. CASE overlay # Nil
    BY <2>2, ObjectsAreFinite DEF Finite
  <2>3. QED  BY <2>1, <2>2
<1>3. IsFiniteSet(Recorded)
  BY <1>1, <1>2, FS_Union DEF Recorded
<1>4. QED  BY <1>1, <1>3, FS_Union

\* There is an id that is not used.
LEMMA FreshIs ==
    ASSUME IsFiniteSet(objects \cup Recorded), NEW a
    PROVE  Fresh(a) \in Nat /\ <<a, Fresh(a)>> \notin objects \cup Recorded
<1> DEFINE taken == objects \cup Recorded
           N     == Cardinality(taken)
           f     == [n \in 0..N |-> <<a, n>>]
<1>1. N \in Nat
  BY FS_CardinalityType
<1>2. ASSUME \A n \in 0..N : <<a, n>> \in taken  PROVE FALSE
  <2> HIDE DEF taken, N
  <2>1. f \in [0..N -> taken]
    BY <1>2
  <2>2. \A x, y \in 0..N : x # y => f[x] # f[y]
    OBVIOUS
  <2>3. IsFiniteSet(0..N) /\ Cardinality(0..N) = N + 1
    BY <1>1, FS_Interval
  <2>4. N < N + 1
    BY <1>1
  <2> HIDE DEF f
  <2>5. IsFiniteSet(taken)
    BY DEF taken
  <2>6. Cardinality(taken) < Cardinality(0..N)
    BY <2>3, <2>4 DEF N
  <2>7. QED  BY <2>1, <2>2, <2>3, <2>5, <2>6, FS_PigeonHole
<1>3. PICK n \in 0..N : <<a, n>> \notin taken
  BY <1>2
<1>4. Fresh(a) \in 0..N /\ <<a, Fresh(a)>> \notin taken
  BY <1>3 DEF Fresh
<1>5. QED  BY <1>1, <1>4

------------------------------------------------------------------------------
(* Documents. *)

\* One current instance at most at an address, and an object of its own each.
Distinct(instances) ==
    \A i, j \in instances :
        i # j /\ i.address = j.address => i.id # j.id /\ (i.deposed \/ j.deposed)

Providing == UNION {[R -> Providers] : R \in SUBSET Range(ResourceOf)}

LEMMA ProvidingIs ==
    ASSUME NEW p
    PROVE  p \in Providing <=> /\ p = [r \in DOMAIN p |-> p[r]]
                               /\ DOMAIN p \subseteq Range(ResourceOf)
                               /\ \A r \in DOMAIN p : p[r] \in Providers
BY DEF Providing

LEMMA InstanceIs ==
    ASSUME NEW i \in Instance
    PROVE  /\ i.address \in Addresses /\ i.deposed \in BOOLEAN /\ i.id \in Nat /\ i.schema \in Schemas
           /\ ResourceOf[i.address] \in Range(ResourceOf)
           /\ i = [address |-> i.address, deposed |-> i.deposed, id |-> i.id, schema |-> i.schema]
BY StateDocAssumption DEF Instance, Range

LEMMA DocumentIs ==
    ASSUME NEW doc, IsDocument(doc)
    PROVE  /\ doc = [serial |-> doc.serial, provider |-> doc.provider, instances |-> doc.instances]
           /\ doc.serial \in Nat /\ doc.provider \in Providing /\ doc.instances \in SUBSET Instance
           /\ DOMAIN doc.provider = ResourcesOf(doc.instances)
           /\ Distinct(doc.instances) /\ doc # Nil
BY DocumentAssumption DEF IsDocument, Documents, Providing, Distinct

LEMMA DocumentMade ==
    ASSUME NEW serial \in Nat, NEW provider \in Providing, NEW instances \in SUBSET Instance,
           DOMAIN provider = ResourcesOf(instances), Distinct(instances)
    PROVE  IsDocument([serial |-> serial, provider |-> provider, instances |-> instances])
BY DEF IsDocument, Documents, Providing, Distinct

\* What Document makes of providers for all that it keeps.
LEMMA DocumentKeeps ==
    ASSUME NEW serial \in Nat, NEW provider, NEW instances \in SUBSET Instance,
           \A r \in ResourcesOf(instances) : provider[r] \in Providers, Distinct(instances)
    PROVE  LET doc == Document(serial, provider, instances)
           IN  /\ IsDocument(doc) /\ doc.serial = serial /\ doc.instances = instances
               /\ \A r \in ResourcesOf(instances) : doc.provider[r] = provider[r]
<1> DEFINE p == [r \in ResourcesOf(instances) |-> provider[r]]
<1>1. ResourcesOf(instances) \subseteq Range(ResourceOf)
  BY InstanceIs DEF ResourcesOf
<1>2. p \in Providing /\ DOMAIN p = ResourcesOf(instances)
  BY <1>1 DEF Providing
<1>3. Document(serial, provider, instances) = [serial |-> serial, provider |-> p, instances |-> instances]
  BY DEF Document, Restrict
<1>4. \A r \in ResourcesOf(instances) : p[r] = provider[r]
  OBVIOUS
<1> HIDE DEF p
<1>5. QED  BY <1>2, <1>3, <1>4, DocumentMade

\* Some of the instances of a document.
LEMMA DocumentOfSome ==
    ASSUME NEW doc, IsDocument(doc), NEW some \in SUBSET doc.instances
    PROVE  LET next == Document(doc.serial, doc.provider, some)
           IN  IsDocument(next) /\ next.serial = doc.serial /\ next.instances = some
<1>1. /\ doc.serial \in Nat /\ doc.provider \in Providing /\ some \in SUBSET Instance
      /\ DOMAIN doc.provider = ResourcesOf(doc.instances) /\ Distinct(some)
  BY DocumentIs DEF Distinct
<1>2. \A r \in ResourcesOf(some) : doc.provider[r] \in Providers
  BY <1>1, ProvidingIs DEF ResourcesOf
<1>3. QED  BY <1>1, <1>2, DocumentKeeps

LEMMA ObjectsAre ==
    ASSUME NEW doc, NEW x
    PROVE  x \in Objects(doc) <=> \E i \in doc.instances : x = <<i.address, i.id>>
BY DEF Objects

LEMMA PresentIs ==
    ASSUME NEW doc, NEW a
    PROVE  a \in Present(doc) <=> \E i \in doc.instances : ~i.deposed /\ i.address = a
BY DEF Present, Current

\* Within a document, an object belongs to one instance.
LEMMA ObjectIsOfOne ==
    ASSUME NEW doc, IsDocument(doc), NEW i \in doc.instances, NEW j \in doc.instances,
           <<i.address, i.id>> = <<j.address, j.id>>
    PROVE  i = j
<1>1. i.address = j.address /\ i.id = j.id
  OBVIOUS
<1>2. QED  BY <1>1, DocumentIs DEF Distinct

------------------------------------------------------------------------------
(* What tofu makes of a document. *)

\* The changes of the plans that are modelled: only current instances are
\* created or replaced, and only where there is none yet are they created.
Plain(c) ==
    /\ c \in Change /\ c.from = Nil /\ c.action \in {"create", "delete", "replace"}
    /\ c.deposed => c.action = "delete"

Feasible(doc, changes) ==
    /\ IsFiniteSet(changes)
    /\ \A c \in changes : Plain(c) /\ (c.action = "create" => c.address \notin Present(doc))

\* An instance after some changes was there before, perhaps as a current one, ...
Remains(doc, j, changes, left) ==
    \/ j \in doc.instances \ Gone(doc, changes)
    \/ /\ j.deposed /\ j.address \in left
       /\ \E i \in Gone(doc, changes) : ~i.deposed /\ i.address = j.address /\ i.id = j.id

\* ... or is of a new object.
Arises(j, changes) ==
    /\ ~j.deposed /\ <<j.address, j.id>> \notin objects \cup Recorded
    /\ \E c \in changes : c.action \in {"create", "replace"} /\ c.address = j.address

LEMMA ComeIs ==
    ASSUME IsFiniteSet(objects \cup Recorded), NEW schema \in Schemas,
           NEW changes, \A c \in changes : Plain(c)
    PROVE  /\ Come(changes, schema) \in SUBSET Instance
           /\ \A j \in Come(changes, schema) : Arises(j, changes) /\ j = New(j.address, schema)
           /\ IsFiniteSet(changes) => IsFiniteSet(Come(changes, schema))
<1>1. ASSUME NEW j \in Come(changes, schema)
      PROVE  j \in Instance /\ Arises(j, changes) /\ j = New(j.address, schema)
  <2>1. PICK c \in changes : c.action \in {"create", "replace"} /\ j = New(c.address, schema)
    BY DEF Come
  <2>2. c.address \in Addresses
    BY DEF Plain, Change
  <2>3. Fresh(c.address) \in Nat /\ <<c.address, Fresh(c.address)>> \notin objects \cup Recorded
    BY FreshIs
  <2>4. j = [address |-> c.address, deposed |-> FALSE, id |-> Fresh(c.address), schema |-> schema]
    BY <2>1 DEF New
  <2>5. j.address = c.address /\ ~j.deposed /\ j.id = Fresh(c.address) /\ j \in Instance
    BY <2>2, <2>3, <2>4 DEF Instance
  <2>6. QED  BY <2>1, <2>3, <2>5 DEF Arises
<1>2. ASSUME IsFiniteSet(changes)  PROVE IsFiniteSet(Come(changes, schema))
  <2> DEFINE made == {d \in changes : d.action \in {"create", "replace"}}
             f    == [c \in made |-> New(c.address, schema)]
  <2>1. IsFiniteSet(made)
    BY <1>2, FS_Subset
  <2>2. f \in Surjection(made, Come(changes, schema))
    BY DEF Surjection, Come
  <2> HIDE DEF made, f
  <2>3. QED  BY <2>1, <2>2, FS_Surjection
<1>3. QED  BY <1>1, <1>2

\* The instances that are left, and the objects that are not.
Kept(doc, changes, left, schema) ==
    (doc.instances \ Gone(doc, changes)) \cup Come(changes, schema)
        \cup {[i EXCEPT !.deposed = TRUE] :
                i \in {k \in Gone(doc, changes) : ~k.deposed /\ k.address \in left}}

LEMMA DeposedIs ==
    ASSUME NEW i \in Instance
    PROVE  LET j == [i EXCEPT !.deposed = TRUE]
           IN  /\ j \in Instance /\ j.address = i.address /\ j.deposed /\ j.id = i.id
               /\ j.schema = i.schema
BY DEF Instance

LEMMA KeptIs ==
    ASSUME NEW doc, IsDocument(doc), IsFiniteSet(objects \cup Recorded),
           NEW changes, Feasible(doc, changes), NEW left, NEW schema \in Schemas
    PROVE  LET kept == Kept(doc, changes, left, schema)
           IN  /\ kept \in SUBSET Instance
               /\ \A j \in kept : Remains(doc, j, changes, left) \/ Arises(j, changes)
               /\ \A j \in kept : \/ j \in doc.instances \ Gone(doc, changes)
                                  \/ j \in Come(changes, schema)
                                  \/ \E i \in Gone(doc, changes) :
                                        /\ ~i.deposed /\ i.address \in left
                                        /\ j = [i EXCEPT !.deposed = TRUE]
               /\ IsFiniteSet(doc.instances) => IsFiniteSet(kept)
<1> DEFINE gone == Gone(doc, changes)
           old  == {k \in gone : ~k.deposed /\ k.address \in left}
           left1 == {[i EXCEPT !.deposed = TRUE] : i \in old}
           kept == Kept(doc, changes, left, schema)
<1>1. doc.instances \in SUBSET Instance /\ gone \subseteq doc.instances
  BY DocumentIs DEF Gone
<1>2. /\ Come(changes, schema) \in SUBSET Instance
      /\ \A j \in Come(changes, schema) : Arises(j, changes)
      /\ IsFiniteSet(Come(changes, schema))
  BY ComeIs DEF Feasible
<1>3. ASSUME NEW i \in old
      PROVE  /\ [i EXCEPT !.deposed = TRUE] \in Instance
             /\ Remains(doc, [i EXCEPT !.deposed = TRUE], changes, left)
  <2>1. i \in Instance
    BY <1>1
  <2>2. QED  BY <2>1, DeposedIs DEF Remains
<1>4. kept = (doc.instances \ gone) \cup Come(changes, schema) \cup left1
  BY DEF Kept
<1>5. kept \in SUBSET Instance
  <2> HIDE DEF gone, old, kept
  <2> QED  BY <1>1, <1>2, <1>3, <1>4
<1>6. \A j \in kept : Remains(doc, j, changes, left) \/ Arises(j, changes)
  <2>1. ASSUME NEW j \in doc.instances \ gone  PROVE Remains(doc, j, changes, left)
    BY DEF Remains
  <2> HIDE DEF gone, old, kept
  <2>2. QED  BY <1>2, <1>3, <1>4, <2>1
<1>7. \A j \in kept : \/ j \in doc.instances \ gone
                      \/ j \in Come(changes, schema)
                      \/ \E i \in gone : /\ ~i.deposed /\ i.address \in left
                                         /\ j = [i EXCEPT !.deposed = TRUE]
  <2> HIDE DEF gone, kept
  <2> QED  BY <1>4
<1>8. ASSUME IsFiniteSet(doc.instances)  PROVE IsFiniteSet(kept)
  <2> DEFINE f == [i \in old |-> [i EXCEPT !.deposed = TRUE]]
  <2>1. f \in Surjection(old, left1)
    <3> HIDE DEF old
    <3> QED  BY DEF Surjection
  <2>2. IsFiniteSet(doc.instances \ gone)
    BY <1>8, FS_Difference
  <2>3. IsFiniteSet(old)
    <3>1. old \in SUBSET doc.instances
      BY <1>1
    <3> HIDE DEF old
    <3>2. QED  BY <1>8, <3>1, FS_Subset
  <2> HIDE DEF f, old, gone, kept
  <2>4. IsFiniteSet(left1)
    <3> HIDE DEF left1
    <3> QED  BY <2>1, <2>3, FS_Surjection
  <2> HIDE DEF left1
  <2>5. IsFiniteSet((doc.instances \ gone) \cup Come(changes, schema))
    BY <1>2, <2>2, FS_Union
  <2>6. QED  BY <1>4, <2>4, <2>5, FS_Union
<1> HIDE DEF kept
<1>9. QED  BY <1>5, <1>6, <1>7, <1>8 DEF kept

LEMMA KeptIsDistinct ==
    ASSUME NEW doc, IsDocument(doc), IsFiniteSet(objects \cup Recorded),
           Objects(doc) \subseteq objects \cup Recorded,
           NEW changes, Feasible(doc, changes), NEW left, NEW schema \in Schemas
    PROVE  Distinct(Kept(doc, changes, left, schema))
<1> DEFINE gone == Gone(doc, changes)
           kept == Kept(doc, changes, left, schema)
           Whole(i, o) == o \in doc.instances \ gone /\ i = o
           Left(i, o)  == o \in gone /\ ~o.deposed /\ i = [o EXCEPT !.deposed = TRUE]
           From(i, o)  == /\ o \in doc.instances /\ o.address = i.address /\ o.id = i.id
                          /\ o.deposed => i.deposed
                          /\ Whole(i, o) \/ Left(i, o)
<1>1. doc.instances \in SUBSET Instance /\ Distinct(doc.instances) /\ gone \subseteq doc.instances
  BY DocumentIs DEF Gone
<1>2. ASSUME NEW i \in kept
      PROVE  i \in Come(changes, schema) \/ \E o \in doc.instances : From(i, o)
  <2>1. CASE i \in doc.instances \ gone
    <3>1. From(i, i)
      BY <2>1
    <3>2. QED  BY <2>1, <3>1
  <2>2. CASE \E o \in gone : /\ ~o.deposed /\ o.address \in left
                             /\ i = [o EXCEPT !.deposed = TRUE]
    <3>1. PICK o \in gone : ~o.deposed /\ i = [o EXCEPT !.deposed = TRUE]
      BY <2>2
    <3>2. o \in Instance /\ o \in doc.instances
      BY <1>1
    <3>3. i.address = o.address /\ i.id = o.id /\ i.deposed
      BY <3>1, <3>2, DeposedIs
    <3> HIDE DEF gone
    <3>4. From(i, o)
      BY <3>1, <3>2, <3>3
    <3>5. QED  BY <3>2, <3>4
  <2>3. QED
    <3> HIDE DEF From, gone
    <3>1. i \in Kept(doc, changes, left, schema)
      OBVIOUS
    <3>2. \/ i \in doc.instances \ Gone(doc, changes) \/ i \in Come(changes, schema)
          \/ \E o \in Gone(doc, changes) : /\ ~o.deposed /\ o.address \in left
                                           /\ i = [o EXCEPT !.deposed = TRUE]
      BY <3>1, KeptIs
    <3>3. QED  BY <2>1, <2>2, <3>2 DEF gone
<1>3. \A i \in Come(changes, schema) : Arises(i, changes) /\ i = New(i.address, schema)
  BY ComeIs DEF Feasible
<1> HIDE DEF kept
<1> SUFFICES ASSUME NEW i \in kept, NEW j \in kept, i # j, i.address = j.address
             PROVE  i.id # j.id /\ (i.deposed \/ j.deposed)
  BY DEF Distinct, kept
<1>4. ASSUME NEW k \in kept, NEW n \in Come(changes, schema), NEW o \in doc.instances, From(k, o),
             k.address = n.address
      PROVE  k.id # n.id /\ k.deposed
  <2>1. /\ <<n.address, n.id>> \notin objects \cup Recorded
        /\ \E c \in changes : c.action \in {"create", "replace"} /\ c.address = n.address
    BY <1>3 DEF Arises
  <2>2. <<o.address, o.id>> \in objects \cup Recorded
    BY DEF Objects
  <2>3. k.id # n.id
    BY <1>4, <2>1, <2>2
  <2>4. ASSUME ~k.deposed  PROVE FALSE
    <3>1. PICK c \in changes : c.action \in {"create", "replace"} /\ c.address = n.address
      BY <2>1
    <3>2. c \in Change /\ c.deposed \in BOOLEAN /\ ~c.deposed
      BY <3>1 DEF Feasible, Plain, Change
    <3>3. k = o /\ o \in doc.instances /\ o \notin gone
      <4>1. CASE Left(k, o)
        <5>1. o \in Instance
          BY <1>1
        <5>2. k.deposed
          BY <4>1, <5>1, DeposedIs
        <5>3. QED  BY <2>4, <5>2
      <4>2. QED
        <5> HIDE DEF gone
        <5> QED  BY <1>4, <4>1
    <3>4. o.address \in Present(doc)
      BY <2>4, <3>3, PresentIs
    <3>5. c.action # "create"
      BY <1>4, <3>1, <3>3, <3>4 DEF Feasible
    <3>6. o \in gone
      <4>1. o.deposed \in BOOLEAN
        BY <1>1, InstanceIs
      <4>2. c.deposed = o.deposed /\ c.address = o.address
        BY <1>4, <2>4, <3>1, <3>2, <3>3, <4>1
      <4>3. QED  BY <3>5, <4>2 DEF Gone
    <3>7. QED  BY <3>3, <3>6
  <2>5. QED  BY <2>3, <2>4
<1>5. CASE i \in Come(changes, schema) /\ j \in Come(changes, schema)
  BY <1>3, <1>5
<1>6. CASE i \in Come(changes, schema) /\ j \notin Come(changes, schema)
  <2>1. PICK o \in doc.instances : From(j, o)
    BY <1>2, <1>6
  <2> HIDE DEF From
  <2>2. QED  BY <1>4, <1>6, <2>1
<1>7. CASE i \notin Come(changes, schema) /\ j \in Come(changes, schema)
  <2>1. PICK o \in doc.instances : From(i, o)
    BY <1>2, <1>7
  <2> HIDE DEF From
  <2>2. QED  BY <1>4, <1>7, <2>1
<1>8. CASE i \notin Come(changes, schema) /\ j \notin Come(changes, schema)
  <2>1. PICK o \in doc.instances : From(i, o)
    BY <1>2, <1>8
  <2>2. PICK u \in doc.instances : From(j, u)
    BY <1>2, <1>8
  <2> HIDE DEF gone
  <2>3. o # u
    BY <2>1, <2>2
  <2>4. o.id # u.id /\ (o.deposed \/ u.deposed)
    BY <1>1, <2>1, <2>2, <2>3 DEF Distinct
  <2>5. QED  BY <2>1, <2>2, <2>4
<1>9. QED  BY <1>5, <1>6, <1>7, <1>8

\* A document after some changes is a document, of the instances that remain
\* and of new ones.
LEMMA AppliedIs ==
    ASSUME NEW doc, IsDocument(doc), IsFiniteSet(objects \cup Recorded),
           Objects(doc) \subseteq objects \cup Recorded,
           NEW changes, Feasible(doc, changes), NEW left,
           NEW provider \in Providers, NEW schema \in Schemas
    PROVE  LET next == Applied(doc, changes, left, provider, schema)
           IN  /\ IsDocument(next) /\ next.serial = doc.serial + 1
               /\ next.instances = Kept(doc, changes, left, schema)
<1> DEFINE kept == Kept(doc, changes, left, schema)
           p    == Override([r \in ResourcesOf(kept) |-> provider], doc.provider)
<1>1. Applied(doc, changes, left, provider, schema) = Document(doc.serial + 1, p, kept)
  BY DEF Applied, Kept
<1>2. kept \in SUBSET Instance /\ Distinct(kept)
  BY KeptIs, KeptIsDistinct
<1>3. doc.serial + 1 \in Nat /\ doc.provider \in Providing
  BY DocumentIs
<1> HIDE DEF kept
<1>4. \A r \in ResourcesOf(kept) : p[r] \in Providers
  BY <1>3, ProvidingIs DEF Override
<1> HIDE DEF p
<1>5. LET next == Document(doc.serial + 1, p, kept)
      IN  IsDocument(next) /\ next.serial = doc.serial + 1 /\ next.instances = kept
  BY <1>2, <1>3, <1>4, DocumentKeeps
<1>6. QED  BY <1>1, <1>5 DEF kept

------------------------------------------------------------------------------
(* Plans. *)

LEMMA LeftoversAre ==
    ASSUME NEW doc, IsDocument(doc)
    PROVE  /\ \A c \in Leftovers(doc) : /\ Plain(c) /\ c.deposed /\ c.action = "delete"
                                        /\ \E i \in doc.instances : i.deposed /\ i.address = c.address
           /\ \A i \in doc.instances :
                 i.deposed => \E c \in Leftovers(doc) : c.address = i.address
           /\ IsFiniteSet(doc.instances) => IsFiniteSet(Leftovers(doc))
<1> DEFINE old == doc.instances \ Current(doc)
           f   == [i \in old |-> ChangeOf(i.address, "delete", TRUE)]
<1>1. \A i \in old : i \in doc.instances /\ i.deposed /\ i.address \in Addresses
  BY DocumentIs, InstanceIs DEF Current
<1>2. \A i \in doc.instances : i.deposed => i \in old
  BY DEF Current
<1>3. f \in Surjection(old, Leftovers(doc))
  BY DEF Surjection, Leftovers
<1>4. IsFiniteSet(doc.instances) => IsFiniteSet(Leftovers(doc))
  <2>1. old \in SUBSET doc.instances
    OBVIOUS
  <2> HIDE DEF old, f
  <2>2. QED  BY <1>3, <2>1, FS_Subset, FS_Surjection
<1>5. Leftovers(doc) = {ChangeOf(i.address, "delete", TRUE) : i \in old}
  BY DEF Leftovers
<1> HIDE DEF old
<1>6. ASSUME NEW c \in Leftovers(doc)
      PROVE  /\ Plain(c) /\ c.deposed /\ c.action = "delete"
             /\ \E i \in doc.instances : i.deposed /\ i.address = c.address
  <2>1. PICK i \in old : c = ChangeOf(i.address, "delete", TRUE)
    BY <1>5
  <2>2. Plain(c) /\ c.deposed /\ c.action = "delete" /\ c.address = i.address
    BY <1>1, <2>1 DEF ChangeOf, Plain, Change, Actions
  <2>3. QED  BY <1>1, <2>2
<1>7. ASSUME NEW i \in doc.instances, i.deposed
      PROVE  \E c \in Leftovers(doc) : c.address = i.address
  <2>1. i \in old /\ ChangeOf(i.address, "delete", TRUE) \in Leftovers(doc)
    BY <1>2, <1>5, <1>7
  <2>2. ChangeOf(i.address, "delete", TRUE).address = i.address
    BY DEF ChangeOf
  <2>3. QED  BY <2>1, <2>2
<1>8. QED  BY <1>4, <1>6, <1>7

\* A plan for one address at most, together with deposed objects.
LEMMA PlanIs ==
    ASSUME NEW doc, IsDocument(doc), IsFiniteSet(doc.instances), NEW a \in Addresses,
           NEW main, main = {} \/ \E action \in {"create", "delete", "replace"} :
                                     /\ main = {ChangeOf(a, action, FALSE)}
                                     /\ action = "create" => a \notin Present(doc),
           NEW done \in SUBSET Leftovers(doc)
    PROVE  /\ Feasible(doc, main \cup done)
           /\ \A c \in main : Plain(c) /\ ~c.deposed /\ c.address = a
<1>1. IsFiniteSet(main)
  <2>1. CASE main = {}
    BY <2>1, FS_EmptySet
  <2>2. CASE main # {}
    <3>1. PICK action : main = {ChangeOf(a, action, FALSE)}
      BY <2>2
    <3>2. QED  BY <3>1, FS_Singleton
  <2>3. QED  BY <2>1, <2>2
<1>2. \A c \in main : /\ Plain(c) /\ ~c.deposed /\ c.address = a
                      /\ c.action = "create" => a \notin Present(doc)
  <2> SUFFICES ASSUME NEW c \in main
               PROVE  /\ Plain(c) /\ ~c.deposed /\ c.address = a
                      /\ c.action = "create" => a \notin Present(doc)
    OBVIOUS
  <2>1. PICK action \in {"create", "delete", "replace"} :
           c = ChangeOf(a, action, FALSE) /\ (action = "create" => a \notin Present(doc))
    OBVIOUS
  <2>2. c = [address |-> a, from |-> Nil, deposed |-> FALSE, importing |-> FALSE,
             action |-> action, differing |-> {}]
    BY <2>1 DEF ChangeOf
  <2>3. /\ c.address = a /\ c.from = Nil /\ ~c.deposed /\ c.action = action
        /\ c \in Change
    BY <2>2 DEF Change, Actions
  <2>4. QED  BY <2>1, <2>3 DEF Plain
<1>3. \A c \in done : Plain(c) /\ c.action = "delete"
  BY LeftoversAre
<1>4. IsFiniteSet(done)
  BY LeftoversAre, FS_Subset
<1>5. IsFiniteSet(main \cup done)
  BY <1>1, <1>4, FS_Union
<1>6. QED  BY <1>2, <1>3, <1>5 DEF Feasible

------------------------------------------------------------------------------
(* The invariant holds of initial states. *)

IInv == TypeOK /\ Finite /\ Straying /\ Claiming /\ Apart

LEMMA NilIsNoDocument ==
    \A doc : (IsDocument(doc) => doc # Nil) /\ (doc \in Entries => doc # Nil)
BY DocumentAssumption DEF IsDocument

LEMMA InitEstablishes == Init => IInv
<1> SUFFICES ASSUME Init  PROVE IInv
  OBVIOUS
<1>1. PICK instances \in SUBSET [address: Addresses, deposed: {FALSE}, id: {0}, schema: Schemas],
           p \in Providers :
           base = Document(0, [r \in Range(ResourceOf) |-> p], instances)
  BY DEF Init
<1>2. IsDocument(base) /\ overlay = Nil /\ entry = Nil /\ objects = Objects(base)
  BY DEF Init
<1>3. base.instances = instances
  BY <1>1 DEF Document
<1>4. IsFiniteSet(instances)
  <2> DEFINE pairs == Addresses \X Schemas
             all   == [address: Addresses, deposed: {FALSE}, id: {0}, schema: Schemas]
             f     == [x \in pairs |-> [address |-> x[1], deposed |-> FALSE, id |-> 0, schema |-> x[2]]]
  <2>1. IsFiniteSet(pairs)
    <3>1. IsFiniteSet(Addresses)
      BY PolicyAssumption
    <3>2. IsFiniteSet(Schemas)
      <4>1. 0 \in Int /\ MaxSchema \in Int
        BY StateDocAssumption
      <4>2. QED  BY <4>1, FS_Interval DEF Schemas
    <3>3. QED  BY <3>1, <3>2, FS_Product
  <2>2. f \in [pairs -> all]
    OBVIOUS
  <2>3. ASSUME NEW i \in all  PROVE \E x \in pairs : f[x] = i
    <3>1. <<i.address, i.schema>> \in pairs
      OBVIOUS
    <3>2. f[<<i.address, i.schema>>] = i
      BY <3>1
    <3>3. QED  BY <3>1, <3>2
  <2>4. f \in Surjection(pairs, all)
    BY <2>2, <2>3 DEF Surjection
  <2>5. IsFiniteSet(all)
    <3> HIDE DEF f, pairs, all
    <3> QED  BY <2>1, <2>4, FS_Surjection
  <2>6. QED  BY <2>5, FS_Subset
<1>5. \A i \in base.instances : ~i.deposed
  BY <1>3
<1>6. TypeOK
  BY <1>2 DEF TypeOK
<1>7. Finite
  BY <1>2, <1>3, <1>4, ObjectsAreFinite DEF Finite
<1>8. Straying
  BY <1>5 DEF Straying, Present, Current
<1>9. Claiming /\ Apart
  BY <1>2 DEF Claiming, Apart
<1>10. QED  BY <1>6, <1>7, <1>8, <1>9 DEF IInv

------------------------------------------------------------------------------
(* Every step keeps it: the pipeline of the trunk, and fork. *)

LEMMA EntryIs ==
    ASSUME NEW e \in Entries
    PROVE  /\ e.status \in {"active", "dirty"} /\ e.claims \in Claims /\ e.serial \in Nat
           /\ e.addresses \in SUBSET Addresses
           /\ e = [status |-> e.status, claims |-> e.claims, serial |-> e.serial,
                   addresses |-> e.addresses]
BY DEF Entries

LEMMA TakenIsFinite ==
    ASSUME IInv
    PROVE  /\ IsFiniteSet(objects \cup Recorded)
           /\ Objects(base) \subseteq objects \cup Recorded
           /\ entry # Nil => Objects(overlay) \subseteq objects \cup Recorded
BY RecordedIsFinite DEF IInv, TypeOK, Recorded

LEMMA CarriedIsFinite ==
    ASSUME IsFiniteSet(objects), NEW doc, NEW next, IsFiniteSet(next.instances)
    PROVE  IsFiniteSet(Carried(doc, next))
<1>1. IsFiniteSet(Objects(next) \ Objects(doc))
  BY ObjectsAreFinite, FS_Difference
<1>2. IsFiniteSet(objects \ (Objects(doc) \ Objects(next)))
  BY FS_Difference
<1>3. QED  BY <1>1, <1>2, FS_Union DEF Carried

\* What is recorded after some changes was recorded before or is new.
LEMMA AppliedRecords ==
    ASSUME NEW doc, IsDocument(doc), IsFiniteSet(doc.instances), IsFiniteSet(objects \cup Recorded),
           Objects(doc) \subseteq objects \cup Recorded,
           NEW changes, Feasible(doc, changes), NEW left,
           NEW provider \in Providers, NEW schema \in Schemas
    PROVE  LET next == Applied(doc, changes, left, provider, schema)
           IN  /\ IsDocument(next) /\ next.serial = doc.serial + 1
               /\ IsFiniteSet(next.instances)
               /\ doc.instances \ Gone(doc, changes) \subseteq next.instances
               /\ \A j \in next.instances : Remains(doc, j, changes, left) \/ Arises(j, changes)
               /\ \A j \in next.instances : \/ \E i \in doc.instances :
                                                  /\ i.address = j.address /\ i.id = j.id
                                                  /\ i.deposed => j.deposed
                                            \/ Arises(j, changes)
<1> DEFINE next == Applied(doc, changes, left, provider, schema)
<1>1. /\ IsDocument(next) /\ next.serial = doc.serial + 1
      /\ next.instances = Kept(doc, changes, left, schema)
  BY AppliedIs
<1> HIDE DEF next
<1>2. /\ IsFiniteSet(next.instances)
      /\ \A j \in next.instances : Remains(doc, j, changes, left) \/ Arises(j, changes)
  BY <1>1, KeptIs
<1>3. doc.instances \ Gone(doc, changes) \subseteq next.instances
  BY <1>1 DEF Kept
<1>4. ASSUME NEW j, Remains(doc, j, changes, left)
      PROVE  \E i \in doc.instances :
                /\ i.address = j.address /\ i.id = j.id
                /\ i.deposed => j.deposed
  BY <1>4 DEF Remains, Gone
<1>5. QED  BY <1>1, <1>2, <1>3, <1>4 DEF next

LEMMA TrunkAppliesIs ==
    ASSUME IInv, TrunkApplies
    PROVE  /\ IsDocument(base') /\ base'.serial = base.serial + 1
           /\ IsFiniteSet(base'.instances)
           /\ \A j \in base'.instances : \/ <<j.address, j.id>> \in Objects(base)
                                         \/ <<j.address, j.id>> \notin objects \cup Recorded
           /\ \A i \in base'.instances : i.address \in Present(base') \cup Strays
           /\ objects' = Carried(base, base')
<1>1. PICK provider \in Providers, schema \in Schemas, a \in Addresses :
      \E main \in {{}, {ChangeOf(a, IF a \in Present(base) THEN "replace" ELSE "create", FALSE)},
                   {ChangeOf(a, "delete", FALSE)}},
         done \in SUBSET Leftovers(base), left \in {{}, {a}} :
         /\ Reads(schema, base)
         /\ main \cup done # {}
         /\ \A c \in main : /\ c.action = "create" => a \notin Claimed
                            /\ c.action = "delete" => a \in Present(base)
         /\ main = {} => left = {}
         /\ base' = Applied(base, main \cup done, left, provider, schema)
         /\ \A i \in base'.instances : i.address \in Present(base') \cup Strays
  BY DEF TrunkApplies
<1>2. PICK main \in {{}, {ChangeOf(a, IF a \in Present(base) THEN "replace" ELSE "create", FALSE)},
                     {ChangeOf(a, "delete", FALSE)}},
           done \in SUBSET Leftovers(base), left \in {{}, {a}} :
           base' = Applied(base, main \cup done, left, provider, schema)
  BY <1>1
<1>3. IsDocument(base) /\ IsFiniteSet(base.instances)
  BY DEF IInv, TypeOK, Finite
<1>4. Feasible(base, main \cup done)
  <2>1. main = {} \/ \E action \in {"create", "delete", "replace"} :
                        /\ main = {ChangeOf(a, action, FALSE)}
                        /\ action = "create" => a \notin Present(base)
    OBVIOUS
  <2>2. QED  BY <1>3, <2>1, PlanIs
<1> DEFINE next == Applied(base, main \cup done, left, provider, schema)
<1>5. /\ IsDocument(next) /\ next.serial = base.serial + 1
      /\ IsFiniteSet(next.instances)
      /\ \A j \in next.instances : \/ \E i \in base.instances :
                                         /\ i.address = j.address /\ i.id = j.id
                                         /\ i.deposed => j.deposed
                                   \/ Arises(j, main \cup done)
  <2>1. IsFiniteSet(objects \cup Recorded) /\ Objects(base) \subseteq objects \cup Recorded
    BY TakenIsFinite
  <2>2. /\ IsDocument(next) /\ next.serial = base.serial + 1
        /\ IsFiniteSet(next.instances)
        /\ base.instances \ Gone(base, main \cup done) \subseteq next.instances
        /\ \A j \in next.instances : Remains(base, j, main \cup done, left) \/ Arises(j, main \cup done)
        /\ \A j \in next.instances : \/ \E i \in base.instances :
                                           /\ i.address = j.address /\ i.id = j.id
                                           /\ i.deposed => j.deposed
                                     \/ Arises(j, main \cup done)
    BY <1>3, <1>4, <2>1, AppliedRecords
  <2> HIDE DEF next
  <2>3. QED  BY <2>2
<1>6. next = base'
  BY <1>2
<1> HIDE DEF next
<1>7. \A j \in base'.instances : \/ <<j.address, j.id>> \in Objects(base)
                                 \/ <<j.address, j.id>> \notin objects \cup Recorded
  BY <1>5, <1>6, ObjectsAre DEF Arises
<1>8. /\ \A i \in base'.instances : i.address \in Present(base') \cup Strays
      /\ objects' = Carried(base, base')
  BY DEF TrunkApplies
<1>9. QED  BY <1>5, <1>6, <1>7, <1>8

LEMMA TrunkAppliesKeeps ==
    ASSUME IInv, TrunkApplies
    PROVE  IInv'
<1>1. /\ IsDocument(base') /\ base'.serial = base.serial + 1
      /\ IsFiniteSet(base'.instances)
      /\ \A j \in base'.instances : \/ <<j.address, j.id>> \in Objects(base)
                                    \/ <<j.address, j.id>> \notin objects \cup Recorded
      /\ \A i \in base'.instances : i.address \in Present(base') \cup Strays
      /\ objects' = Carried(base, base')
  BY TrunkAppliesIs
<1>2. overlay' = overlay /\ entry' = entry
  BY DEF TrunkApplies
<1>3. base.serial \in Nat
  BY DocumentIs DEF IInv, TypeOK
<1>4. TypeOK'
  BY <1>1, <1>2, <1>3, EntryIs DEF IInv, TypeOK
<1>5. Finite'
  BY <1>1, <1>2, CarriedIsFinite DEF IInv, Finite
<1>6. Straying'
  BY <1>1 DEF Straying
<1>7. Claiming'
  BY <1>1, <1>2, <1>3, EntryIs DEF IInv, TypeOK, Claiming
<1>8. Apart'
  <2> SUFFICES ASSUME entry # Nil, NEW i \in Current(overlay), NEW j \in base'.instances,
                      i.address \in Creates(entry.claims), i.address = j.address, i.id = j.id
               PROVE  FALSE
    BY <1>2 DEF Apart
  <2>1. <<j.address, j.id>> \in Objects(overlay)
    BY ObjectsAre DEF Current
  <2>2. PICK k \in base.instances : <<j.address, j.id>> = <<k.address, k.id>>
    BY <1>1, <2>1, TakenIsFinite, ObjectsAre
  <2>3. QED  BY <2>2 DEF IInv, Apart
<1>9. QED  BY <1>4, <1>5, <1>6, <1>7, <1>8 DEF IInv

LEMMA TrunkConfiguresKeeps ==
    ASSUME IInv, TrunkConfigures
    PROVE  IInv'
<1>1. PICK r \in DOMAIN base.provider, p \in Providers :
         base' = [base EXCEPT !.serial = @ + 1, !.provider[r] = p]
  BY DEF TrunkConfigures
<1>2. overlay' = overlay /\ entry' = entry /\ objects' = objects
  BY DEF TrunkConfigures
<1>3. /\ base = [serial |-> base.serial, provider |-> base.provider, instances |-> base.instances]
      /\ base.serial \in Nat /\ base.provider \in Providing /\ base.instances \in SUBSET Instance
      /\ DOMAIN base.provider = ResourcesOf(base.instances) /\ Distinct(base.instances)
  BY DocumentIs DEF IInv, TypeOK
<1> DEFINE provider == [base.provider EXCEPT ![r] = p]
<1>4. provider \in Providing /\ DOMAIN provider = DOMAIN base.provider
  BY <1>3, ProvidingIs
<1>5. base' = [serial |-> base.serial + 1, provider |-> provider, instances |-> base.instances]
  BY <1>1, <1>3
<1> HIDE DEF provider
<1>6. IsDocument(base')
  BY <1>3, <1>4, <1>5, DocumentMade
<1>7. base'.serial = base.serial + 1 /\ base'.instances = base.instances
  BY <1>5
<1>8. TypeOK'
  BY <1>2, <1>3, <1>6, <1>7, EntryIs DEF IInv, TypeOK
<1>9. Finite'
  BY <1>2, <1>7 DEF IInv, Finite
<1>10. Straying'
  BY <1>7 DEF IInv, Straying, Present, Current
<1>11. Claiming'
  BY <1>2, <1>3, <1>7, EntryIs DEF IInv, TypeOK, Claiming
<1>12. Apart'
  BY <1>2, <1>7 DEF IInv, Apart
<1>13. QED  BY <1>8, <1>9, <1>10, <1>11, <1>12 DEF IInv

LEMMA NoClaimsAre == << >> \in Claims /\ Creates(<< >>) = {} /\ Updates(<< >>) = {}
<1>1. DOMAIN << >> = {}
  OBVIOUS
<1>2. << >> = [a \in {} |-> Nil]
  BY <1>1
<1>3. << >> \in Claims
  BY <1>1, <1>2, ClaimsAre
<1>4. QED  BY <1>1, <1>3 DEF Creates, Updates

LEMMA ForkKeeps ==
    ASSUME IInv, Fork
    PROVE  IInv'
<1>1. /\ overlay' = [base EXCEPT !.serial = 0] /\ base' = base /\ objects' = objects
      /\ entry' = [status |-> "active", claims |-> << >>, serial |-> base.serial,
                   addresses |-> Present(base)]
  BY DEF Fork
<1>2. /\ base = [serial |-> base.serial, provider |-> base.provider, instances |-> base.instances]
      /\ base.serial \in Nat /\ base.provider \in Providing /\ base.instances \in SUBSET Instance
      /\ DOMAIN base.provider = ResourcesOf(base.instances) /\ Distinct(base.instances)
  BY DocumentIs DEF IInv, TypeOK
<1>3. overlay' = [serial |-> 0, provider |-> base.provider, instances |-> base.instances]
  BY <1>1, <1>2
<1>4. IsDocument(overlay')
  BY <1>2, <1>3, DocumentMade
<1>5. entry' \in Entries
  <2>1. Present(base) \in SUBSET Addresses
    BY <1>2, PresentIs, InstanceIs
  <2>2. QED  BY <1>1, <1>2, <2>1, NoClaimsAre DEF Entries
<1>6. entry' # Nil /\ overlay' # Nil
  BY <1>4, <1>5, NilIsNoDocument
<1>7. /\ overlay'.instances = base.instances /\ entry'.claims = << >>
      /\ entry'.serial = base.serial /\ entry'.addresses = Present(base)
  BY <1>1, <1>3
<1>8. TypeOK'
  BY <1>1, <1>2, <1>4, <1>5, <1>6, <1>7 DEF IInv, TypeOK
<1>9. Finite'
  BY <1>1, <1>7 DEF IInv, Finite
<1>10. Straying'
  BY <1>1 DEF IInv, Straying
<1>11. Claiming'
  BY <1>1, <1>7, NoClaimsAre DEF Claiming
<1>12. Apart'
  BY <1>7, NoClaimsAre DEF Apart
<1>13. QED  BY <1>8, <1>9, <1>10, <1>11, <1>12 DEF IInv

------------------------------------------------------------------------------
(* What evaluate says of such plans. *)

\* The order that apply visits a plan in is an order of its changes.
LEMMA SetToSeqIs ==
    ASSUME NEW S, IsFiniteSet(S)
    PROVE  /\ Cardinality(S) \in Nat /\ SetToSeq(S) \in [1..Cardinality(S) -> S]
           /\ \A i, j \in 1..Cardinality(S) : i # j => SetToSeq(S)[i] # SetToSeq(S)[j]
<1> DEFINE n == Cardinality(S)
<1>1. n \in Nat
  BY FS_CardinalityType
<1>2. ExistsBijection(1..n, S)
  BY FS_CardinalityType
<1>3. PICK f : f \in Bijection(1..n, S)
  BY <1>2 DEF ExistsBijection
<1>4. f \in [1..n -> S] /\ IsInjective(f)
  BY <1>3 DEF Bijection, Injection, IsInjective
<1>5. SetToSeq(S) \in [1..n -> S] /\ IsInjective(SetToSeq(S))
  <2> HIDE DEF n
  <2>1. SetToSeq(S) = CHOOSE g \in [1..n -> S] : IsInjective(g)
    BY DEF SetToSeq, n
  <2>2. QED  BY <1>4, <2>1
<1> HIDE DEF n
<1>6. QED  BY <1>1, <1>5 DEF IsInjective, n

LEMMA InOrderIs ==
    ASSUME NEW changes, IsFiniteSet(changes)
    PROVE  InOrder(changes) \in SetToSeqs(changes)
<1> DEFINE S == {c \in changes : ~c.deposed}
           T == {c \in changes : c.deposed}
           m == Cardinality(S)
           n == Cardinality(T)
           f == SetToSeq(S)
           g == SetToSeq(T)
<1>1. /\ IsFiniteSet(S) /\ IsFiniteSet(T) /\ S \cap T = {} /\ S \cup T = changes
      /\ S \subseteq changes /\ T \subseteq changes
  <2>1. S \in SUBSET changes /\ T \in SUBSET changes
    OBVIOUS
  <2>2. IsFiniteSet(S) /\ IsFiniteSet(T)
    <3> HIDE DEF S, T
    <3> QED  BY <2>1, FS_Subset
  <2>3. S \cap T = {} /\ S \cup T = changes
    OBVIOUS
  <2>4. QED  BY <2>1, <2>2, <2>3
<1>2. InOrder(changes) = f \o g
  BY DEF InOrder
<1> HIDE DEF S, T
<1>3. /\ m \in Nat /\ f \in [1..m -> S]
      /\ \A i, j \in 1..m : i # j => f[i] # f[j]
  BY <1>1, SetToSeqIs
<1>4. /\ n \in Nat /\ g \in [1..n -> T]
      /\ \A i, j \in 1..n : i # j => g[i] # g[j]
  BY <1>1, SetToSeqIs
<1>5. Cardinality(changes) = m + n
  <2>1. Cardinality(S \cup T) = Cardinality(S) + Cardinality(T) - Cardinality(S \cap T)
    BY <1>1, FS_Union
  <2>2. Cardinality(S \cap T) = 0
    BY <1>1, FS_EmptySet
  <2>3. Cardinality(S \cup T) = Cardinality(changes)
    BY <1>1
  <2>4. m \in Nat /\ n \in Nat
    BY <1>3, <1>4
  <2>5. Cardinality(changes) = m + n - 0
    BY <2>1, <2>2, <2>3
  <2> HIDE DEF m, n
  <2>6. QED  BY <2>4, <2>5
<1> HIDE DEF f, g, m, n
<1>6. Len(f) = m /\ Len(g) = n /\ f \in Seq(changes) /\ g \in Seq(changes)
  BY <1>1, <1>3, <1>4
<1> DEFINE h == f \o g
<1>7. /\ h \in [1..(m + n) -> changes]
      /\ \A i \in 1..m : h[i] = f[i]
      /\ \A i \in (m + 1)..(m + n) : h[i] = g[i - m]
  <2>1. h \in Seq(changes) /\ Len(h) = m + n
    BY <1>6
  <2>2. \A i \in 1..(m + n) : h[i] = IF i <= m THEN f[i] ELSE g[i - m]
    BY <1>6, <2>1
  <2> HIDE DEF h
  <2>3. h \in [1..(m + n) -> changes]
    BY <2>1
  <2>4. QED  BY <1>3, <1>4, <2>2, <2>3
<1> HIDE DEF h
<1>8. ASSUME NEW i \in 1..(m + n), NEW j \in 1..(m + n), i # j
      PROVE  h[i] # h[j]
  <2>1. CASE i \in 1..m /\ j \in 1..m
    BY <1>3, <1>7, <1>8, <2>1
  <2>2. CASE i \in 1..m /\ j \notin 1..m
    <3>1. j \in (m + 1)..(m + n) /\ j - m \in 1..n
      BY <1>3, <1>4, <2>2
    <3>2. h[i] \in S /\ h[j] \in T
      BY <1>3, <1>4, <1>7, <2>2, <3>1
    <3>3. QED  BY <1>1, <3>2
  <2>3. CASE i \notin 1..m /\ j \in 1..m
    <3>1. i \in (m + 1)..(m + n) /\ i - m \in 1..n
      BY <1>3, <1>4, <2>3
    <3>2. h[j] \in S /\ h[i] \in T
      BY <1>3, <1>4, <1>7, <2>3, <3>1
    <3>3. QED  BY <1>1, <3>2
  <2>4. CASE i \notin 1..m /\ j \notin 1..m
    <3>1. /\ i \in (m + 1)..(m + n) /\ i - m \in 1..n
          /\ j \in (m + 1)..(m + n) /\ j - m \in 1..n /\ i - m # j - m
      BY <1>3, <1>4, <1>8, <2>4
    <3>2. QED  BY <1>4, <1>7, <3>1
  <2>5. QED  BY <2>1, <2>2, <2>3, <2>4
<1>9. h \in SetToSeqs(changes)
  BY <1>5, <1>7, <1>8 DEF SetToSeqs
<1>10. QED  BY <1>2, <1>9 DEF h

\* A visit of a change that moves nothing and updates nothing: what it destroys
\* is own, and what is own afterwards was so or is created.
LEMMA PlainVisitIs ==
    ASSUME NEW ev, NEW known, NEW baseline, Sound(ev, known, baseline), NEW c, Plain(c),
           Blameless(Visit(ev, c))
    PROVE  LET next == Visit(ev, c)
           IN  /\ \A a \in next.own : a \in ev.own \/ (a = c.address /\ c.action = "create")
               /\ Updates(next.claims) = Updates(ev.claims)
               /\ c.action # "create" => c.address \in ev.own
<1> DEFINE next == Visit(ev, c)
<1>1. /\ c \in Change /\ c.from = Nil /\ c.action \in {"create", "delete", "replace"}
      /\ c.address \in Addresses
  BY DEF Plain, Change
<1>2. ev \in WorkingSets /\ ev.own \subseteq Addresses /\ ev.base = known /\ ev.own \cap known = {}
  BY WorkingSetIs DEF Sound
<1>3. Moved(ev, c) = ev
  BY <1>1, <1>2, PolicyAssumption DEF Moved
<1>4. ~Blameless(Violation(ev, c))
  BY <1>1, ViolationIs
<1>5. next = VisitActions(ev, c)
  BY <1>3, <1>4 DEF Visit
<1> HIDE DEF next
<1>6. Blameless(next)
  BY DEF next
<1>7. CASE c.action = "create"
  <2>1. next = VisitCreate(ev, c)
    BY <1>5, <1>7 DEF VisitActions
  <2>2. c.address \notin known
    BY <1>2, <1>4, <1>6, <2>1 DEF VisitCreate, IsBase
  <2>3. next.own = ev.own \cup {c.address} /\ Updates(next.claims) = Updates(ev.claims)
    BY <1>1, <2>1, <2>2, VisitCreateIs
  <2>4. QED  BY <1>7, <2>3 DEF next
<1>8. CASE c.action \in {"delete", "replace"}
  <2>1. next = VisitDestructive(ev, c)
    BY <1>5, <1>8 DEF VisitActions
  <2>2. c.address \in ev.own
    BY <1>4, <1>6, <2>1 DEF VisitDestructive, IsOwn
  <2>3. /\ next.own = IF c.action = "delete" THEN ev.own \ {c.address} ELSE ev.own
        /\ Updates(next.claims) = Updates(ev.claims)
    BY <1>1, <1>8, <2>1, <2>2, VisitDestructiveIs
  <2>4. QED  BY <1>8, <2>2, <2>3 DEF next
<1>9. QED  BY <1>1, <1>7, <1>8

Created(changes) == {c.address : c \in {d \in changes : d.action = "create"}}

\* Of an accepted plan: it destroys nothing but what is claimed or what it
\* creates itself, and its claims are among these.
LEMMA PlainPlanAccepted ==
    ASSUME NEW claims, NEW known, Fitting(claims, known),
           NEW changes, IsFiniteSet(changes), \A c \in changes : Plain(c),
           NEW order \in SetToSeqs(changes), Evaluate(claims, known, {}, order).ok
    PROVE  LET result == Evaluate(claims, known, {}, order)
           IN  /\ Fitting(result.claims, known)
               /\ Updates(result.claims) = Updates(claims)
               /\ Creates(result.claims) \subseteq Creates(claims) \cup Created(changes)
               /\ \A c \in changes : c.address \notin known
               /\ \A c \in changes :
                     c.action # "create" => c.address \in Creates(claims) \cup Created(changes)
               /\ \A c \in changes :
                     /\ c.action = "create"
                     /\ \A d \in changes : d.address = c.address => d.action # "delete"
                     => c.address \in Creates(result.claims)
<1> DEFINE n      == Cardinality(changes)
           result == Evaluate(claims, known, {}, order)
           start  == Working(claims, known, {})
           mine   == Creates(claims) \cup Created(changes)
<1>1. /\ n \in Nat /\ order \in [1..n -> changes]
      /\ \A c \in changes : \E i \in 1..n : order[i] = c
  BY OrderIs
<1> HIDE DEF n
<1>2. changes \in SUBSET Change /\ order \in [1..n -> Change] /\ {} \in SUBSET Addresses
  BY <1>1 DEF Plain
<1>3. /\ Fitting(result.claims, known)
      /\ \A c \in changes :
            /\ Passed(c, known)
            /\ Steady(c, changes, claims) => c.address \in Creates(result.claims)
  BY <1>2, PlanAccepted
<1>4. PICK run : IsRun(run, order, start, n) /\ FoldLeft(Visit, start, order) = run[n]
  <2> HIDE DEF start
  <2> QED  BY <1>1, FoldIsRun
<1>5. Blameless(run[n]) /\ result.claims = run[n].claims
  BY <1>4 DEF Evaluate, Blameless
<1>6. run[0] = start /\ IsRun(run, order, run[0], n) /\ Sound(run[0], known, {})
  BY <1>2, <1>4, StartIsSound DEF IsRun
<1>7. Clean(run, order, n, known) /\ \A i \in 0..n : Sound(run[i], known, {})
  <2>1. Blameless(run[n])
    BY <1>5
  <2> HIDE DEF start, result
  <2>2. QED  BY <1>1, <1>2, <1>6, <2>1, RunIsClean, RunIsSound
<1>8. start.claims = claims /\ start.own = Creates(claims)
  BY DEF Working
<1> HIDE DEF start, result
<1>9. ASSUME NEW i \in 1..n
      PROVE  /\ \A a \in run[i].own : a \in run[i - 1].own \/ a \in Created(changes)
             /\ Updates(run[i].claims) = Updates(run[i - 1].claims)
             /\ order[i].action # "create" => order[i].address \in run[i - 1].own
  <2>1. i \in 0..n /\ i - 1 \in 0..n /\ order[i] \in changes
    BY <1>1
  <2>2. /\ Sound(run[i - 1], known, {}) /\ Plain(order[i]) /\ run[i] = Visit(run[i - 1], order[i])
        /\ Blameless(run[i])
    BY <1>4, <1>7, <2>1 DEF IsRun, Clean
  <2>3. /\ \A a \in run[i].own : \/ a \in run[i - 1].own
                                 \/ a = order[i].address /\ order[i].action = "create"
        /\ Updates(run[i].claims) = Updates(run[i - 1].claims)
        /\ order[i].action # "create" => order[i].address \in run[i - 1].own
    BY <2>2, PlainVisitIs
  <2>4. QED  BY <2>1, <2>3 DEF Created
<1> DEFINE S == {i \in 0..n : run[i].own \subseteq mine /\ Updates(run[i].claims) = Updates(claims)}
<1>10. 0 \in S
  BY <1>1, <1>6, <1>8
<1>11. ASSUME NEW k \in 0..(n - 1), k \in S  PROVE k + 1 \in S
  <2>1. k + 1 \in 1..n /\ (k + 1) - 1 = k /\ k + 1 \in 0..n
    BY <1>1
  <2>2. /\ \A a \in run[k + 1].own : a \in run[k].own \/ a \in Created(changes)
        /\ Updates(run[k + 1].claims) = Updates(run[k].claims)
    BY <1>9, <2>1
  <2>3. QED  BY <1>11, <2>1, <2>2
<1>12. 0..n \subseteq S
  <2> HIDE DEF S
  <2> QED  BY <1>1, <1>10, <1>11, BoundedInduction
<1>13. /\ Updates(result.claims) = Updates(claims) /\ Creates(result.claims) \subseteq mine
  <2>1. n \in S /\ n \in 0..n
    BY <1>1, <1>12
  <2>2. Sound(run[n], known, {})
    BY <1>7, <2>1
  <2>3. QED  BY <1>5, <2>1, <2>2 DEF Sound
<1>14. ASSUME NEW c \in changes, c.action # "create"  PROVE c.address \in mine
  <2>1. PICK i \in 1..n : order[i] = c
    BY <1>1
  <2>2. i - 1 \in S
    BY <1>1, <1>12
  <2>3. QED  BY <1>9, <1>14, <2>1, <2>2
<1>15. \A c \in changes : c.address \notin known
  BY <1>3 DEF Passed, Plain
<1>16. ASSUME NEW c \in changes, c.action = "create",
              \A d \in changes : d.address = c.address => d.action # "delete"
       PROVE  c.address \in Creates(result.claims)
  <2>1. c.address # Nil /\ \A d \in changes : d.from = Nil
    BY PolicyAssumption DEF Plain, Change
  <2>2. Steady(c, changes, claims)
    BY <1>16, <2>1 DEF Steady
  <2>3. QED  BY <1>3, <2>2
<1>17. QED  BY <1>3, <1>13, <1>14, <1>15, <1>16 DEF result

------------------------------------------------------------------------------
(* apply *)

\* What tofu gets done when it fails: some changes, or the deletions of some.
LEMMA SomeIs ==
    ASSUME NEW doc, NEW changes, Feasible(doc, changes),
           NEW some \in (SUBSET changes) \cup (SUBSET Halves(changes))
    PROVE  /\ Feasible(doc, some)
           /\ \A c \in some : \/ c \in changes
                              \/ /\ c.action = "delete"
                                 /\ \E d \in changes : d.action # "create" /\ d.address = c.address
<1>1. CASE some \in SUBSET changes
  <2>1. IsFiniteSet(some)
    BY <1>1, FS_Subset DEF Feasible
  <2>2. QED  BY <1>1, <2>1 DEF Feasible
<1>2. CASE some \in SUBSET Halves(changes)
  <2> DEFINE whole == {d \in changes : d.action # "create"}
             f     == [c \in whole |-> [c EXCEPT !.action = "delete"]]
  <2>1. IsFiniteSet(whole)
    BY FS_Subset DEF Feasible
  <2>2. f \in Surjection(whole, Halves(changes))
    BY DEF Surjection, Halves
  <2>3. IsFiniteSet(some)
    <3> HIDE DEF f, whole
    <3>1. IsFiniteSet(Halves(changes))
      BY <2>1, <2>2, FS_Surjection
    <3>2. QED  BY <1>2, <3>1, FS_Subset
  <2>4. ASSUME NEW c \in some
        PROVE  /\ Plain(c) /\ c.action = "delete"
               /\ \E d \in changes : d.action # "create" /\ d.address = c.address
    <3>1. PICK d \in whole : c = [d EXCEPT !.action = "delete"]
      BY <1>2 DEF Halves
    <3>2. Plain(d) /\ d \in Change
      BY DEF Feasible, Plain
    <3>3. /\ c \in Change /\ c.action = "delete" /\ c.from = d.from /\ c.address = d.address
          /\ c.deposed = d.deposed
      BY <3>1, <3>2 DEF Change, Actions
    <3>4. QED  BY <3>2, <3>3 DEF Plain
  <2>5. QED  BY <2>3, <2>4 DEF Feasible
<1>3. QED  BY <1>1, <1>2

\* What an apply does, in the terms of the lemmas: acquired are the claims once
\* those of the plan are acquired, some is what tofu got done.
Applies(changes, some, left, acquired) ==
    /\ Feasible(overlay, changes) /\ Feasible(overlay, some)
    /\ \A c \in changes :
          /\ c.action = "create" => c.address \in Branch \ entry.addresses
          /\ c.action = "replace" => c.address \in Present(overlay)
          /\ c.action = "delete" => \E i \in overlay.instances : i.address = c.address
          /\ c.action # "create" => c.address \in Creates(entry.claims) \cup Created(changes)
          /\ c.address \notin entry.addresses
          /\ /\ c.action = "create"
             /\ \A d \in changes : d.address = c.address => d.action # "delete"
             => c.address \in Creates(acquired)
    /\ \A c \in some : \/ c \in changes
                       \/ /\ c.action = "delete"
                          /\ \E d \in changes : d.action # "create" /\ d.address = c.address
    /\ ~OnlyClaims => Leftovers(overlay) \subseteq changes
    /\ acquired \in Claims /\ Updates(acquired) = {}
    /\ Creates(entry.claims) \subseteq Creates(acquired)
    /\ Creates(acquired) \subseteq Creates(entry.claims) \cup Created(changes)
    /\ Creates(acquired) \cap entry.addresses = {}

\* What it records.
Recording(changes, some, left, acquired) ==
    /\ entry' \in Entries /\ entry'.serial = entry.serial /\ entry'.addresses = entry.addresses
    /\ Updates(entry'.claims) = {} /\ Creates(entry'.claims) \subseteq Creates(acquired)
    /\ \A x \in Creates(acquired) :
          \/ x \in Creates(entry'.claims)
          \/ x \notin Present(overlay') /\ entry'.status = "active"
    /\ entry'.status = "active" => some = changes /\ left = {}

\* What it leaves.
Leaving(some, left) ==
    /\ IsDocument(overlay') /\ IsFiniteSet(overlay'.instances)
    /\ overlay.instances \ Gone(overlay, some) \subseteq overlay'.instances
    /\ \A j \in overlay'.instances : Remains(overlay, j, some, left) \/ Arises(j, some)
    /\ base' = base /\ objects' = Carried(overlay, overlay')

\* The plan of an apply and the claims it acquires.
LEMMA AppliesIs ==
    ASSUME IInv, entry # Nil, NEW a \in Addresses,
           NEW main, main = {} \/ \E action \in {"create", "delete", "replace"} :
                                     /\ main = {ChangeOf(a, action, FALSE)}
                                     /\ IF a \in Present(overlay) THEN action # "create"
                                        ELSE action = "create" /\ a \in Branch,
           NEW changes \in SUBSET (main \cup Leftovers(overlay)),
           ~OnlyClaims => changes = main \cup Leftovers(overlay),
           Evaluate(entry.claims, entry.addresses, {}, InOrder(changes)).ok,
           NEW some \in (SUBSET changes) \cup (SUBSET Halves(changes)), NEW left
    PROVE  Applies(changes, some, left,
              Override(entry.claims, Evaluate(entry.claims, entry.addresses, {}, InOrder(changes)).claims))
<1> DEFINE policy   == Evaluate(entry.claims, entry.addresses, {}, InOrder(changes))
           acquired == Override(entry.claims, policy.claims)
<1>1. IsDocument(overlay) /\ IsFiniteSet(overlay.instances) /\ entry \in Entries
  BY DEF IInv, TypeOK, Finite
<1>2. main = {} \/ \E action \in {"create", "delete", "replace"} :
                      /\ main = {ChangeOf(a, action, FALSE)}
                      /\ action = "create" => a \notin Present(overlay)
  OBVIOUS
<1>3. /\ Feasible(overlay, main \cup Leftovers(overlay))
      /\ \A c \in main : Plain(c) /\ ~c.deposed /\ c.address = a
  BY <1>1, <1>2, PlanIs
<1>4. Feasible(overlay, changes)
  <2>1. IsFiniteSet(changes)
    BY <1>3, FS_Subset DEF Feasible
  <2>2. QED  BY <1>3, <2>1 DEF Feasible
<1>5. Fitting(entry.claims, entry.addresses)
  BY <1>1, EntryIs DEF IInv, Claiming, Fitting
<1>6. /\ Fitting(policy.claims, entry.addresses)
      /\ Updates(policy.claims) = Updates(entry.claims)
      /\ Creates(policy.claims) \subseteq Creates(entry.claims) \cup Created(changes)
      /\ \A c \in changes : c.address \notin entry.addresses
      /\ \A c \in changes :
            c.action # "create" => c.address \in Creates(entry.claims) \cup Created(changes)
      /\ \A c \in changes :
            /\ c.action = "create"
            /\ \A d \in changes : d.address = c.address => d.action # "delete"
            => c.address \in Creates(policy.claims)
  <2>1. IsFiniteSet(changes) /\ (\A c \in changes : Plain(c)) /\ InOrder(changes) \in SetToSeqs(changes)
    BY <1>4, InOrderIs DEF Feasible
  <2>2. QED  BY <1>5, <2>1, PlainPlanAccepted
<1> HIDE DEF policy
<1>7. Updates(entry.claims) = {} /\ Creates(entry.claims) \cap entry.addresses = {}
  BY DEF IInv, Claiming
<1>8. /\ acquired \in Claims
      /\ Creates(acquired) = Creates(policy.claims) \cup (Creates(entry.claims) \ Updates(policy.claims))
      /\ Updates(acquired) = Updates(policy.claims) \cup (Updates(entry.claims) \ Creates(policy.claims))
  BY <1>5, <1>6, ClaimsUnite DEF Fitting
<1> HIDE DEF acquired
<1>9. /\ Updates(acquired) = {}
      /\ Creates(acquired) = Creates(policy.claims) \cup Creates(entry.claims)
      /\ Creates(acquired) \subseteq Creates(entry.claims) \cup Created(changes)
      /\ Creates(acquired) \cap entry.addresses = {}
  BY <1>6, <1>7, <1>8 DEF Fitting
<1>10. ASSUME NEW c \in changes
       PROVE  /\ c.action = "create" => c.address \in Branch
              /\ c.action = "replace" => c.address \in Present(overlay)
              /\ c.action = "delete" => \E i \in overlay.instances : i.address = c.address
  <2>1. CASE c \in Leftovers(overlay)
    BY <1>1, <2>1, LeftoversAre
  <2>2. CASE c \notin Leftovers(overlay)
    <3>1. PICK action \in {"create", "delete", "replace"} :
             /\ c = ChangeOf(a, action, FALSE)
             /\ IF a \in Present(overlay) THEN action # "create"
                ELSE action = "create" /\ a \in Branch
      BY <2>2
    <3>2. c.address = a /\ c.action = action
      BY <3>1 DEF ChangeOf
    <3>3. QED  BY <3>1, <3>2, PresentIs
  <2>3. QED  BY <2>1, <2>2
<1>11. /\ Feasible(overlay, some)
       /\ \A c \in some : \/ c \in changes
                          \/ /\ c.action = "delete"
                             /\ \E d \in changes : d.action # "create" /\ d.address = c.address
  <2>1. some \in (SUBSET changes) \cup (SUBSET Halves(changes))
    OBVIOUS
  <2>2. QED  BY ONLY <1>4, <2>1, SomeIs
<1>12. ~OnlyClaims => Leftovers(overlay) \subseteq changes
  OBVIOUS
<1>13. Applies(changes, some, left, acquired)
  BY <1>4, <1>6, <1>8, <1>9, <1>10, <1>11, <1>12 DEF Applies
<1>14. QED  BY <1>13 DEF acquired, policy

Judged(changes) == Evaluate(entry.claims, entry.addresses, {}, InOrder(changes))

LEMMA ChosenIs ==
    ASSUME NEW plan, NEW full, NEW changes \in Chosen(plan, full)
    PROVE  changes \in SUBSET plan /\ (~OnlyClaims => changes = plan)
BY DEF Chosen

LEMMA ApplyIs ==
    ASSUME IInv, Apply
    PROVE  /\ entry # Nil /\ entry.serial = base.serial
           /\ \E changes, some, left, acquired :
                 /\ Applies(changes, some, left, acquired)
                 /\ Recording(changes, some, left, acquired) /\ Leaving(some, left)
<1>1. /\ entry # Nil /\ entry.serial = base.serial
      /\ base' = base /\ objects' = Carried(overlay, overlay')
  BY DEF Apply
<1>2. PICK provider \in Providers, schema \in Schemas, a \in Addresses :
      \E main \in {{}} \cup {{ChangeOf(a, action, FALSE)} :
                       action \in IF a \in Present(overlay) THEN {"delete", "replace"}
                                  ELSE {act \in {"create"} : a \in Branch}} :
         /\ Reads(schema, overlay) /\ Judged(main \cup Leftovers(overlay)).ok
         /\ \E changes \in Chosen(main \cup Leftovers(overlay), Judged(main \cup Leftovers(overlay))) :
            /\ changes # {} /\ Judged(changes).ok
            /\ \/ /\ overlay' = Applied(overlay, changes, {}, provider, schema)
                  /\ entry' = [entry EXCEPT !.status = "active",
                        !.claims = DropClaims(Override(entry.claims, Judged(changes).claims),
                              (DOMAIN entry.claims \ DOMAIN Judged(changes).claims)
                                  \ Present(overlay'))]
               \/ /\ \E some \in (SUBSET changes) \cup (SUBSET Halves(changes)) :
                     \E left \in SUBSET Replaced(some) :
                        overlay' = Applied(overlay, some, left, provider, schema)
                  /\ entry' = [entry EXCEPT !.status = "dirty",
                                            !.claims = Override(entry.claims, Judged(changes).claims)]
  BY DEF Apply, Judged
<1>3. PICK main \in {{}} \cup {{ChangeOf(a, action, FALSE)} :
                        action \in IF a \in Present(overlay) THEN {"delete", "replace"}
                                   ELSE {act \in {"create"} : a \in Branch}} :
      \E changes \in Chosen(main \cup Leftovers(overlay), Judged(main \cup Leftovers(overlay))) :
            /\ changes # {} /\ Judged(changes).ok
            /\ \/ /\ overlay' = Applied(overlay, changes, {}, provider, schema)
                  /\ entry' = [entry EXCEPT !.status = "active",
                        !.claims = DropClaims(Override(entry.claims, Judged(changes).claims),
                              (DOMAIN entry.claims \ DOMAIN Judged(changes).claims)
                                  \ Present(overlay'))]
               \/ /\ \E some \in (SUBSET changes) \cup (SUBSET Halves(changes)) :
                     \E left \in SUBSET Replaced(some) :
                        overlay' = Applied(overlay, some, left, provider, schema)
                  /\ entry' = [entry EXCEPT !.status = "dirty",
                                            !.claims = Override(entry.claims, Judged(changes).claims)]
  BY <1>2
<1>4. PICK changes \in Chosen(main \cup Leftovers(overlay), Judged(main \cup Leftovers(overlay))) :
            /\ changes # {} /\ Judged(changes).ok
            /\ \/ /\ overlay' = Applied(overlay, changes, {}, provider, schema)
                  /\ entry' = [entry EXCEPT !.status = "active",
                        !.claims = DropClaims(Override(entry.claims, Judged(changes).claims),
                              (DOMAIN entry.claims \ DOMAIN Judged(changes).claims)
                                  \ Present(overlay'))]
               \/ /\ \E some \in (SUBSET changes) \cup (SUBSET Halves(changes)) :
                     \E left \in SUBSET Replaced(some) :
                        overlay' = Applied(overlay, some, left, provider, schema)
                  /\ entry' = [entry EXCEPT !.status = "dirty",
                                            !.claims = Override(entry.claims, Judged(changes).claims)]
  BY <1>3
<1> DEFINE acquired == Override(entry.claims, Judged(changes).claims)
           unused   == (DOMAIN entry.claims \ DOMAIN Judged(changes).claims) \ Present(overlay')
<1>5. main = {} \/ \E action \in {"create", "delete", "replace"} :
                      /\ main = {ChangeOf(a, action, FALSE)}
                      /\ IF a \in Present(overlay) THEN action # "create"
                         ELSE action = "create" /\ a \in Branch
  OBVIOUS
<1>6. /\ changes \in SUBSET (main \cup Leftovers(overlay))
      /\ ~OnlyClaims => changes = main \cup Leftovers(overlay)
  BY ChosenIs
<1>7. ASSUME NEW some \in (SUBSET changes) \cup (SUBSET Halves(changes)), NEW left
      PROVE  Applies(changes, some, left, acquired)
  <2>1. Evaluate(entry.claims, entry.addresses, {}, InOrder(changes)).ok
    BY <1>4 DEF Judged
  <2>2. Applies(changes, some, left,
            Override(entry.claims, Evaluate(entry.claims, entry.addresses, {}, InOrder(changes)).claims))
    BY ONLY IInv, <1>1, <1>5, <1>6, <2>1, AppliesIs
  <2>3. QED  BY <2>2 DEF Judged
<1>8. ASSUME NEW some \in (SUBSET changes) \cup (SUBSET Halves(changes)), NEW left,
             overlay' = Applied(overlay, some, left, provider, schema)
      PROVE  Leaving(some, left)
  <2>1. Feasible(overlay, some)
    BY <1>7 DEF Applies
  <2>2. /\ IsDocument(overlay) /\ IsFiniteSet(overlay.instances) /\ IsFiniteSet(objects \cup Recorded)
        /\ Objects(overlay) \subseteq objects \cup Recorded
    BY <1>1, TakenIsFinite DEF IInv, TypeOK, Finite
  <2> DEFINE next == Applied(overlay, some, left, provider, schema)
  <2>3. /\ IsDocument(next) /\ next.serial = overlay.serial + 1
        /\ IsFiniteSet(next.instances)
        /\ overlay.instances \ Gone(overlay, some) \subseteq next.instances
        /\ \A j \in next.instances : Remains(overlay, j, some, left) \/ Arises(j, some)
        /\ \A j \in next.instances : \/ \E i \in overlay.instances :
                                           /\ i.address = j.address /\ i.id = j.id
                                           /\ i.deposed => j.deposed
                                     \/ Arises(j, some)
    BY ONLY <2>1, <2>2, AppliedRecords, provider \in Providers, schema \in Schemas
  <2> HIDE DEF next
  <2>4. next = overlay'
    BY <1>8 DEF next
  <2>5. QED  BY <1>1, <2>3, <2>4 DEF Leaving
<1>9. /\ entry.status \in {"active", "dirty"} /\ entry.claims \in Claims /\ entry.serial \in Nat
      /\ entry.addresses \in SUBSET Addresses
      /\ entry = [status |-> entry.status, claims |-> entry.claims, serial |-> entry.serial,
                  addresses |-> entry.addresses]
  BY <1>1, EntryIs DEF IInv, TypeOK
<1>10. changes \in (SUBSET changes) \cup (SUBSET Halves(changes))
  OBVIOUS
<1>11. acquired \in Claims /\ Updates(acquired) = {}
  <2>1. Applies(changes, changes, {}, acquired)
    BY <1>7, <1>10
  <2> HIDE DEF acquired
  <2>2. QED  BY <2>1 DEF Applies
<1> HIDE DEF acquired, unused
<1>12. CASE /\ overlay' = Applied(overlay, changes, {}, provider, schema)
            /\ entry' = [entry EXCEPT !.status = "active", !.claims = DropClaims(acquired, unused)]
  <2> DEFINE claims == DropClaims(acquired, unused)
  <2>1. /\ claims \in Claims /\ Creates(claims) = Creates(acquired) \ unused
        /\ Updates(claims) = Updates(acquired) \ unused
    BY <1>11, WithoutClaimIs
  <2>2. entry' = [status |-> "active", claims |-> claims, serial |-> entry.serial,
                  addresses |-> entry.addresses]
    BY <1>9, <1>12
  <2> HIDE DEF claims
  <2>3. \A x \in Creates(acquired) : x \in Creates(claims) \/ x \notin Present(overlay')
    BY <2>1 DEF unused
  <2>4. Recording(changes, changes, {}, acquired)
    BY <1>9, <1>11, <2>1, <2>2, <2>3 DEF Recording, Entries
  <2>5. Applies(changes, changes, {}, acquired) /\ Leaving(changes, {})
    BY <1>7, <1>8, <1>10, <1>12
  <2>6. QED  BY <1>1, <2>4, <2>5
<1>13. CASE /\ \E some \in (SUBSET changes) \cup (SUBSET Halves(changes)) :
               \E left \in SUBSET Replaced(some) :
                  overlay' = Applied(overlay, some, left, provider, schema)
            /\ entry' = [entry EXCEPT !.status = "dirty", !.claims = acquired]
  <2>0. PICK some \in (SUBSET changes) \cup (SUBSET Halves(changes)) :
             \E left \in SUBSET Replaced(some) :
                overlay' = Applied(overlay, some, left, provider, schema)
    BY <1>13
  <2>1. PICK left \in SUBSET Replaced(some) :
             overlay' = Applied(overlay, some, left, provider, schema)
    BY <2>0
  <2>2. entry' = [status |-> "dirty", claims |-> acquired, serial |-> entry.serial,
                  addresses |-> entry.addresses]
    BY <1>9, <1>13
  <2>3. Recording(changes, some, left, acquired)
    BY <1>9, <1>11, <2>2 DEF Recording, Entries
  <2>4. Applies(changes, some, left, acquired) /\ Leaving(some, left)
    BY <1>7, <1>8, <2>1
  <2>5. QED  BY <1>1, <2>3, <2>4
<1>14. QED  BY <1>4, <1>12, <1>13 DEF acquired, unused

LEMMA ApplyKeeps ==
    ASSUME IInv, Apply
    PROVE  IInv'
<1>1. /\ entry # Nil /\ entry.serial = base.serial
      /\ \E changes, some, left, acquired :
            /\ Applies(changes, some, left, acquired)
            /\ Recording(changes, some, left, acquired) /\ Leaving(some, left)
  BY ApplyIs
<1>2. PICK changes, some, left, acquired :
            /\ Applies(changes, some, left, acquired)
            /\ Recording(changes, some, left, acquired) /\ Leaving(some, left)
  BY <1>1
<1>3. /\ IsDocument(overlay') /\ IsFiniteSet(overlay'.instances)
      /\ base' = base /\ objects' = Carried(overlay, overlay')
  BY <1>2 DEF Leaving
<1>4. /\ entry' \in Entries /\ entry'.serial = entry.serial /\ entry'.addresses = entry.addresses
      /\ Updates(entry'.claims) = {} /\ Creates(entry'.claims) \subseteq Creates(acquired)
  BY <1>2 DEF Recording
<1>5. /\ Creates(acquired) \subseteq Creates(entry.claims) \cup Created(changes)
      /\ Creates(acquired) \cap entry.addresses = {}
  BY <1>2 DEF Applies
<1>6. \A x \in Created(changes) : x \in Branch /\ x \notin Present(overlay)
  BY <1>2 DEF Applies, Feasible, Created
<1>7. entry' # Nil /\ overlay' # Nil
  BY <1>3, <1>4, NilIsNoDocument
<1>8. TypeOK'
  BY <1>1, <1>3, <1>4, <1>7 DEF IInv, TypeOK
<1>9. Finite'
  BY <1>3, CarriedIsFinite DEF IInv, Finite
<1>10. Straying'
  BY <1>3 DEF IInv, Straying
<1>11. Claiming'
  BY <1>1, <1>3, <1>4, <1>5, <1>6 DEF IInv, Claiming
<1>12. Apart'
  <2> SUFFICES ASSUME NEW i \in Current(overlay'), NEW j \in base.instances,
                      i.address \in Creates(entry'.claims), i.address = j.address, i.id = j.id
               PROVE  FALSE
    BY <1>3 DEF Apart
  <2>1. ~i.deposed /\ (Remains(overlay, i, some, left) \/ Arises(i, some))
    BY <1>2 DEF Leaving, Current
  <2>2. <<i.address, i.id>> \in objects \cup Recorded
    BY ObjectsAre, TakenIsFinite
  <2>3. i \in Current(overlay)
    BY <2>1, <2>2 DEF Remains, Arises, Current
  <2>4. i.address \in Creates(entry.claims)
    BY <1>4, <1>5, <1>6, <2>3 DEF Present
  <2>5. QED  BY <1>1, <2>3, <2>4 DEF IInv, Apart
<1>13. QED  BY <1>8, <1>9, <1>10, <1>11, <1>12 DEF IInv

------------------------------------------------------------------------------
(* abandon *)

\* What it leaves of the overlay, and of the objects.
Abandons(own, next) ==
    /\ IsDocument(own) /\ IsDocument(next) /\ next.serial = overlay.serial
    /\ own.instances \subseteq overlay.instances /\ next.instances \subseteq own.instances
    /\ \A i \in overlay.instances :
          i.address \in Creates(entry.claims) => i \in own.instances
    /\ \A i \in overlay.instances \ own.instances : i.address \notin Creates(entry.claims)
    /\ next # own => \A i \in own.instances : i.address \in Creates(entry.claims)
    /\ objects' = Carried(own, next) /\ base' = base
    /\ \/ next.instances = {} /\ overlay' = Nil /\ entry' = Nil
       \/ overlay' = next /\ entry' = entry

LEMMA AbandonIs ==
    ASSUME IInv, Abandon
    PROVE  entry # Nil /\ Conflicts = {} /\ \E own, next : Abandons(own, next)
<1> DEFINE own    == StateRm(overlay)
           others == Present(overlay) \ Creates(entry.claims)
<1>1. entry # Nil /\ Conflicts = {} /\ base' = base
  BY DEF Abandon
<1>2. PICK gone \in IF Offenders(own) = {} THEN SUBSET own.instances ELSE {{}} :
         LET next == Document(own.serial, own.provider, own.instances \ gone)
         IN  /\ objects' = Carried(own, next)
             /\ IF next.instances = {} /\ Offenders(own) = {}
                THEN overlay' = Nil /\ entry' = Nil
                ELSE overlay' = next /\ UNCHANGED entry
  BY DEF Abandon
<1> DEFINE next == Document(own.serial, own.provider, own.instances \ gone)
<1>3. IsDocument(overlay)
  BY <1>1 DEF IInv, TypeOK
<1>4. /\ IsDocument(own) /\ own.serial = overlay.serial
      /\ own.instances = {i \in overlay.instances : i.address \notin others}
  <2>1. own = Document(overlay.serial, overlay.provider,
                       {i \in overlay.instances : i.address \notin others})
    BY DEF StateRm
  <2> HIDE DEF own, others
  <2>2. QED  BY <1>3, <2>1, DocumentOfSome
<1> HIDE DEF own
<1>5. IsDocument(next) /\ next.serial = own.serial /\ next.instances = own.instances \ gone
  BY <1>4, DocumentOfSome
<1>6. Offenders(own) = {} => \A i \in own.instances : i.address \in Creates(entry.claims)
  BY DEF Offenders
<1>7. ASSUME next # own  PROVE \A i \in own.instances : i.address \in Creates(entry.claims)
  <2>1. CASE Offenders(own) = {}
    BY <1>6, <2>1
  <2>2. CASE Offenders(own) # {}
    <3>1. own.instances \ gone = own.instances
      BY <1>2, <2>2
    <3>2. next = own
      <4>1. /\ own = [serial |-> own.serial, provider |-> own.provider, instances |-> own.instances]
            /\ DOMAIN own.provider = ResourcesOf(own.instances) /\ own.provider \in Providing
        BY <1>4, DocumentIs
      <4>2. own.provider = [r \in ResourcesOf(own.instances) |-> own.provider[r]]
        BY <4>1, ProvidingIs
      <4>3. next = [serial |-> own.serial,
                    provider |-> [r \in ResourcesOf(own.instances) |-> own.provider[r]],
                    instances |-> own.instances]
        BY <3>1 DEF Document, Restrict
      <4> HIDE DEF next
      <4>4. QED  BY <4>1, <4>2, <4>3
    <3>3. QED  BY <1>7, <3>2
  <2>3. QED  BY <2>1, <2>2
<1> HIDE DEF next
<1>8. /\ objects' = Carried(own, next)
      /\ \/ (next.instances = {} /\ overlay' = Nil /\ entry' = Nil)
         \/ (overlay' = next /\ entry' = entry)
  BY <1>2 DEF next
<1>9. /\ \A i \in overlay.instances :
            i.address \in Creates(entry.claims) => i \in own.instances
      /\ \A i \in overlay.instances \ own.instances : i.address \notin Creates(entry.claims)
  BY <1>4
<1>10. Abandons(own, next)
  BY <1>1, <1>4, <1>5, <1>7, <1>8, <1>9 DEF Abandons
<1>11. QED  BY <1>1, <1>10

LEMMA AbandonKeeps ==
    ASSUME IInv, Abandon
    PROVE  IInv'
<1>1. entry # Nil /\ \E own, next : Abandons(own, next)
  BY AbandonIs
<1>2. PICK own, next : Abandons(own, next)
  BY <1>1
<1>3. /\ IsDocument(next) /\ next.instances \subseteq overlay.instances
      /\ objects' = Carried(own, next) /\ base' = base
      /\ (overlay' = Nil /\ entry' = Nil) \/ (overlay' = next /\ entry' = entry)
  BY <1>2 DEF Abandons
<1>4. IsFiniteSet(next.instances)
  BY <1>1, <1>3, FS_Subset DEF IInv, Finite
<1>5. TypeOK'
  BY <1>1, <1>3, NilIsNoDocument DEF IInv, TypeOK
<1>6. Finite'
  BY <1>3, <1>4, CarriedIsFinite DEF IInv, Finite
<1>7. Straying'
  BY <1>3 DEF IInv, Straying
<1>8. Claiming'
  BY <1>1, <1>3 DEF IInv, Claiming
<1>9. Apart'
  BY <1>1, <1>3 DEF IInv, Apart, Current
<1>10. QED  BY <1>5, <1>6, <1>7, <1>8, <1>9 DEF IInv

------------------------------------------------------------------------------
(* A rebuild: the run of inject_instances along the addresses. *)

\* One address: it is passed over if it is not wanted, or all is refused.
Pass(src, wanted, doc, a) ==
    IF doc = Nil \/ a \notin wanted THEN doc ELSE Injected(src, doc, a)

\* g is the function by which FoldLeft is defined, for the first k addresses.
Passes(g, src, wanted, w, k) ==
    g = [s \in SUBSET (1..k) |->
            IF s = {} THEN w ELSE Pass(src, wanted, g[s \ {Max(s)}], Sorted[Max(s)])]

LEMMA PassesExist ==
    ASSUME NEW src, NEW wanted, NEW w, NEW n \in Nat
    PROVE  \E g : Passes(g, src, wanted, w, n)
<1> DEFINE S == {k \in Nat : \E g : Passes(g, src, wanted, w, k)}
<1>1. 0 \in S
  <2> DEFINE g == [s \in SUBSET (1..0) |-> w]
  <2>1. \A s \in SUBSET (1..0) : s = {}
    OBVIOUS
  <2>2. g = [s \in SUBSET (1..0) |-> IF s = {} THEN w ELSE Pass(src, wanted, g[s \ {Max(s)}], Sorted[Max(s)])]
    BY <2>1
  <2>3. Passes(g, src, wanted, w, 0)
    BY <2>2 DEF Passes
  <2>4. QED  BY <2>3
<1>2. ASSUME NEW k \in S  PROVE k + 1 \in S
  <2>1. PICK g : Passes(g, src, wanted, w, k)
    OBVIOUS
  <2>0. k \in Nat /\ k + 1 \in Nat
    OBVIOUS
  <2> DEFINE h == [s \in SUBSET (1..(k + 1)) |->
                     IF k + 1 \in s THEN Pass(src, wanted, g[s \ {k + 1}], Sorted[k + 1]) ELSE g[s]]
  <2>2. ASSUME NEW s \in SUBSET (1..(k + 1))
        PROVE  h[s] = IF s = {} THEN w ELSE Pass(src, wanted, h[s \ {Max(s)}], Sorted[Max(s)])
    <3>1. CASE k + 1 \in s
      <4>1. Max(s) = k + 1
        <5>1. Max(s) \in s /\ Max(s) >= k + 1
          BY <2>0, <3>1, MaxIs
        <5>2. Max(s) \in 1..(k + 1)
          BY <5>1
        <5>3. QED  BY <2>0, <5>1, <5>2
      <4>2. s \ {k + 1} \in SUBSET (1..(k + 1)) /\ k + 1 \notin s \ {k + 1}
        OBVIOUS
      <4>3. h[s \ {k + 1}] = g[s \ {k + 1}]
        BY <4>2
      <4>4. h[s] = Pass(src, wanted, h[s \ {k + 1}], Sorted[k + 1])
        BY <3>1, <4>3
      <4>5. s # {}
        BY <3>1
      <4> HIDE DEF h
      <4>6. QED  BY <4>1, <4>4, <4>5
    <3>2. CASE k + 1 \notin s /\ s # {}
      <4>1. s \in SUBSET (1..k)
        BY <2>0, <3>2
      <4>2. Max(s) \in s
        BY <2>0, <3>2, MaxIs
      <4>3. s \ {Max(s)} \in SUBSET (1..(k + 1)) /\ k + 1 \notin s \ {Max(s)}
        BY <3>2
      <4>4. h[s] = g[s] /\ h[s \ {Max(s)}] = g[s \ {Max(s)}]
        BY <3>2, <4>3
      <4>5. g[s] = Pass(src, wanted, g[s \ {Max(s)}], Sorted[Max(s)])
        BY <2>1, <3>2, <4>1 DEF Passes
      <4>6. h[s] = Pass(src, wanted, h[s \ {Max(s)}], Sorted[Max(s)])
        <5> HIDE DEF h
        <5> QED  BY <4>4, <4>5
      <4> HIDE DEF h
      <4>7. QED  BY <3>2, <4>6
    <3>3. CASE s = {}
      <4>1. h[s] = g[s] /\ s \in SUBSET (1..k)
        BY <3>3
      <4>2. g[s] = w
        BY <2>1, <3>3, <4>1 DEF Passes
      <4>3. QED  BY <3>3, <4>1, <4>2
    <3>4. QED  BY <3>1, <3>2, <3>3
  <2>3. h = [s \in SUBSET (1..(k + 1)) |->
               IF s = {} THEN w ELSE Pass(src, wanted, h[s \ {Max(s)}], Sorted[Max(s)])]
    <3>1. h = [s \in SUBSET (1..(k + 1)) |-> h[s]]
      OBVIOUS
    <3> HIDE DEF h
    <3>2. QED  BY <2>2, <3>1
  <2>4. Passes(h, src, wanted, w, k + 1)
    <3> HIDE DEF h
    <3> QED  BY <2>3 DEF Passes
  <2>5. QED  BY <2>4
<1>3. S = Nat
  <2> HIDE DEF S
  <2>1. S \subseteq Nat
    BY DEF S
  <2>2. QED  BY <1>1, <1>2, <2>1, Induction
<1>4. QED  BY <1>3

\* run[i] is the document once i addresses have been passed.
IsPassed(run, src, wanted, w, n) ==
    /\ run[0] = w
    /\ \A i \in 1..n : run[i] = Pass(src, wanted, run[i - 1], Sorted[i])

LEMMA InjectIsRun ==
    ASSUME NEW n \in Nat, DOMAIN Sorted = 1..n, NEW src, NEW wanted, NEW w
    PROVE  \E run : IsPassed(run, src, wanted, w, n) /\ Inject(w, src, wanted) = run[n]
<1> DEFINE iter == CHOOSE g : Passes(g, src, wanted, w, n)
<1>1. Passes(iter, src, wanted, w, n)
  BY PassesExist
<1>2. Inject(w, src, wanted) = iter[1..n]
  BY DEF Inject, FoldLeft, MapThenFoldSet, Passes, Pass
<1> DEFINE run == [i \in 0..n |-> iter[1..i]]
<1>3. run[0] = w
  <2>1. 1..0 = {} /\ 1..0 \in SUBSET (1..n)
    OBVIOUS
  <2> HIDE DEF iter
  <2>2. iter[1..0] = w
    BY <1>1, <2>1 DEF Passes
  <2>3. QED  BY <2>2
<1>4. ASSUME NEW i \in 1..n  PROVE run[i] = Pass(src, wanted, run[i - 1], Sorted[i])
  <2>1. 1..i \in SUBSET (1..n) /\ 1..i # {} /\ i \in 1..i
    OBVIOUS
  <2>2. Max(1..i) = i
    <3>1. Max(1..i) \in 1..i /\ Max(1..i) >= i
      BY <2>1, MaxIs
    <3>2. QED  BY <3>1
  <2>3. (1..i) \ {i} = 1..(i - 1)
    OBVIOUS
  <2> HIDE DEF iter
  <2>4. iter[1..i] = Pass(src, wanted, iter[1..(i - 1)], Sorted[i])
    BY <1>1, <2>1, <2>2, <2>3 DEF Passes
  <2>5. QED  BY <2>4
<1>5. IsPassed(run, src, wanted, w, n) /\ run[n] = iter[1..n]
  <2> HIDE DEF iter
  <2>1. run[n] = iter[1..n]
    OBVIOUS
  <2>2. QED  BY <1>3, <1>4, <2>1 DEF IsPassed
<1>6. QED  BY <1>2, <1>5

\* The release that wrote the instances of a provider in on reads i.
Readily(on, type, provider, i) ==
    LET known == SchemasOf(on, type, provider)
    IN  known # {} => \E s \in known : i.schema <= s

\* A document that has all of on and some instances of from.
Merged(doc, on, from, own) ==
    /\ doc = [serial |-> on.serial, provider |-> doc.provider, instances |-> on.instances \cup own]
    /\ doc.provider \in Providing /\ DOMAIN doc.provider = ResourcesOf(on.instances \cup own)
    /\ \A r \in DOMAIN on.provider : doc.provider[r] = on.provider[r]
    /\ \A i \in own : /\ ProviderOf(doc, i) = ProviderOf(from, i)
                      /\ Readily(on, TypeOf[ResourceOf[i.address]], ProviderOf(from, i), i)

LEMMA SchemasAre ==
    ASSUME NEW doc, doc.instances \subseteq Instance, NEW type, NEW p
    PROVE  /\ SchemasOf(doc, type, p) \in SUBSET (0..MaxSchema)
           /\ \A s : s \in SchemasOf(doc, type, p) <=>
                 \E j \in doc.instances :
                    TypeOf[ResourceOf[j.address]] = type /\ ProviderOf(doc, j) = p /\ s = j.schema
<1>1. \A s : s \in SchemasOf(doc, type, p) <=>
         \E j \in doc.instances :
            TypeOf[ResourceOf[j.address]] = type /\ ProviderOf(doc, j) = p /\ s = j.schema
  BY DEF SchemasOf
<1>2. \A j \in doc.instances : j.schema \in 0..MaxSchema
  BY DEF Instance, Schemas
<1>3. QED  BY <1>1, <1>2

\* What is not refused is merged.
LEMMA InjectedIs ==
    ASSUME NEW on, IsDocument(on), NEW from, IsDocument(from), NEW own \in SUBSET Current(from),
           NEW doc, Merged(doc, on, from, own), NEW i \in Current(from),
           Injected(from, doc, i.address) # Nil
    PROVE  Merged(Injected(from, doc, i.address), on, from, own \cup {i})
<1> DEFINE R == ResourceOf[i.address]
           p == ProviderOf(from, i)
           next == Injected(from, doc, i.address)
           provider == Override([r \in {R} |-> p], doc.provider)
<1>1. /\ on.instances \in SUBSET Instance /\ DOMAIN on.provider = ResourcesOf(on.instances)
      /\ from.instances \in SUBSET Instance /\ DOMAIN from.provider = ResourcesOf(from.instances)
      /\ from.provider \in Providing /\ Distinct(from.instances)
      /\ i \in from.instances /\ i \in Instance /\ ~i.deposed
  BY DocumentIs DEF Current
<1>2. i = CHOOSE j \in Current(from) : j.address = i.address
  <2>1. \A j \in Current(from) : j.address = i.address => j = i
    BY <1>1 DEF Current, Distinct
  <2>2. QED  BY <2>1
<1>3. /\ next = Inserted(doc, i, p)
      /\ ~TooNew(doc, i, p) /\ ~Differs(doc, i, p)
  <2>1. next = IF i.address \in Present(doc) \/ TooNew(doc, i, p) \/ Differs(doc, i, p) THEN Nil
               ELSE Inserted(doc, i, p)
    BY <1>2 DEF Injected
  <2> HIDE DEF next, p
  <2>2. next # Nil
    BY DEF next
  <2>3. QED  BY <2>1, <2>2
<1>4. /\ doc = [serial |-> on.serial, provider |-> doc.provider, instances |-> on.instances \cup own]
      /\ doc.provider \in Providing /\ DOMAIN doc.provider = ResourcesOf(on.instances \cup own)
      /\ \A r \in DOMAIN on.provider : doc.provider[r] = on.provider[r]
      /\ \A j \in own : /\ ProviderOf(doc, j) = ProviderOf(from, j)
                        /\ Readily(on, TypeOf[ResourceOf[j.address]], ProviderOf(from, j), j)
  BY DEF Merged
<1>5. next = [serial |-> on.serial, provider |-> provider,
              instances |-> on.instances \cup (own \cup {i})]
  <2>1. next = [doc EXCEPT !.provider = provider, !.instances = @ \cup {i}]
    BY <1>3 DEF Inserted
  <2> HIDE DEF next, provider, p, R
  <2>2. next = [serial |-> on.serial, provider |-> provider,
                instances |-> (on.instances \cup own) \cup {i}]
    <3>1. PICK q : doc = [serial |-> on.serial, provider |-> q, instances |-> on.instances \cup own]
      BY <1>4
    <3>2. QED  BY ONLY <2>1, <3>1
  <2>3. (on.instances \cup own) \cup {i} = on.instances \cup (own \cup {i})
    OBVIOUS
  <2>4. QED  BY <2>2, <2>3
<1>6. p \in Providers /\ R \in Range(ResourceOf)
  BY <1>1, ProvidingIs, InstanceIs DEF ProviderOf, ResourcesOf
<1>7. /\ DOMAIN provider = DOMAIN doc.provider \cup {R}
      /\ \A r \in DOMAIN doc.provider : provider[r] = doc.provider[r]
      /\ provider[R] = p
  <2>1. R \in DOMAIN doc.provider => doc.provider[R] = p
    BY <1>3 DEF Differs, ProviderOf
  <2> HIDE DEF p, R
  <2>2. QED  BY <2>1 DEF Override
<1>8. provider \in Providing
  <2>1. provider = [r \in DOMAIN provider |-> provider[r]]
    BY DEF Override
  <2> HIDE DEF provider, p, R
  <2>2. QED  BY <1>4, <1>6, <1>7, <2>1, ProvidingIs
<1>9. DOMAIN provider = ResourcesOf(on.instances \cup (own \cup {i}))
  <2> HIDE DEF provider
  <2>1. ResourcesOf(on.instances \cup (own \cup {i})) = ResourcesOf(on.instances \cup own) \cup {R}
    BY DEF ResourcesOf
  <2>2. QED  BY <1>4, <1>7, <2>1
<1> HIDE DEF provider, next
<1>10. \A r \in DOMAIN on.provider : provider[r] = on.provider[r]
  <2>1. DOMAIN on.provider \subseteq DOMAIN doc.provider
    BY <1>1, <1>4 DEF ResourcesOf
  <2>2. QED  BY <1>4, <1>7, <2>1
<1>11. \A j \in own \cup {i} : ProviderOf(next, j) = ProviderOf(from, j)
  <2>1. \A j \in own : ResourceOf[j.address] \in DOMAIN doc.provider
    BY <1>4 DEF ResourcesOf
  <2>2. QED  BY <1>4, <1>5, <1>7, <2>1 DEF ProviderOf
<1>12. Readily(on, TypeOf[R], p, i)
  <2> DEFINE known  == SchemasOf(on, TypeOf[R], p)
             merged == SchemasOf(doc, TypeOf[R], p)
  <2>1. /\ doc.instances = on.instances \cup own /\ doc.instances \subseteq Instance
    BY <1>1, <1>4 DEF Current
  <2>2. /\ merged \in SUBSET (0..MaxSchema)
        /\ \A s : s \in merged <=>
              \E j \in doc.instances :
                 TypeOf[ResourceOf[j.address]] = TypeOf[R] /\ ProviderOf(doc, j) = p /\ s = j.schema
    BY <2>1, SchemasAre
  <2>3. \A s : s \in known <=>
           \E j \in on.instances :
              TypeOf[ResourceOf[j.address]] = TypeOf[R] /\ ProviderOf(on, j) = p /\ s = j.schema
    BY <1>1, SchemasAre
  <2>4. merged = {} \/ ~(i.schema > Max(merged))
    BY <1>3 DEF TooNew
  <2>5. \A j \in on.instances : ProviderOf(doc, j) = ProviderOf(on, j)
    BY <1>1, <1>4 DEF ProviderOf, ResourcesOf
  <2> HIDE DEF known, merged, p, R
  <2>6. known \subseteq merged
    BY <2>1, <2>2, <2>3, <2>5
  <2>7. ASSUME known # {}  PROVE \E s \in known : i.schema <= s
    <3>1. merged # {} /\ MaxSchema \in Nat
      BY <2>6, <2>7, StateDocAssumption
    <3>2. Max(merged) \in merged
      BY <2>2, <3>1, MostIs
    <3>3. Max(merged) \in Nat /\ i.schema \in Nat /\ i.schema <= Max(merged)
      BY <1>1, <2>2, <2>4, <3>1, <3>2, InstanceIs DEF Schemas
    <3>4. PICK j \in doc.instances :
             TypeOf[ResourceOf[j.address]] = TypeOf[R] /\ ProviderOf(doc, j) = p /\ Max(merged) = j.schema
      BY <2>2, <3>2
    <3>5. CASE j \in on.instances
      <4>1. j.schema \in known
        BY <2>3, <2>5, <3>4, <3>5
      <4>2. QED  BY <3>3, <3>4, <4>1
    <3>6. CASE j \in own
      <4>1. ProviderOf(from, j) = p /\ Readily(on, TypeOf[R], p, j)
        BY <1>4, <3>4, <3>6
      <4>2. PICK s \in known : j.schema <= s
        BY <2>7, <4>1 DEF Readily, known
      <4>3. s \in Nat
        BY <2>2, <2>6, <3>1
      <4>4. QED  BY <3>3, <3>4, <4>2, <4>3
    <3>7. QED  BY <2>1, <3>4, <3>5, <3>6
  <2>8. QED  BY <2>7 DEF Readily, known
<1>13. Merged(next, on, from, own \cup {i})
  <2>1. \A j \in own \cup {i} : Readily(on, TypeOf[ResourceOf[j.address]], ProviderOf(from, j), j)
    BY <1>4, <1>12
  <2>2. next.provider = provider
    BY <1>5
  <2> HIDE DEF R, p
  <2>3. QED  BY <1>5, <1>8, <1>9, <1>10, <1>11, <2>1, <2>2 DEF Merged
<1>14. QED  BY <1>13 DEF next

\* What an injection that is not refused returns.
LEMMA InjectIs ==
    ASSUME NEW on, IsDocument(on), NEW from, IsDocument(from),
           NEW wanted \in SUBSET Present(from), Inject(on, from, wanted) # Nil
    PROVE  Merged(Inject(on, from, wanted), on, from, {i \in Current(from) : i.address \in wanted})
<1> DEFINE n == Len(Sorted)
           own(k) == {i \in Current(from) : i.address \in wanted /\ \E m \in 1..k : Sorted[m] = i.address}
<1>1. n \in Nat /\ DOMAIN Sorted = 1..n /\ \A a \in Addresses : \E m \in 1..n : Sorted[m] = a
  BY StateDocAssumption DEF Range
<1> HIDE DEF n
<1>2. PICK run : IsPassed(run, from, wanted, on, n) /\ Inject(on, from, wanted) = run[n]
  BY <1>1, InjectIsRun
<1> DEFINE S == {k \in 0..n : run[k] # Nil => Merged(run[k], on, from, own(k))}
<1>3. 0 \in S
  <2>1. run[0] = on /\ own(0) = {}
    BY <1>2 DEF IsPassed
  <2>2. on.instances \cup {} = on.instances
    OBVIOUS
  <2>3. Merged(on, on, from, {})
    BY <2>2, DocumentIs DEF Merged
  <2> HIDE DEF own
  <2>4. QED  BY <1>1, <2>1, <2>3
<1>4. ASSUME NEW k \in 0..(n - 1), k \in S  PROVE k + 1 \in S
  <2> DEFINE a == Sorted[k + 1]
  <2>1. k + 1 \in 1..n /\ (k + 1) - 1 = k /\ k + 1 \in 0..n
    BY <1>1
  <2>2. run[k + 1] = Pass(from, wanted, run[k], a)
    BY <1>2, <2>1 DEF IsPassed
  <2>3. \A m \in 1..(k + 1) : m \in 1..k \/ m = k + 1
    BY <2>1
  <2>4. 1..k \subseteq 1..(k + 1)
    BY <2>1
  <2>5. own(k + 1) = own(k) \cup {i \in Current(from) : i.address \in wanted /\ i.address = a}
    BY <2>1, <2>3, <2>4
  <2> HIDE DEF a
  <2>6. ASSUME run[k + 1] # Nil  PROVE Merged(run[k + 1], on, from, own(k + 1))
    <3>1. run[k] # Nil
      BY <2>2, <2>6 DEF Pass
    <3>2. Merged(run[k], on, from, own(k))
      BY <1>4, <3>1
    <3>3. CASE a \notin wanted
      <4>1. run[k + 1] = run[k] /\ own(k + 1) = own(k)
        <5> HIDE DEF own
        <5>1. {i \in Current(from) : i.address \in wanted /\ i.address = a} = {}
          BY <3>3
        <5>2. QED  BY <2>2, <2>5, <3>3, <5>1 DEF Pass
      <4> HIDE DEF own
      <4>2. QED  BY <3>2, <4>1
    <3>4. CASE a \in wanted
      <4>1. PICK i \in Current(from) : i.address = a
        BY <3>4 DEF Present
      <4>2. \A j \in Current(from) : j.address = a => j = i
        BY <4>1, DocumentIs DEF Distinct, Current
      <4>3. {j \in Current(from) : j.address \in wanted /\ j.address = a} = {i}
        BY <3>4, <4>1, <4>2
      <4>4. run[k + 1] = Injected(from, run[k], a)
        BY <2>2, <3>1, <3>4 DEF Pass
      <4>5. own(k) \in SUBSET Current(from)
        OBVIOUS
      <4> HIDE DEF own
      <4>6. Injected(from, run[k], i.address) # Nil
        BY <2>6, <4>1, <4>4
      <4>7. Merged(Injected(from, run[k], i.address), on, from, own(k) \cup {i})
        BY <3>2, <4>5, <4>6, InjectedIs
      <4>8. QED  BY <2>5, <4>1, <4>3, <4>4, <4>7
    <3>5. QED  BY <3>3, <3>4
  <2> HIDE DEF own
  <2>7. QED  BY <2>1, <2>6
<1>5. 0..n \subseteq S
  <2> HIDE DEF S
  <2> QED  BY <1>1, <1>3, <1>4, BoundedInduction
<1>6. n \in S
  <2> HIDE DEF S
  <2>1. n \in 0..n
    BY <1>1
  <2>2. QED  BY <1>5, <2>1
<1>7. own(n) = {i \in Current(from) : i.address \in wanted}
  <2>1. \A i \in Current(from) : i.address \in Addresses
    BY DocumentIs, InstanceIs DEF Current
  <2>2. QED  BY <1>1, <2>1
<1> HIDE DEF own
<1>8. QED  BY <1>2, <1>6, <1>7

\* What a rebuild that is not refused returns.
LEMMA RebuiltIs ==
    ASSUME NEW claims, NEW from, IsDocument(from), NEW on, IsDocument(on),
           Rebuilt(claims, from, on) # Nil
    PROVE  LET next == Rebuilt(claims, from, on)
               own  == {i \in Current(from) : i.address \in Creates(claims)}
           IN  /\ next = [serial |-> next.serial, provider |-> next.provider,
                          instances |-> on.instances \cup own]
               /\ next.serial \in Nat /\ next.serial > from.serial /\ next.serial > on.serial
               /\ next.provider \in Providing
               /\ DOMAIN next.provider = ResourcesOf(on.instances \cup own)
               /\ \A i \in on.instances : ProviderOf(next, i) = ProviderOf(on, i)
               /\ \A i \in own : /\ ProviderOf(next, i) = ProviderOf(from, i)
                                 /\ Readily(on, TypeOf[ResourceOf[i.address]], ProviderOf(from, i), i)
<1> DEFINE next   == Rebuilt(claims, from, on)
           own    == {i \in Current(from) : i.address \in Creates(claims)}
           wanted == Creates(claims) \cap Present(from)
           merged == Inject(on, from, wanted)
           most   == Max({from.serial, on.serial})
<1>1. merged # Nil /\ next = BumpSerial(merged, most)
  BY DEF Rebuilt
<1>2. own = {i \in Current(from) : i.address \in wanted}
  BY DEF Present
<1>3. Merged(merged, on, from, own)
  <2>1. wanted \in SUBSET Present(from)
    OBVIOUS
  <2> HIDE DEF own, wanted, next
  <2>2. QED  BY <1>1, <1>2, <2>1, InjectIs
<1>4. /\ on.serial \in Nat /\ from.serial \in Nat
      /\ DOMAIN on.provider = ResourcesOf(on.instances)
  BY DocumentIs
<1> HIDE DEF own, wanted, merged, next, most
<1>5. /\ merged.serial = on.serial /\ merged.instances = on.instances \cup own
      /\ merged = [serial |-> on.serial, provider |-> merged.provider,
                   instances |-> on.instances \cup own]
  BY <1>3 DEF Merged
<1>6. next = [merged EXCEPT !.serial = Max({on.serial, most}) + 1]
  BY <1>1, <1>5 DEF BumpSerial
<1>7. most \in Nat /\ most >= from.serial /\ most >= on.serial
  BY <1>4, MostOfTwo DEF most
<1>8. Max({on.serial, most}) \in Nat /\ Max({on.serial, most}) >= most
  BY <1>4, <1>7, MostOfTwo
<1>9. next = [serial |-> Max({on.serial, most}) + 1, provider |-> merged.provider,
              instances |-> on.instances \cup own]
  <2>1. PICK q : merged = [serial |-> on.serial, provider |-> q, instances |-> on.instances \cup own]
    BY <1>5
  <2>2. QED  BY ONLY <1>6, <2>1
<1>10. next.serial \in Nat /\ next.serial > from.serial /\ next.serial > on.serial
  BY <1>4, <1>7, <1>8, <1>9
<1>11. /\ next.provider \in Providing
       /\ DOMAIN next.provider = ResourcesOf(on.instances \cup own)
       /\ \A r \in DOMAIN on.provider : next.provider[r] = on.provider[r]
       /\ \A i \in own : /\ ProviderOf(next, i) = ProviderOf(from, i)
                         /\ Readily(on, TypeOf[ResourceOf[i.address]], ProviderOf(from, i), i)
  BY <1>3, <1>9 DEF Merged, ProviderOf
<1>12. \A i \in on.instances : ProviderOf(next, i) = ProviderOf(on, i)
  BY <1>4, <1>11 DEF ProviderOf, ResourcesOf
<1>13. next = [serial |-> next.serial, provider |-> next.provider,
               instances |-> on.instances \cup own]
  <2> DEFINE s == Max({on.serial, most}) + 1
  <2>1. PICK q : next = [serial |-> s, provider |-> q, instances |-> on.instances \cup own]
    BY <1>9
  <2> HIDE DEF s
  <2>2. QED  BY ONLY <2>1
<1>14. QED  BY <1>10, <1>11, <1>12, <1>13 DEF next, own

------------------------------------------------------------------------------
(* rebase *)

OwnCurrent == {i \in Current(overlay) : i.address \in Creates(entry.claims)}

LEMMA RebaseIs ==
    ASSUME IInv, Rebase
    PROVE  /\ entry # Nil /\ entry.status = "active" /\ Conflicts = {}
           /\ base' = base /\ objects' = objects
           /\ entry' = [entry EXCEPT !.serial = base.serial, !.addresses = Present(base)]
           /\ overlay' = [serial |-> overlay'.serial, provider |-> overlay'.provider,
                          instances |-> base.instances \cup OwnCurrent]
           /\ overlay'.instances = base.instances \cup OwnCurrent
           /\ overlay'.serial \in Nat
           /\ overlay'.serial > overlay.serial /\ overlay'.serial > base.serial
           /\ overlay'.provider \in Providing
           /\ DOMAIN overlay'.provider = ResourcesOf(base.instances \cup OwnCurrent)
           /\ \A i \in base.instances : ProviderOf(overlay', i) = ProviderOf(base, i)
           /\ \A i \in OwnCurrent :
                 /\ ProviderOf(overlay', i) = ProviderOf(overlay, i)
                 /\ Readily(base, TypeOf[ResourceOf[i.address]], ProviderOf(overlay, i), i)
<1> DEFINE next == Rebuilt(entry.claims, overlay, base)
<1>1. /\ entry # Nil /\ entry.status = "active" /\ Conflicts = {}
      /\ base' = base /\ objects' = objects
      /\ entry' = [entry EXCEPT !.serial = base.serial, !.addresses = Present(base)]
      /\ next # Nil /\ overlay' = next
  BY DEF Rebase, Rebasable
<1>2. IsDocument(base) /\ IsDocument(overlay)
  BY <1>1 DEF IInv, TypeOK
<1>3. /\ next = [serial |-> next.serial, provider |-> next.provider,
                 instances |-> base.instances \cup OwnCurrent]
      /\ next.serial \in Nat /\ next.serial > overlay.serial /\ next.serial > base.serial
      /\ next.provider \in Providing
      /\ DOMAIN next.provider = ResourcesOf(base.instances \cup OwnCurrent)
      /\ \A i \in base.instances : ProviderOf(next, i) = ProviderOf(base, i)
      /\ \A i \in OwnCurrent :
            /\ ProviderOf(next, i) = ProviderOf(overlay, i)
            /\ Readily(base, TypeOf[ResourceOf[i.address]], ProviderOf(overlay, i), i)
  BY <1>1, <1>2, RebuiltIs DEF OwnCurrent
<1> HIDE DEF next
<1>4. next.instances = base.instances \cup OwnCurrent
  BY <1>3
<1>5. QED  BY <1>1, <1>3, <1>4

LEMMA RebaseKeeps ==
    ASSUME IInv, Rebase
    PROVE  IInv' /\ entry' # Nil /\ overlay' # Nil
<1>1. /\ entry # Nil /\ Conflicts = {} /\ base' = base /\ objects' = objects
      /\ entry' = [entry EXCEPT !.serial = base.serial, !.addresses = Present(base)]
      /\ overlay' = [serial |-> overlay'.serial, provider |-> overlay'.provider,
                     instances |-> base.instances \cup OwnCurrent]
      /\ overlay'.instances = base.instances \cup OwnCurrent
      /\ overlay'.serial \in Nat /\ overlay'.provider \in Providing
      /\ DOMAIN overlay'.provider = ResourcesOf(base.instances \cup OwnCurrent)
  BY RebaseIs
<1>2. /\ IsDocument(base) /\ IsDocument(overlay)
      /\ base.instances \in SUBSET Instance /\ overlay.instances \in SUBSET Instance
      /\ Distinct(base.instances) /\ Distinct(overlay.instances) /\ base.serial \in Nat
  BY <1>1, DocumentIs DEF IInv, TypeOK
<1>3. /\ OwnCurrent \subseteq overlay.instances
      /\ \A i \in OwnCurrent : ~i.deposed /\ i.address \in Creates(entry.claims) /\ i \in Current(overlay)
  BY DEF OwnCurrent, Current
<1>4. \A i \in OwnCurrent, j \in base.instances :
         i.address = j.address => i.id # j.id /\ j.deposed
  <2> SUFFICES ASSUME NEW i \in OwnCurrent, NEW j \in base.instances, i.address = j.address
               PROVE  i.id # j.id /\ j.deposed
    OBVIOUS
  <2>1. i.id # j.id
    BY <1>1, <1>3 DEF IInv, Apart
  <2>2. j.address \notin Present(base)
    BY <1>1, <1>3 DEF Conflicts
  <2>3. QED  BY <2>1, <2>2, PresentIs
<1>5. Distinct(base.instances \cup OwnCurrent)
  BY <1>2, <1>3, <1>4 DEF Distinct
<1>6. IsDocument(overlay')
  <2>1. base.instances \cup OwnCurrent \in SUBSET Instance
    BY <1>2, <1>3
  <2>2. QED  BY <1>1, <1>5, <2>1, DocumentMade
<1>7. /\ entry' \in Entries /\ entry'.serial = base.serial /\ entry'.addresses = Present(base)
      /\ entry'.claims = entry.claims
  <2>1. Present(base) \in SUBSET Addresses
    BY <1>2, PresentIs, InstanceIs
  <2>2. /\ entry.status \in {"active", "dirty"} /\ entry.claims \in Claims
        /\ entry = [status |-> entry.status, claims |-> entry.claims, serial |-> entry.serial,
                    addresses |-> entry.addresses]
    BY <1>1, EntryIs DEF IInv, TypeOK
  <2>3. entry' = [status |-> entry.status, claims |-> entry.claims, serial |-> base.serial,
                  addresses |-> Present(base)]
    BY <1>1, <2>2
  <2>4. QED  BY <1>2, <2>1, <2>2, <2>3 DEF Entries
<1>8. entry' # Nil /\ overlay' # Nil
  BY <1>6, <1>7, NilIsNoDocument
<1>9. TypeOK'
  BY <1>1, <1>2, <1>6, <1>7, <1>8 DEF IInv, TypeOK
<1>10. Finite'
  <2>1. IsFiniteSet(OwnCurrent)
    BY <1>1, <1>3, FS_Subset DEF IInv, Finite
  <2>2. IsFiniteSet(base.instances \cup OwnCurrent)
    BY <2>1, FS_Union DEF IInv, Finite
  <2>3. QED  BY <1>1, <2>2 DEF IInv, Finite
<1>11. Straying'
  BY <1>1 DEF IInv, Straying
<1>12. Claiming'
  BY <1>1, <1>7 DEF IInv, Claiming, Conflicts
<1>13. Apart'
  <2> SUFFICES ASSUME NEW i \in Current(overlay'), NEW j \in base.instances,
                      i.address \in Creates(entry.claims), i.address = j.address
               PROVE  i.id # j.id
    BY <1>1, <1>7 DEF Apart
  <2>1. ~i.deposed /\ i \in base.instances \cup OwnCurrent
    BY <1>1 DEF Current
  <2>2. i \notin base.instances
    BY <1>1, <2>1, PresentIs DEF Conflicts
  <2>3. QED  BY <1>4, <2>1, <2>2
<1>14. QED  BY <1>8, <1>9, <1>10, <1>11, <1>12, <1>13 DEF IInv

------------------------------------------------------------------------------
(* Of every behaviour. *)

LEMMA NextKeeps ==
    ASSUME IInv, [Next]_vars
    PROVE  IInv'
<1>1. CASE UNCHANGED vars
  BY <1>1 DEF vars, IInv, TypeOK, Finite, Straying, Claiming, Apart
<1>2. QED
  BY <1>1, TrunkAppliesKeeps, TrunkConfiguresKeeps, ForkKeeps, ApplyKeeps, RebaseKeeps, AbandonKeeps
  DEF Next

\* The inductive invariant holds whatever tofu writes, fails at and upgrades
\* between fork, rebase and abandon.
THEOREM Invariance == Spec => []IInv
<1>1. IInv /\ [Next]_vars => IInv'
  BY NextKeeps
<1>2. QED  BY <1>1, InitEstablishes, PTL DEF Spec

\* Both states are documents, and the overlay is one of the registry: whatever
\* plans, failures and rebuilds have made of them.
THEOREM TypeCorrect == Spec => []TypeOK
<1>1. IInv => TypeOK
  BY DEF IInv
<1>2. QED  BY <1>1, Invariance, PTL

\* A rebuild makes of the two documents what RebaseMerges says.
LEMMA RebaseMerging ==
    ASSUME IInv, Rebase
    PROVE  LET own == {i \in Current(overlay) : i.address \in Creates(entry.claims)}
           IN  /\ overlay'.instances = base.instances \cup own
               /\ \A i \in base.instances : ProviderOf(overlay', i) = ProviderOf(base, i)
               /\ \A i \in own : ProviderOf(overlay', i) = ProviderOf(overlay, i)
               /\ Readable(overlay')
               /\ overlay'.serial > Max({base.serial, overlay.serial})
<1>1. /\ entry # Nil /\ base' = base
      /\ overlay'.instances = base.instances \cup OwnCurrent
      /\ overlay'.serial \in Nat
      /\ overlay'.serial > overlay.serial /\ overlay'.serial > base.serial
      /\ \A i \in base.instances : ProviderOf(overlay', i) = ProviderOf(base, i)
      /\ \A i \in OwnCurrent :
            /\ ProviderOf(overlay', i) = ProviderOf(overlay, i)
            /\ Readily(base, TypeOf[ResourceOf[i.address]], ProviderOf(overlay, i), i)
  BY RebaseIs
<1>2. overlay'.serial > Max({base.serial, overlay.serial})
  <2>1. base.serial \in Nat /\ overlay.serial \in Nat
    BY <1>1, DocumentIs DEF IInv, TypeOK
  <2>2. Max({base.serial, overlay.serial}) \in {base.serial, overlay.serial}
    BY <2>1, MostOfTwo
  <2>3. QED  BY <1>1, <2>2
<1>3. Readable(overlay')
  BY <1>1 DEF Readable, Readily
<1>4. QED  BY <1>1, <1>2, <1>3 DEF OwnCurrent

\* A rebuilt overlay is the whole base as it is and the current objects of its
\* create claims, all of them readable by the release that wrote the base.
THEOREM Merging == Spec => RebaseMerges
<1>1. IInv /\ [Next]_vars =>
         [Rebase =>
            LET own == {i \in Current(overlay) : i.address \in Creates(entry.claims)}
            IN  /\ overlay'.instances = base.instances \cup own
                /\ \A i \in base.instances : ProviderOf(overlay', i) = ProviderOf(base, i)
                /\ \A i \in own : ProviderOf(overlay', i) = ProviderOf(overlay, i)
                /\ Readable(overlay')
                /\ overlay'.serial > Max({base.serial, overlay.serial})]_vars
  BY RebaseMerging
<1>2. QED  BY <1>1, Invariance, PTL DEF Spec, RebaseMerges

------------------------------------------------------------------------------
(* Objects. *)

\* What happens to the objects of a document that becomes next happens to
\* nothing else.
LEMMA CarriedIs ==
    ASSUME NEW doc, NEW next, NEW x
    PROVE  x \in Carried(doc, next) <=> \/ x \in objects /\ (x \in Objects(doc) => x \in Objects(next))
                                        \/ x \in Objects(next) /\ x \notin Objects(doc)
BY DEF Carried

\* Every step of the overlay spares the objects of the base, if it adds nothing
\* where the base may have an old object alone.
LEMMA ApplySpares ==
    ASSUME Strays \cap Branch = {}, IInv, BaseObjectsSurvive, Apply
    PROVE  BaseObjectsSurvive'
<1>1. /\ entry # Nil /\ entry.serial = base.serial
      /\ \E changes, some, left, acquired :
            /\ Applies(changes, some, left, acquired)
            /\ Recording(changes, some, left, acquired) /\ Leaving(some, left)
  BY ApplyIs
<1>2. PICK changes, some, left, acquired :
            /\ Applies(changes, some, left, acquired)
            /\ Recording(changes, some, left, acquired) /\ Leaving(some, left)
  BY <1>1
<1>3. /\ base' = base /\ objects' = Carried(overlay, overlay')
      /\ overlay.instances \ Gone(overlay, some) \subseteq overlay'.instances
  BY <1>2 DEF Leaving
<1>4. entry.addresses = Present(base) /\ Creates(entry.claims) \subseteq Branch
  BY <1>1 DEF IInv, Claiming
<1>5. \A c \in changes :
         c.action # "create" => c.address \in Branch /\ c.address \notin Present(base)
  BY <1>2, <1>4 DEF Applies, Created
<1>6. \A c \in some :
         c.action # "create" => c.address \in Branch /\ c.address \notin Present(base)
  <2>1. \A c \in some : \/ c \in changes
                        \/ /\ c.action = "delete"
                           /\ \E d \in changes : d.action # "create" /\ d.address = c.address
    BY <1>2 DEF Applies
  <2>2. QED  BY <1>5, <2>1
<1>7. ASSUME NEW x \in Objects(base)  PROVE x \in objects'
  <2>1. PICK k \in base.instances : x = <<k.address, k.id>>
    BY ObjectsAre
  <2>2. x \in objects /\ k.address \in Present(base) \cup Strays
    BY DEF BaseObjectsSurvive, IInv, Straying
  <2>3. ASSUME x \in Objects(overlay), x \notin Objects(overlay')  PROVE FALSE
    <3>1. PICK i \in overlay.instances : x = <<i.address, i.id>>
      BY <2>3, ObjectsAre
    <3>2. i \notin overlay'.instances
      BY <2>3, <3>1, ObjectsAre
    <3>3. PICK c \in some : c.action # "create" /\ c.address = i.address
      BY <1>3, <3>2 DEF Gone
    <3>4. i.address = k.address
      BY <2>1, <3>1
    <3>5. QED  BY <1>6, <2>2, <3>3, <3>4
  <2>4. QED  BY <1>3, <2>2, <2>3, CarriedIs
<1>8. QED  BY <1>3, <1>7 DEF BaseObjectsSurvive

LEMMA AbandonSpares ==
    ASSUME Strays \cap Branch = {}, IInv, BaseObjectsSurvive, Abandon
    PROVE  BaseObjectsSurvive'
<1>1. entry # Nil /\ Conflicts = {} /\ \E own, next : Abandons(own, next)
  BY AbandonIs
<1>2. PICK own, next : Abandons(own, next)
  BY <1>1
<1>3. objects' = Carried(own, next) /\ base' = base
  BY <1>2 DEF Abandons
<1>4. ASSUME NEW x \in Objects(base)  PROVE x \in objects'
  <2>1. PICK k \in base.instances : x = <<k.address, k.id>>
    BY ObjectsAre
  <2>2. x \in objects /\ k.address \in Present(base) \cup Strays
    BY DEF BaseObjectsSurvive, IInv, Straying
  <2>3. ASSUME x \in Objects(own), x \notin Objects(next)  PROVE FALSE
    <3>1. PICK i \in own.instances : x = <<i.address, i.id>>
      BY <2>3, ObjectsAre
    <3>2. next # own
      BY <2>3
    <3>3. i.address \in Creates(entry.claims)
      BY <1>2, <3>2 DEF Abandons
    <3>4. i.address = k.address
      BY <2>1, <3>1
    <3>5. i.address \in Branch /\ i.address \notin Present(base)
      BY <1>1, <3>3 DEF IInv, Claiming, Conflicts
    <3>6. QED  BY <2>2, <3>4, <3>5
  <2>4. QED  BY <1>3, <2>2, <2>3, CarriedIs
<1>5. QED  BY <1>3, <1>4 DEF BaseObjectsSurvive

LEMMA NextSpares ==
    ASSUME Strays \cap Branch = {}, IInv, BaseObjectsSurvive, [Next]_vars
    PROVE  BaseObjectsSurvive'
<1>1. CASE TrunkApplies
  <2>1. objects' = Carried(base, base')
    BY <1>1 DEF TrunkApplies
  <2>2. \A x \in Objects(base') : x \in objects'
    BY <2>1, CarriedIs DEF BaseObjectsSurvive
  <2>3. QED  BY <2>2 DEF BaseObjectsSurvive
<1>2. CASE TrunkConfigures
  <2>1. objects' = objects /\ \E r \in DOMAIN base.provider, p \in Providers :
                                 base' = [base EXCEPT !.serial = @ + 1, !.provider[r] = p]
    BY <1>2 DEF TrunkConfigures
  <2>2. base = [serial |-> base.serial, provider |-> base.provider, instances |-> base.instances]
    BY DocumentIs DEF IInv, TypeOK
  <2>3. base'.instances = base.instances
    BY <2>1, <2>2
  <2>4. QED  BY <2>1, <2>3 DEF BaseObjectsSurvive, Objects
<1>3. CASE Fork
  BY <1>3 DEF Fork, BaseObjectsSurvive
<1>4. CASE Rebase
  BY <1>4 DEF Rebase, BaseObjectsSurvive
<1>5. CASE UNCHANGED vars
  BY <1>5 DEF vars, BaseObjectsSurvive
<1>6. QED  BY <1>1, <1>2, <1>3, <1>4, <1>5, ApplySpares, AbandonSpares DEF Next

\* No object that the base records is destroyed by an overlay, which has copies
\* of all of them, as long as it adds nothing where the base may have an old
\* object alone.
THEOREM BaseSpared == ASSUME Strays \cap Branch = {}  PROVE Spec => []BaseObjectsSurvive
<1>1. Init => BaseObjectsSurvive
  BY DEF Init, BaseObjectsSurvive
<1>2. IInv /\ BaseObjectsSurvive /\ [Next]_vars => BaseObjectsSurvive'
  BY NextSpares
<1>3. QED  BY <1>1, <1>2, Invariance, PTL DEF Spec

\* Nothing is lost by a rebuild or an abandon, for what they leave behind is
\* accounted for.  An apply keeps it so: what it leaves is claimed.
LEMMA ApplyAccounts ==
    ASSUME Strays \cap Branch = {}, ~OnlyClaims, IInv, Accounted, Apply
    PROVE  Accounted'
<1>1. /\ entry # Nil
      /\ \E changes, some, left, acquired :
            /\ Applies(changes, some, left, acquired)
            /\ Recording(changes, some, left, acquired) /\ Leaving(some, left)
  BY ApplyIs
<1>2. PICK changes, some, left, acquired :
            /\ Applies(changes, some, left, acquired)
            /\ Recording(changes, some, left, acquired) /\ Leaving(some, left)
  BY <1>1
<1>3. /\ IsDocument(overlay') /\ base' = base /\ objects' = Carried(overlay, overlay')
      /\ \A j \in overlay'.instances : Remains(overlay, j, some, left) \/ Arises(j, some)
  BY <1>2 DEF Leaving
<1>4. /\ entry' \in Entries /\ entry'.addresses = entry.addresses
      /\ \A x \in Creates(acquired) :
            \/ x \in Creates(entry'.claims)
            \/ x \notin Present(overlay') /\ entry'.status = "active"
      /\ entry'.status = "active" => some = changes /\ left = {}
  BY <1>2 DEF Recording
<1>5. /\ IsDocument(overlay) /\ overlay.instances \in SUBSET Instance
      /\ Creates(entry.claims) \subseteq Creates(acquired)
  BY <1>1, <1>2, DocumentIs DEF IInv, TypeOK, Applies
<1> SUFFICES ASSUME NEW i \in overlay'.instances
             PROVE  \/ /\ i.address \in entry.addresses \cup Strays
                       /\ <<i.address, i.id>> \in objects' => <<i.address, i.id>> \in Objects(base)
                    \/ /\ i.address \in Creates(entry'.claims)
                       /\ i.deposed => entry'.status = "dirty"
  BY <1>3, <1>4 DEF Accounted, Inherited, Owned
<1>6. ~i.deposed /\ i.address \in Creates(acquired) => i.address \in Creates(entry'.claims)
  BY <1>4, PresentIs
<1>7. CASE Arises(i, some)
  <2>1. ~i.deposed
    BY <1>7 DEF Arises
  <2>2. PICK c \in changes : c.action \in {"create", "replace"} /\ c.address = i.address
    BY <1>2, <1>7 DEF Arises, Applies
  <2>3. CASE c.action = "replace"
    <3>1. c.address \in Present(overlay) /\ c.address \in Creates(entry.claims) \cup Created(changes)
      BY <1>2, <2>3 DEF Applies
    <3>2. c.address \notin Created(changes)
      BY <1>2, <3>1 DEF Applies, Feasible, Created
    <3>3. QED  BY <1>5, <1>6, <2>1, <2>2, <3>1, <3>2
  <2>4. CASE c.action = "create" /\ \A d \in changes : d.address = c.address => d.action # "delete"
    <3>1. c.address \in Creates(acquired)
      BY <1>2, <2>4 DEF Applies
    <3>2. QED  BY <1>6, <2>1, <2>2, <3>1
  <2>5. CASE c.action = "create" /\ \E d \in changes : d.address = c.address /\ d.action = "delete"
    <3>1. PICK k \in overlay.instances : k.address = c.address
      BY <1>2, <2>5 DEF Applies
    <3>2. c.address \in Branch \ entry.addresses
      BY <1>2, <2>5 DEF Applies
    <3>3. c.address \in Creates(entry.claims)
      BY <1>1, <3>1, <3>2 DEF Accounted, Inherited, Owned
    <3>4. QED  BY <1>5, <1>6, <2>1, <2>2, <3>3
  <2>6. QED  BY <2>2, <2>3, <2>4, <2>5
<1>8. CASE Remains(overlay, i, some, left)
  <2>1. PICK k \in overlay.instances : k.address = i.address /\ k.id = i.id
    BY <1>8 DEF Remains, Gone
  <2>2. Inherited(k) \/ Owned(k)
    BY <1>1 DEF Accounted
  <2>3. CASE Inherited(k)
    <3>1. <<i.address, i.id>> \in Objects(overlay)
      BY <2>1, ObjectsAre
    <3>2. <<i.address, i.id>> \in objects' => <<i.address, i.id>> \in objects
      BY <1>3, <3>1, CarriedIs
    <3>3. QED  BY <2>1, <2>3, <3>2 DEF Inherited
  <2>4. CASE Owned(k)
    <3>1. i.address \in Creates(acquired)
      BY <1>5, <2>1, <2>4 DEF Owned
    <3>2. CASE ~i.deposed
      BY <1>6, <3>1, <3>2
    <3>3. CASE i.deposed /\ entry'.status = "dirty"
      BY <1>4, <3>1, <3>3
    <3>4. CASE i.deposed /\ entry'.status = "active"
      <4>1. i \in overlay.instances \ Gone(overlay, changes)
        BY <1>4, <1>8, <3>4 DEF Remains
      <4>2. PICK c \in Leftovers(overlay) : c.address = i.address
        BY <1>5, <3>4, <4>1, LeftoversAre
      <4>3. c \in changes /\ c.action = "delete" /\ c.deposed /\ c.deposed \in BOOLEAN
        BY <1>2, <1>5, <4>2, LeftoversAre DEF Applies, Plain, Change
      <4>4. i.deposed \in BOOLEAN
        BY <1>5, <4>1, InstanceIs
      <4>5. i \in Gone(overlay, changes)
        BY <3>4, <4>1, <4>2, <4>3, <4>4 DEF Gone
      <4>6. QED  BY <4>1, <4>5
    <3>5. entry'.status \in {"active", "dirty"}
      BY <1>4, EntryIs
    <3>6. QED  BY <3>2, <3>3, <3>4, <3>5
  <2>5. QED  BY <2>2, <2>3, <2>4
<1>9. QED  BY <1>3, <1>7, <1>8

LEMMA TrunkAccounts ==
    ASSUME IInv, NothingIsLost, Accounted, TrunkApplies
    PROVE  NothingIsLost' /\ Accounted'
<1>1. objects' = Carried(base, base') /\ overlay' = overlay /\ entry' = entry
  BY DEF TrunkApplies
<1>2. ASSUME NEW x \in objects'  PROVE x \in Recorded'
  <2>1. x \in Objects(base') \/ (x \in objects /\ x \notin Objects(base))
    BY <1>1, CarriedIs
  <2>2. QED  BY <1>1, <2>1 DEF NothingIsLost, Recorded
<1>3. Accounted'
  <2> SUFFICES ASSUME entry # Nil, NEW i \in overlay.instances
               PROVE  \/ /\ i.address \in entry.addresses \cup Strays
                         /\ <<i.address, i.id>> \in objects' => <<i.address, i.id>> \in Objects(base')
                      \/ /\ i.address \in Creates(entry.claims)
                         /\ i.deposed => entry.status = "dirty"
    BY <1>1 DEF Accounted, Inherited, Owned
  <2>1. Inherited(i) \/ Owned(i)
    BY DEF Accounted
  <2>2. ASSUME Inherited(i), <<i.address, i.id>> \in objects'
        PROVE  <<i.address, i.id>> \in Objects(base')
    BY <1>1, <2>2, CarriedIs DEF Inherited
  <2>3. QED  BY <2>1, <2>2 DEF Inherited, Owned
<1>4. QED  BY <1>2, <1>3 DEF NothingIsLost

LEMMA RebaseAccounts ==
    ASSUME IInv, NothingIsLost, Accounted, Rebase
    PROVE  NothingIsLost' /\ Accounted'
<1>1. /\ entry # Nil /\ entry.status = "active" /\ base' = base /\ objects' = objects
      /\ entry' = [entry EXCEPT !.serial = base.serial, !.addresses = Present(base)]
      /\ overlay'.instances = base.instances \cup OwnCurrent
  BY RebaseIs
<1>2. overlay' # Nil /\ overlay # Nil /\ entry' # Nil
  BY <1>1, RebaseKeeps, NilIsNoDocument DEF IInv, TypeOK
<1>3. ASSUME NEW x \in objects  PROVE x \in Objects(base) \cup Objects(overlay')
  <2>1. x \in Objects(base) \cup Objects(overlay)
    BY <1>2 DEF NothingIsLost, Recorded
  <2>2. CASE x \in Objects(overlay)
    <3>1. PICK i \in overlay.instances : x = <<i.address, i.id>>
      BY <2>2, ObjectsAre
    <3>2. CASE Inherited(i)
      BY <3>1, <3>2 DEF Inherited
    <3>3. CASE Owned(i)
      <4>1. i \in OwnCurrent
        BY <1>1, <3>3 DEF Owned, OwnCurrent, Current
      <4>2. QED  BY <1>1, <3>1, <4>1, ObjectsAre
    <3>4. QED  BY <1>1, <3>2, <3>3 DEF Accounted
  <2>3. QED  BY <2>1, <2>2
<1>4. NothingIsLost'
  BY <1>1, <1>2, <1>3 DEF NothingIsLost, Recorded
<1>5. entry'.addresses = Present(base) /\ entry'.claims = entry.claims
  <2>1. entry = [status |-> entry.status, claims |-> entry.claims, serial |-> entry.serial,
                 addresses |-> entry.addresses]
    BY <1>1, EntryIs DEF IInv, TypeOK
  <2>2. QED  BY <1>1, <2>1
<1>6. Accounted'
  <2> SUFFICES ASSUME NEW i \in base.instances \cup OwnCurrent
               PROVE  \/ /\ i.address \in Present(base) \cup Strays
                         /\ <<i.address, i.id>> \in Objects(base)
                      \/ /\ i.address \in Creates(entry.claims)
                         /\ ~i.deposed
    BY <1>1, <1>5 DEF Accounted, Inherited, Owned
  <2>1. CASE i \in base.instances
    BY <2>1, ObjectsAre DEF IInv, Straying
  <2>2. CASE i \in OwnCurrent
    BY <2>2 DEF OwnCurrent, Current
  <2>3. QED  BY <2>1, <2>2
<1>7. QED  BY <1>4, <1>6

LEMMA AbandonAccounts ==
    ASSUME IInv, NothingIsLost, Accounted, Abandon
    PROVE  NothingIsLost' /\ Accounted'
<1>1. entry # Nil /\ \E own, next : Abandons(own, next)
  BY AbandonIs
<1>2. PICK own, next : Abandons(own, next)
  BY <1>1
<1>3. /\ objects' = Carried(own, next) /\ base' = base
      /\ next.instances \subseteq own.instances /\ own.instances \subseteq overlay.instances
      /\ \/ (next.instances = {} /\ overlay' = Nil /\ entry' = Nil)
         \/ (overlay' = next /\ entry' = entry)
      /\ \A i \in overlay.instances \ own.instances : i.address \notin Creates(entry.claims)
      /\ next # Nil
  BY <1>2, DocumentIs DEF Abandons
<1>4. Objects(next) \subseteq Objects(own)
  BY <1>3 DEF Objects
<1>5. \A x \in objects' : x \in objects /\ (x \in Objects(own) => x \in Objects(next))
  BY <1>3, <1>4, CarriedIs
<1>6. ASSUME NEW x \in objects'  PROVE x \in Objects(base) \cup Objects(next)
  <2>1. x \in Objects(base) \cup Objects(overlay)
    BY <1>1, <1>5 DEF NothingIsLost, Recorded, IInv, TypeOK
  <2>2. CASE x \in Objects(overlay) /\ x \notin Objects(own)
    <3>1. PICK i \in overlay.instances : x = <<i.address, i.id>>
      BY <2>2, ObjectsAre
    <3>2. i \notin own.instances
      BY <2>2, <3>1, ObjectsAre
    <3>3. Inherited(i)
      BY <1>1, <1>3, <3>2 DEF Accounted, Owned
    <3>4. QED  BY <1>5, <3>1, <3>3 DEF Inherited
  <2>3. QED  BY <1>5, <2>1, <2>2
<1>7. next.instances = {} => Objects(next) = {}
  BY DEF Objects
<1>8. NothingIsLost'
  BY <1>3, <1>6, <1>7 DEF NothingIsLost, Recorded
<1>9. Accounted'
  <2> SUFFICES ASSUME NEW i \in next.instances
               PROVE  \/ /\ i.address \in entry.addresses \cup Strays
                         /\ <<i.address, i.id>> \in objects' => <<i.address, i.id>> \in Objects(base)
                      \/ /\ i.address \in Creates(entry.claims)
                         /\ i.deposed => entry.status = "dirty"
    BY <1>3 DEF Accounted, Inherited, Owned
  <2>1. i \in overlay.instances
    BY <1>3
  <2>2. QED  BY <1>1, <1>5, <2>1 DEF Accounted, Inherited, Owned
<1>10. QED  BY <1>8, <1>9

LEMMA NextLoses ==
    ASSUME Strays \cap Branch = {}, ~OnlyClaims, IInv, NothingIsLost, Accounted, [Next]_vars
    PROVE  NothingIsLost' /\ Accounted'
<1>1. CASE Apply
  <2>1. entry # Nil /\ base' = base /\ objects' = Carried(overlay, overlay')
    BY <1>1 DEF Apply
  <2>2. overlay # Nil /\ overlay' # Nil
    BY <1>1, <2>1, ApplyIs, NilIsNoDocument DEF IInv, TypeOK, Leaving
  <2>3. \A x \in objects' : x \in Objects(overlay') \/ (x \in objects /\ x \notin Objects(overlay))
    BY <2>1, CarriedIs
  <2>4. NothingIsLost'
    BY <2>1, <2>2, <2>3 DEF NothingIsLost, Recorded
  <2>5. QED  BY <1>1, <2>4, ApplyAccounts
<1>2. CASE TrunkConfigures
  <2>1. /\ objects' = objects /\ overlay' = overlay /\ entry' = entry
        /\ \E r \in DOMAIN base.provider, p \in Providers :
              base' = [base EXCEPT !.serial = @ + 1, !.provider[r] = p]
    BY <1>2 DEF TrunkConfigures
  <2>2. base = [serial |-> base.serial, provider |-> base.provider, instances |-> base.instances]
    BY DocumentIs DEF IInv, TypeOK
  <2>3. base'.instances = base.instances
    BY <2>1, <2>2
  <2>4. QED  BY <2>1, <2>3 DEF NothingIsLost, Recorded, Accounted, Inherited, Owned, Objects
<1>3. CASE Fork
  <2>1. /\ entry = Nil /\ base' = base /\ objects' = objects
        /\ overlay' = [base EXCEPT !.serial = 0]
        /\ entry'.addresses = Present(base)
    BY <1>3 DEF Fork
  <2>2. base = [serial |-> base.serial, provider |-> base.provider, instances |-> base.instances]
    BY DocumentIs DEF IInv, TypeOK
  <2>3. overlay'.instances = base.instances /\ overlay = Nil
    BY <2>1, <2>2 DEF IInv, TypeOK
  <2>4. NothingIsLost'
    BY <2>1, <2>3 DEF NothingIsLost, Recorded
  <2>5. Accounted'
    BY <2>1, <2>3, ObjectsAre DEF Accounted, Inherited, IInv, Straying
  <2>6. QED  BY <2>4, <2>5
<1>4. CASE UNCHANGED vars
  BY <1>4 DEF vars, NothingIsLost, Recorded, Accounted, Inherited, Owned
<1>5. QED  BY <1>1, <1>2, <1>3, <1>4, TrunkAccounts, RebaseAccounts, AbandonAccounts DEF Next

\* Whatever exists is recorded, in whatever order the trunk and the overlay
\* apply, fail and rebuild: of overlays that add nothing where the base may have
\* an old object alone, and do not use apply --only-claims.
THEOREM NothingLost ==
    ASSUME Strays \cap Branch = {}, ~OnlyClaims
    PROVE  Spec => []NothingIsLost
<1>1. Init => NothingIsLost /\ Accounted
  BY DEF Init, NothingIsLost, Recorded, Accounted
<1>2. IInv /\ NothingIsLost /\ Accounted /\ [Next]_vars => NothingIsLost' /\ Accounted'
  BY NextLoses
<1>3. Spec => [](NothingIsLost /\ Accounted)
  BY <1>1, <1>2, Invariance, PTL DEF Spec
<1>4. QED  BY <1>3, PTL

==============================================================================
