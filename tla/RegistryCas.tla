----------------------------- MODULE RegistryCas -----------------------------
(***************************************************************************)
(* Registry.update: load the document, apply the mutation callback to the  *)
(* copy, PUT it on condition that nobody wrote in between, retry on        *)
(* conflict, and after the last attempt look once more whether there is    *)
(* anything left to do.                                                    *)
(*                                                                         *)
(* The object store is external: a conditional PUT succeeds only on the    *)
(* document that was read, may be refused although nothing changed (409),  *)
(* and may land while its answer is lost, in which case the client library *)
(* repeats it and the repetition is refused (412).  A document stands for  *)
(* its own ETag.                                                           *)
(*                                                                         *)
(* calls is not a variable of the code: it is the view of an apply that    *)
(* ClaimRegistry has, moved at the step that makes the mutation visible.   *)
(***************************************************************************)
EXTENDS RegistryDoc, Naturals

CONSTANTS
    Commands,     \* processes that run create, rebase, merge, undo, finalize, abandon
    Asked,        \* the mutations those ask for: which commands are run
    MaxAttempts,  \* the attempts parameter of update
    MaxLostAcks   \* bound: PUTs whose answer is lost

ASSUME CommandsAssumption == Commands \cap Runs = {} /\ Nil \notin Commands

ASSUME AskedAssumption ==
    Asked \subseteq {"register", "flip", "rebase", "merge", "undo", "release"}

ASSUME EntryAssumption == Nil \notin Entry

ASSUME AttemptsAssumption == MaxAttempts \in Nat \ {0} /\ MaxLostAcks \in Nat

VARIABLES doc, expired, calls, client, lostAcks

vars == <<doc, expired, calls, client, lostAcks>>

Clients == Runs \cup Commands

------------------------------------------------------------------------------
(* Mutations: what the callback given to update closes over. *)

Mutation(kind, n) ==
    [kind |-> kind, name |-> n, etag |-> Nil, claims |-> << >>, gone |-> {},
     ok |-> FALSE, expected |-> Nil]

Refuses(m, c, d) ==
    CASE m.kind = "register" -> FALSE
      [] m.kind = "flip"     -> FlipRefused(d, m.name)
      [] m.kind = "acquire"  -> AcquireRefused(d, m.name, m.claims, c, m.etag, expired)
      [] m.kind = "finish"   -> FinishRefused(d, m.name, c)
      [] m.kind = "rebase"   -> SetStatusRefused(d, m.name, "active", m.expected)
      [] m.kind = "merge"    -> SetStatusRefused(d, m.name, "active", m.expected)
      [] m.kind = "undo"     -> SetStatusRefused(d, m.name, "merging", Nil)
      [] m.kind = "release"  -> ReleaseRefused(d, m.name)

Mutated(m, c, d) ==
    CASE m.kind = "register" -> RegisterCreating(d, m.name)
      [] m.kind = "flip"     -> Flip(d, m.name, m.etag)
      [] m.kind = "acquire"  -> AcquireClaims(d, m.name, m.claims, c)
      [] m.kind = "finish"   -> FinishApply(d, m.name, m.ok, m.claims, m.gone)
      [] m.kind = "rebase"   -> SetStatus(d, m.name, "active", m.etag, << >>)
      [] m.kind = "merge"    -> SetStatus(d, m.name, "merging", d.overlays[m.name].etag, m.claims)
      [] m.kind = "undo"     -> SetStatus(d, m.name, "active", d.overlays[m.name].etag, << >>)
      [] m.kind = "release"  -> ReleaseOverlay(d, m.name)

------------------------------------------------------------------------------

\* idle: between two updates (a command may start another one); acquired: an
\* apply whose claims are acquired, tofu is running; failed: the last update
\* raised.
Pc == {"idle", "load", "put", "settle", "acquired", "failed"}

\* landed: the document in the store is the one this update wrote.
Client(pc, m) == [pc |-> pc, mutation |-> m, seen |-> Nil, attempt |-> 0, landed |-> FALSE]

\* The abstract registry, in which an update is one step: the document, the
\* expired applies and the calls are the same.
Atomic == INSTANCE ClaimRegistry WITH doc <- doc, expired <- expired, calls <- calls

TypeOK ==
    /\ Atomic!TypeOK
    /\ DOMAIN client = Clients
    /\ \A c \in Clients :
          /\ client[c].pc \in Pc
          /\ client[c].attempt \in 0..MaxAttempts
          /\ client[c].pc = "put" => IsDocument(client[c].seen)
          /\ client[c].landed \in BOOLEAN
    /\ lostAcks \in 0..MaxLostAcks

Init ==
    /\ Atomic!Init
    /\ client = [c \in Clients |-> Client("idle", Nil)]
    /\ lostAcks = 0

Start(c, m) ==
    /\ client' = [client EXCEPT ![c] = Client("load", m)]
    /\ UNCHANGED <<doc, expired, calls, lostAcks>>

Ask(c, m) == m.kind \in Asked /\ Start(c, m)

\* The first load of the command: its gate, and the entry it expects to find.
LoadedActive(n) == Registered(doc, n) /\ doc.overlays[n].status = "active"

BeginCommand(c) ==
    /\ client[c].pc \in {"idle", "failed"}
    /\ \E n \in Overlays :
          \/ Ask(c, Mutation("register", n))
          \/ \E etag \in Etags : Ask(c, [Mutation("flip", n) EXCEPT !.etag = etag])
          \/ /\ LoadedActive(n)
             /\ \E etag \in Etags :
                   Ask(c, [Mutation("rebase", n) EXCEPT
                                !.etag = etag, !.expected = doc.overlays[n]])
          \/ /\ LoadedActive(n)
             /\ \E learned \in Atomic!Learned(doc.overlays[n].claims) :
                   Ask(c, [Mutation("merge", n) EXCEPT
                                !.claims = learned, !.expected = doc.overlays[n]])
          \/ Ask(c, Mutation("undo", n))
          \/ Ask(c, Mutation("release", n))

BeginAcquire(r) ==
    /\ client[r].pc = "idle" /\ calls[r].phase = "new"
    /\ \E n \in Overlays, wanted \in ClaimMap, etag \in Etags :
          \E released \in SUBSET (Addresses \ DOMAIN wanted) :
             Start(r, [Mutation("acquire", n) EXCEPT
                          !.claims = wanted, !.etag = etag, !.gone = released])

BeginFinish(r) ==
    /\ client[r].pc = "acquired"
    /\ \E ok \in BOOLEAN, learned \in Atomic!Learned(calls[r].claims),
          gone \in SUBSET calls[r].released :
          Start(r, [Mutation("finish", calls[r].name) EXCEPT
                       !.claims = learned, !.ok = ok, !.gone = gone])

------------------------------------------------------------------------------
(* One round of the loop of update. *)

Returned(c) ==
    Client(IF client[c].mutation.kind = "acquire" THEN "acquired" ELSE "idle", Nil)

Return(c) == client' = [client EXCEPT ![c] = Returned(c)]

\* A finish_apply that is refused ends the apply without recording it.
Raise(c) ==
    /\ client' = [client EXCEPT ![c] = Client("failed", Nil)]
    /\ IF client[c].mutation.kind = "finish" /\ calls[c].phase = "applying"
          /\ Refuses(client[c].mutation, c, doc)
       THEN Atomic!End(c)
       ELSE UNCHANGED <<calls, expired>>
    /\ UNCHANGED <<doc, lostAcks>>

Load(c) ==
    LET m == client[c].mutation
    IN  /\ client[c].pc = "load"
        /\ IF Refuses(m, c, doc) THEN Raise(c)
           ELSE /\ IF Mutated(m, c, doc) = doc THEN Return(c)
                   ELSE client' = [client EXCEPT ![c].pc = "put", ![c].seen = doc]
                /\ UNCHANGED <<doc, expired, calls, lostAcks>>

\* Mutant: the attempt is not counted.
Retry_Uncounted(c, landed) ==
    [client[c] EXCEPT !.pc = "load", !.seen = Nil, !.landed = landed]

\* Mutant: one attempt too many.
Retry_OneMore(c, landed) ==
    [client[c] EXCEPT
        !.attempt = @ + 1,
        !.pc      = IF client[c].attempt < MaxAttempts THEN "load" ELSE "settle",
        !.seen    = Nil,
        !.landed  = landed]

Retry(c, landed) ==
    [client[c] EXCEPT
        !.attempt = @ + 1,
        !.pc      = IF client[c].attempt + 1 < MaxAttempts THEN "load" ELSE "settle",
        !.seen    = Nil,
        !.landed  = landed]

\* A CasConflict: somebody wrote in between, or the store refused (409).
Conflict(c) ==
    /\ client[c].pc = "put"
    /\ client' = [client EXCEPT ![c] = Retry(c, @.landed)]
    /\ UNCHANGED <<doc, expired, calls, lostAcks>>

\* The view ClaimRegistry has of an apply, when its write becomes visible.
RecordCall(c) ==
    LET m == client[c].mutation
    IN  CASE m.kind = "acquire" ->
              /\ calls' = [calls EXCEPT ![c] =
                   [phase |-> "applying", name |-> m.name, released |-> m.gone,
                    claims |-> Restrict(doc'.overlays[m.name].claims,
                                        DOMAIN doc'.overlays[m.name].claims \ m.gone)]]
              /\ UNCHANGED expired
          [] m.kind = "finish" -> Atomic!End(c)
          [] OTHER -> UNCHANGED <<calls, expired>>

\* Mutant: a plain PUT, without If-Match.
Write_Unconditional(c, next) ==
    /\ client[c].pc = "put"
    /\ doc' = Mutated(client[c].mutation, c, client[c].seen)
    /\ RecordCall(c)
    /\ client' = [d \in Clients |-> IF d = c THEN next ELSE [client[d] EXCEPT !.landed = FALSE]]

\* The PUT lands; the client continues in state next.
Write(c, next) ==
    /\ client[c].pc = "put"
    /\ doc = client[c].seen
    /\ doc' = Mutated(client[c].mutation, c, client[c].seen)
    /\ RecordCall(c)
    /\ client' = [d \in Clients |-> IF d = c THEN next ELSE [client[d] EXCEPT !.landed = FALSE]]

PutLands(c) == Write(c, Returned(c)) /\ UNCHANGED lostAcks

PutLandsAckLost(c) ==
    /\ lostAcks < MaxLostAcks
    /\ Write(c, Retry(c, TRUE))
    /\ lostAcks' = lostAcks + 1

\* _already_applied: one more load; done if there is nothing left to change.
Settle(c) ==
    LET m == client[c].mutation
    IN  /\ client[c].pc = "settle"
        /\ IF Refuses(m, c, doc) \/ Mutated(m, c, doc) # doc THEN Raise(c)
           ELSE Return(c) /\ UNCHANGED <<doc, expired, calls, lostAcks>>

Update(c) == Load(c) \/ Conflict(c) \/ PutLands(c) \/ PutLandsAckLost(c) \/ Settle(c)

Timeout(r) == Atomic!Timeout(r) /\ UNCHANGED <<client, lostAcks>>

Next ==
    \/ \E c \in Commands : BeginCommand(c)
    \/ \E r \in Runs : BeginAcquire(r) \/ BeginFinish(r) \/ Timeout(r)
    \/ \E c \in Clients : Update(c)

Spec == Init /\ [][Next]_vars

\* update is a bounded loop in one thread: once started it keeps going.
FairSpec == Spec /\ \A c \in Clients : WF_vars(Update(c))

------------------------------------------------------------------------------

\* The GET / mutate / PUT-IfMatch loop is as good as an atomic mutation, even
\* when answers are lost and PUTs repeated: no update is lost, none is based
\* on a document that is not the current one (Registry.update).
UpdatesAreAtomic == Atomic!Spec

Raises(c) == client[c].pc \in {"load", "settle"} /\ client'[c].pc = "failed"

\* A registration, flip, acquisition or release does not report failure while
\* the document in the store is exactly the one it wrote: "a retry after a lost
\* conflict converges" (registry.py, module docstring; DESIGN section 5).  A
\* finish_apply and a guarded set_status refuse their own result.
IdempotentUpdatesConverge ==
    [][\A c \in Clients : Raises(c) /\ client[c].landed
        => client[c].mutation.kind \notin {"register", "flip", "acquire", "release"}]_vars

\* A started update returns or raises, however many conflicts it meets.
UpdatesTerminate ==
    \A c \in Clients : client[c].pc \in {"load", "put", "settle"} ~> client[c].pc \notin {"load", "put", "settle"}

==============================================================================
