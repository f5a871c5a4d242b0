---------------------------- MODULE ClaimRegistry ----------------------------
(***************************************************************************)
(* What the registry promises: every mutation of the document is one       *)
(* atomic step.  The commands of overlay.py and merge.py appear only       *)
(* through the mutation they ask for, at any time and in any order: no     *)
(* hypothesis is made on which commands run together, so what holds here   *)
(* holds for every interleaving of every command.                          *)
(*                                                                         *)
(* An apply is the one command with two mutations: acquire_claims, then    *)
(* finish_apply with the claims it read back.  calls keeps its locals      *)
(* (claims and released of _apply_planned) between the two.                *)
(***************************************************************************)
EXTENDS RegistryDoc

VARIABLES
    doc,      \* the registry document
    expired,  \* applies in progress started more than apply_timeout_min ago
    calls     \* calls[r]: locals of the apply with run id r

vars == <<doc, expired, calls>>

Call ==
    [phase: {"new", "applying", "done"}, name: Overlays \cup {Nil},
     claims: ClaimMap, released: SUBSET Addresses]

IdleCall(phase) == [phase |-> phase, name |-> Nil, claims |-> << >>, released |-> {}]

TypeOK ==
    /\ IsDocument(doc)
    /\ expired \subseteq Runs
    /\ calls \in [Runs -> Call]

Init ==
    /\ doc = EmptyDoc
    /\ expired = {}
    /\ calls = [r \in Runs |-> IdleCall("new")]

------------------------------------------------------------------------------

\* _claims_from_state: a create claim found in the state gets its id and
\* identity from there; the others are returned as they are.
LearnedClaim(c) ==
    {l \in Claim :
        /\ l.kind = c.kind
        /\ c.kind = "update" => l = c
        /\ l.identity = Nil => c.identity = Nil
        /\ l.id = Nil => c.id = Nil}

Learned(claims) ==
    {l \in [DOMAIN claims -> UNION {LearnedClaim(claims[a]) : a \in DOMAIN claims}] :
        \A a \in DOMAIN claims : l[a] \in LearnedClaim(claims[a])}

------------------------------------------------------------------------------

Register(n) ==
    /\ doc' = RegisterCreating(doc, n)
    /\ UNCHANGED <<expired, calls>>

\* Some create that loaded the document earlier reaches its second update.
Activate(n, etag) ==
    /\ ~FlipRefused(doc, n)
    /\ doc' = Flip(doc, n, etag)
    /\ UNCHANGED <<expired, calls>>

\* wanted: claims for the changes of a plan, and copies, possibly stale, of
\* the claims the overlay had when it was planned.  released: those of them
\* the plan drops.  A run that was taken over may be acquired again, by a
\* retry of its update.
Acquire(r, n, wanted, released, etag) ==
    /\ calls[r].phase # "done"
    /\ calls[r].name \in {Nil, n}
    /\ ~AcquireRefused(doc, n, wanted, r, etag, expired)
    /\ doc' = AcquireClaims(doc, n, wanted, r)
    /\ LET claims == doc'.overlays[n].claims
       IN  calls' = [calls EXCEPT ![r] =
               [phase |-> "applying", name |-> n, released |-> released,
                claims |-> Restrict(claims, DOMAIN claims \ released)]]
    /\ UNCHANGED expired

\* The process of run r ends; nobody asks for its age any more.
End(r) ==
    /\ calls' = [calls EXCEPT ![r] = IdleCall("done")]
    /\ expired' = expired \ {r}

\* gone: the released addresses the pulled state confirms are gone.
Finish(r, ok, learned, gone) ==
    /\ calls[r].phase = "applying"
    /\ ~FinishRefused(doc, calls[r].name, r)
    /\ doc' = FinishApply(doc, calls[r].name, ok, learned, gone)
    /\ End(r)

\* The overlay has been released or taken over: the outcome is not recorded.
FinishSuperseded(r) ==
    /\ calls[r].phase = "applying"
    /\ FinishRefused(doc, calls[r].name, r)
    /\ End(r)
    /\ UNCHANGED doc

Timeout(r) ==
    /\ calls[r].phase = "applying"
    /\ expired' = expired \cup {r}
    /\ UNCHANGED <<doc, calls>>

Rebase(n, etag) ==
    /\ ~SetStatusRefused(doc, n, "active", Nil)
    /\ doc' = SetStatus(doc, n, "active", etag, << >>)
    /\ UNCHANGED <<expired, calls>>

Merge(n, learned) ==
    /\ ~SetStatusRefused(doc, n, "active", Nil)
    /\ doc' = SetStatus(doc, n, "merging", doc.overlays[n].etag, learned)
    /\ UNCHANGED <<expired, calls>>

Undo(n) ==
    /\ ~SetStatusRefused(doc, n, "merging", Nil)
    /\ doc' = SetStatus(doc, n, "active", doc.overlays[n].etag, << >>)
    /\ UNCHANGED <<expired, calls>>

\* finalize and abandon: the status is not looked at again when releasing.
Release(n) ==
    /\ ~ReleaseRefused(doc, n)
    /\ doc' = ReleaseOverlay(doc, n)
    /\ UNCHANGED <<expired, calls>>

ClaimsOf(n) == IF Registered(doc, n) THEN doc.overlays[n].claims ELSE << >>

Next ==
    \/ \E n \in Overlays :
        \/ Register(n)
        \/ \E etag \in Etags : Activate(n, etag) \/ Rebase(n, etag)
        \/ \E learned \in Learned(ClaimsOf(n)) : Merge(n, learned)
        \/ Undo(n)
        \/ Release(n)
        \/ \E r \in Runs, etag \in Etags, wanted \in ClaimMap :
              \E released \in SUBSET (Addresses \ DOMAIN wanted) :
                 Acquire(r, n, wanted, released, etag)
    \/ \E r \in Runs :
        \/ \E ok \in BOOLEAN, learned \in Learned(calls[r].claims),
              gone \in SUBSET calls[r].released : Finish(r, ok, learned, gone)
        \/ FinishSuperseded(r)
        \/ Timeout(r)

Spec == Init /\ [][Next]_vars

------------------------------------------------------------------------------

\* Two live overlays never hold a claim on the same address: their cloud
\* changes are disjoint, whatever commands ran and in whatever order
\* (DESIGN section 2; conflicts_for inside acquire_claims).
AddressesDisjoint ==
    \A m, n \in DOMAIN doc.overlays :
        m # n => DOMAIN doc.overlays[m].claims \cap DOMAIN doc.overlays[n].claims = {}

\* An entry names a run only while that run is still going to report: no
\* overlay is left waiting for an apply that already ended, and no run is
\* the current run of two overlays (run_id is set by acquire_claims, cleared
\* by finish_apply, and survives every other mutation).
RunsAccountedFor ==
    \A n \in DOMAIN doc.overlays :
        LET e == doc.overlays[n]
        IN  /\ e.status = "applying" => e.run # Nil
            /\ e.run # Nil => calls[e.run].phase = "applying" /\ calls[e.run].name = n

\* An apply reports on claims its overlay still holds: while a run is the
\* current one, every claim it will write back is in the entry, so that the
\* write-back of finish_apply never creates a claim that no conflict check
\* saw.  This is what makes AddressesDisjoint inductive.
CurrentRunHoldsItsClaims ==
    \A r \in Runs :
        LET n == calls[r].name
        IN  (calls[r].phase = "applying" /\ n \in DOMAIN doc.overlays /\ doc.overlays[n].run = r)
            => DOMAIN calls[r].claims \subseteq DOMAIN doc.overlays[n].claims

Survives(n) == n \in DOMAIN doc.overlays /\ n \in DOMAIN doc'.overlays

LossIsRelease(n) ==
    \A a \in DOMAIN doc.overlays[n].claims \ DOMAIN doc'.overlays[n].claims :
        \E r \in Runs :
            /\ doc.overlays[n].run = r
            /\ a \in calls[r].released
            /\ doc'.overlays[n].status = "active"
            /\ calls'[r].phase = "done"

\* Claims live until finalize or abandon (DESIGN 3.4): while an entry
\* survives it loses a claim only to the current run's own success, and only
\* for an address that run's plan deleted (released of _apply_planned).
ClaimsLiveUntilReleased == [][\A n \in Overlays : Survives(n) => LossIsRelease(n)]_vars

Forgets(old, new) ==
    (old.id # Nil /\ new.id = Nil) \/ (old.identity # Nil /\ new.identity = Nil)

\* An id or identity learned from the state is never forgotten while the claim
\* is kept, whatever a later apply or merge writes over it (_merge_claim).
LearnedIsKept ==
    [][\A n \in Overlays : Survives(n) =>
        \A a \in DOMAIN doc.overlays[n].claims \cap DOMAIN doc'.overlays[n].claims :
            ~Forgets(doc.overlays[n].claims[a], doc'.overlays[n].claims[a])]_vars

Superseded(r) ==
    LET n == calls[r].name
    IN  /\ calls[r].phase = "applying"
        /\ n \in DOMAIN doc.overlays => doc.overlays[n].run # r

\* A run that was taken over, or whose overlay was released (and perhaps
\* created again under the same name), ends without touching the document
\* (finish_apply's run_id check).
SupersededRunIsSilent ==
    [][\A r \in Runs : Superseded(r) /\ calls'[r].phase = "done" => doc' = doc]_vars

\* An overlay that starts an apply shares no create identity its plan knows
\* with another live overlay: the identity check of acquire_claims sees the
\* document it writes to.  (Identities learned only after the apply are not
\* covered: finish_apply checks nothing.)
AcquiredIdentitiesDisjoint ==
    [][\A r \in Runs, n \in Overlays :
        (calls[r].phase # "done" /\ n \in DOMAIN doc'.overlays /\ Survives(n)
         /\ doc'.overlays[n].run = r /\ doc.overlays[n].run # r)
        => \A m \in DOMAIN doc'.overlays \ {n} :
            \A a \in DOMAIN doc'.overlays[n].claims :
               LET c == doc'.overlays[n].claims[a]
               IN  (c.kind = "create" /\ c.identity # Nil
                    /\ c.identity \in CreateIdentities(doc'.overlays[m].claims))
                   => /\ a \in DOMAIN doc.overlays[n].claims
                      /\ doc.overlays[n].claims[a].identity = c.identity]_vars

==============================================================================
