---------------------------- MODULE RemoteLinks ------------------------------
(***************************************************************************)
(* Stacks that read each other: the overlays of one name on several bases, *)
(* and the map from base keys to overlay keys that every run of tofu in an *)
(* overlay gets (TF_VAR_tofu_overlay_keys), so that a stack reads the      *)
(* overlay of another instead of its base.                                 *)
(*                                                                         *)
(* One command at a time runs on a stack (OverlayLifecycle has them        *)
(* overlap); those of different stacks run together, and may crash.        *)
(* References are resolved one after the other when a command needs them   *)
(* first, and kept for the rest of it.  Of a state only the outputs count. *)
(* Names are used once; resources are only added; registries can be read.  *)
(***************************************************************************)
EXTENDS Naturals, FiniteSets

CONSTANTS
    Stacks,    \* stacks, each with a base
    Refs,      \* the bases that the configuration of each stack reads
    Outputs,   \* outputs that the branch may add to a stack
    Nil

ASSUME RefsAssumption == Refs \in [Stacks -> SUBSET Stacks]

ASSUME NilAssumption == \A outputs \in SUBSET Outputs : outputs # Nil

VARIABLES
    status,    \* of the overlay of each stack, or how it was released
    object,    \* outputs in the overlay state, or Nil
    base,      \* outputs in the base state
    used,      \* outputs of other stacks that the last apply of each overlay read, or Nil
    warned,    \* pairs of producer and consumer named by a finalize
    proc       \* the command on each stack

vars == <<status, object, base, used, warned, proc>>

------------------------------------------------------------------------------

Live == {"creating", "active", "merging"}

Released == {"merged", "abandoned"}

Idle == [pc |-> "idle", todo |-> {}, keys |-> {}, overtaken |-> {}, read |-> << >>]

TypeOK ==
    /\ status \in [Stacks -> Live \cup Released \cup {"none"}]
    /\ object \in [Stacks -> {Nil} \cup SUBSET Outputs]
    /\ base \in [Stacks -> SUBSET Outputs]
    /\ used \in [Stacks -> [Stacks -> {Nil} \cup SUBSET Outputs]]
    /\ warned \subseteq Stacks \X Stacks
    /\ \A s \in Stacks :
          /\ object[s] # Nil => status[s] \in Live
          /\ proc[s].keys \subseteq Refs[s] \ {s}

Init ==
    /\ status = [s \in Stacks |-> "none"] /\ object = [s \in Stacks |-> Nil]
    /\ base = [s \in Stacks |-> {}]
    /\ used = [s \in Stacks |-> [r \in Stacks |-> Nil]]
    /\ warned = {} /\ proc = [s \in Stacks |-> Idle]

------------------------------------------------------------------------------

Goto(s, pc) == proc' = [proc EXCEPT ![s].pc = pc]

End(s) == proc' = [proc EXCEPT ![s] = Idle]

\* A command returns, refuses or crashes.
Stop(s) ==
    /\ proc[s].pc # "idle" /\ End(s)
    /\ UNCHANGED <<status, object, base, used, warned>>

\* create registers, pushes a copy of the base, and flips.
CreateRegister(s) ==
    /\ proc[s].pc = "idle" /\ status[s] \in {"none", "creating"}
    /\ status' = [status EXCEPT ![s] = "creating"]
    /\ Goto(s, "registered")
    /\ UNCHANGED <<object, base, used, warned>>

CreatePush(s) ==
    /\ proc[s].pc = "registered"
    /\ object' = [object EXCEPT ![s] = base[s]]
    /\ Goto(s, "pushed")
    /\ UNCHANGED <<status, base, used, warned>>

CreateFlip(s) ==
    /\ proc[s].pc = "pushed"
    /\ status' = [status EXCEPT ![s] = "active"]
    /\ End(s)
    /\ UNCHANGED <<object, base, used, warned>>

------------------------------------------------------------------------------
(* apply *)

ApplyStart(s) ==
    /\ proc[s].pc = "idle" /\ status[s] = "active" /\ object[s] # Nil
    /\ proc' = [proc EXCEPT ![s] = [Idle EXCEPT !.pc = "linking", !.todo = Refs[s]]]
    /\ UNCHANGED <<status, object, base, used, warned>>

\* Mutant: the registry is believed.
Linked_Registered(s, r) == r # s /\ status[r] \in Live

\* _remote_link, remote_overlay_keys: the base of another stack with a live
\* overlay whose object is there.
Linked(s, r) == r # s /\ status[r] \in Live /\ object[r] # Nil

ApplyLink(s, r) ==
    /\ proc[s].pc = "linking" /\ r \in proc[s].todo
    /\ proc' = [proc EXCEPT ![s].todo = @ \ {r}, ![s].keys = IF Linked(s, r) THEN @ \cup {r} ELSE @]
    /\ UNCHANGED <<status, object, base, used, warned>>

\* tofu reads a state that is mapped or the base, and fails if there is none.
Readable(s) == \A r \in proc[s].keys : object[r] # Nil

ApplyPlan(s) ==
    /\ proc[s].pc = "linking" /\ proc[s].todo = {} /\ Readable(s)
    /\ proc' = [proc EXCEPT
          ![s].pc = "planned",
          ![s].read = [r \in Stacks |->
              IF r \in proc[s].keys THEN object[r] ELSE IF r \in Refs[s] THEN base[r] ELSE Nil]]
    /\ UNCHANGED <<status, object, base, used, warned>>

ApplyRun(s) ==
    /\ proc[s].pc = "planned"
    /\ \E new \in SUBSET Outputs : object' = [object EXCEPT ![s] = @ \cup new]
    /\ used' = [used EXCEPT ![s] = proc[s].read]
    /\ End(s)
    /\ UNCHANGED <<status, base, warned>>

------------------------------------------------------------------------------
(* merge, the trunk, finalize and abandon *)

Merge(s) ==
    /\ proc[s].pc = "idle" /\ status[s] = "active" /\ object[s] # Nil
    /\ status' = [status EXCEPT ![s] = "merging"]
    /\ UNCHANGED <<object, base, used, warned, proc>>

Undo(s) ==
    /\ proc[s].pc = "idle" /\ status[s] = "merging"
    /\ status' = [status EXCEPT ![s] = "active"]
    /\ UNCHANGED <<object, base, used, warned, proc>>

\* The trunk applies the branch once it is merged, as far as it gets.
TrunkApplies(s) ==
    /\ status[s] = "merging" /\ object[s] # Nil
    /\ \E some \in SUBSET object[s] : base' = [base EXCEPT ![s] = @ \cup some]
    /\ UNCHANGED <<status, object, used, warned, proc>>

\* Mutant: what the trunk has adopted is not looked at.
Adopted_Some(s) == TRUE

Adopted(s) == object[s] \subseteq base[s]

FinalizeCheck(s) ==
    /\ proc[s].pc = "idle" /\ status[s] = "merging" /\ object[s] # Nil
    /\ Adopted(s)
    /\ Goto(s, "adopted")
    /\ UNCHANGED <<status, object, base, used, warned>>

\* _sibling_env_dirs, _refs_to_own_base, _consumer_overlay.
Consumers(s) == {c \in Stacks \ {s} : s \in Refs[c] /\ status[c] \in Live}

\* _warn_consumers, before the confirmation: live overlays of stacks that read
\* this base.
FinalizeWarn(s) ==
    /\ proc[s].pc = "adopted"
    /\ warned' = warned \cup ({s} \X Consumers(s))
    /\ Goto(s, "warned")
    /\ UNCHANGED <<status, object, base, used>>

\* The destroy of abandon is in OverlayLifecycle; nobody is warned.
AbandonStart(s) ==
    /\ proc[s].pc = "idle" /\ status[s] \in {"creating", "active"}
    /\ Goto(s, "leaving")
    /\ UNCHANGED <<status, object, base, used, warned>>

\* Mutant: the object is copied and stays.
Archive_Copies(s) ==
    /\ proc[s].pc \in {"warned", "leaving"}
    /\ Goto(s, IF proc[s].pc = "warned" THEN "archived" ELSE "left")
    /\ UNCHANGED <<status, object, base, used, warned>>

\* The object goes; commands that have it mapped are overtaken.
Archive(s) ==
    /\ proc[s].pc \in {"warned", "leaving"}
    /\ object' = [object EXCEPT ![s] = Nil]
    /\ proc' = [c \in Stacks |->
          IF c = s THEN [proc[s] EXCEPT !.pc = IF @ = "warned" THEN "archived" ELSE "left"]
          ELSE [proc[c] EXCEPT !.overtaken = IF s \in proc[c].keys THEN @ \cup {s} ELSE @]]
    /\ UNCHANGED <<status, base, used, warned>>

Release(s) ==
    /\ proc[s].pc \in {"archived", "left"}
    /\ status' = [status EXCEPT ![s] = IF proc[s].pc = "archived" THEN "merged" ELSE "abandoned"]
    /\ End(s)
    /\ UNCHANGED <<object, base, used, warned>>

Next ==
    \E s \in Stacks :
        \/ CreateRegister(s) \/ CreatePush(s) \/ CreateFlip(s)
        \/ ApplyStart(s) \/ (\E r \in Stacks : ApplyLink(s, r)) \/ ApplyPlan(s) \/ ApplyRun(s)
        \/ Merge(s) \/ Undo(s) \/ TrunkApplies(s)
        \/ FinalizeCheck(s) \/ FinalizeWarn(s) \/ AbandonStart(s) \/ Archive(s) \/ Release(s)
        \/ Stop(s)

Spec == Init /\ [][Next]_vars

------------------------------------------------------------------------------

\* A run is directed at an overlay state that is not there only if the state
\* went while the command ran: released overlays, creations that stopped half
\* way and releases that crashed after the archive all fall back to the base.
FallsBack ==
    \A s \in Stacks : \A r \in proc[s].keys : object[r] = Nil => r \in proc[s].overtaken

\* A finalize takes nothing away that a live overlay of another stack was
\* applied with: the base has it by then.  Where the base has more, that
\* overlay was reported to the operator before the confirmation, the archive
\* and the release; otherwise it was applied after that report.
FinalizeKeepsInputs ==
    \A c, p \in Stacks :
        (status[p] = "merged" /\ status[c] \in Live /\ used[c][p] # Nil)
            => used[c][p] \subseteq base[p]
               /\ (used[c][p] = base[p] \/ <<p, c>> \in warned)

==============================================================================
