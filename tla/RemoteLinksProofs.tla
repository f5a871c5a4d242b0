-------------------------- MODULE RemoteLinksProofs ---------------------------
(***************************************************************************)
(* Theorems about RemoteLinks, for any number of stacks, whatever they     *)
(* read of each other, and for any outputs.                                *)
(***************************************************************************)
EXTENDS RemoteLinks, TLAPS

Pc == {"idle", "registered", "pushed", "linking", "planned", "adopted", "warned",
       "archived", "leaving", "left"}

Contents == {Nil} \cup SUBSET Outputs

Readings == {<< >>} \cup [Stacks -> Contents]

Locals ==
    [pc: Pc, todo: SUBSET Stacks, keys: SUBSET Stacks, overtaken: SUBSET Stacks,
     read: Readings]

Shape ==
    /\ status \in [Stacks -> Live \cup Released \cup {"none"}]
    /\ object \in [Stacks -> Contents]
    /\ base \in [Stacks -> SUBSET Outputs]
    /\ used \in [Stacks -> [Stacks -> Contents]]
    /\ warned \subseteq Stacks \X Stacks
    /\ proc \in [Stacks -> Locals]

\* What the overlay state of a stack is while it has a certain status.
StateFits(s) ==
    /\ object[s] # Nil => status[s] \in Live /\ base[s] \subseteq object[s]
    /\ status[s] = "creating" /\ object[s] # Nil => object[s] = base[s]
    /\ status[s] = "none" => used[s] = [r \in Stacks |-> Nil]
    /\ \A r \in Stacks : used[s][r] # Nil => r \in Refs[s]

\* What a command has established when it is at a certain step.
CommandFits(s) ==
    LET me == proc[s]
    IN  /\ me.todo \subseteq Refs[s] /\ me.keys \subseteq Refs[s] \ {s}
        /\ me.pc \notin {"linking", "planned"} => me.keys = {}
        /\ me.pc \in {"registered", "pushed"} => status[s] = "creating"
        /\ me.pc \in {"linking", "planned"} => status[s] = "active" /\ object[s] # Nil
        /\ me.pc = "planned" =>
              /\ me.read \in [Stacks -> Contents]
              /\ \A r \in Stacks : me.read[r] # Nil => r \in Refs[s]
        /\ me.pc \in {"adopted", "warned"} => status[s] = "merging" /\ object[s] = base[s]
        /\ me.pc = "archived" => status[s] = "merging" /\ object[s] = Nil
        /\ me.pc = "leaving" => status[s] \in {"creating", "active"}
        /\ me.pc = "left" => status[s] \in {"creating", "active"} /\ object[s] = Nil

Fits == Shape /\ \A s \in Stacks : StateFits(s) /\ CommandFits(s)

------------------------------------------------------------------------------

LEMMA IdleIs == Idle \in Locals /\ Idle.pc = "idle" /\ Idle.todo = {} /\ Idle.keys = {}
<1>1. << >> \in Readings
  BY DEF Readings
<1>2. QED  BY <1>1 DEF Idle, Locals, Pc

LEMMA InitFits == Init => Fits
<1> SUFFICES ASSUME Init PROVE Fits
  OBVIOUS
<1>1. Idle \in Locals /\ Idle.pc = "idle" /\ Idle.todo = {} /\ Idle.keys = {}
  BY IdleIs
<1>2. Shape
  BY <1>1 DEF Init, Shape, Contents
<1>3. \A s \in Stacks : StateFits(s)
  BY DEF Init, StateFits
<1>4. \A s \in Stacks : CommandFits(s)
  BY <1>1 DEF Init, CommandFits
<1>5. QED  BY <1>2, <1>3, <1>4 DEF Fits

\* A command that ends leaves nothing behind but what it wrote.
LEMMA IdleFits ==
    ASSUME NEW s \in Stacks, Fits, proc' = [proc EXCEPT ![s] = Idle],
           NEW t \in Stacks
    PROVE  /\ proc' \in [Stacks -> Locals]
           /\ t # s => proc'[t] = proc[t]
           /\ t = s => proc'[t].pc = "idle" /\ proc'[t].todo = {} /\ proc'[t].keys = {}
BY IdleIs DEF Fits, Shape

\* A command that goes on keeps its locals.
LEMMA GotoFits ==
    ASSUME NEW s \in Stacks, NEW pc \in Pc, Fits, Goto(s, pc), NEW t \in Stacks
    PROVE  /\ proc' \in [Stacks -> Locals]
           /\ t # s => proc'[t] = proc[t]
           /\ t = s => /\ proc'[t].pc = pc
                       /\ proc'[t].todo = proc[t].todo
                       /\ proc'[t].keys = proc[t].keys
                       /\ proc'[t].read = proc[t].read
<1>1. proc \in [Stacks -> Locals]
  BY DEF Fits, Shape
<1>2. [proc[s] EXCEPT !.pc = pc] \in Locals
  BY <1>1 DEF Locals
<1>3. proc' = [proc EXCEPT ![s] = [proc[s] EXCEPT !.pc = pc]]
  BY DEF Goto
<1>4. proc' \in [Stacks -> Locals]
  BY <1>1, <1>2, <1>3
<1>5. proc[s] = [pc |-> proc[s].pc, todo |-> proc[s].todo, keys |-> proc[s].keys,
                 overtaken |-> proc[s].overtaken, read |-> proc[s].read]
  BY <1>1 DEF Locals
<1>6. QED  BY <1>1, <1>3, <1>4, <1>5

\* What a command has established stands while nothing of its stack changes.
LEMMA OtherFits ==
    ASSUME Fits, NEW t \in Stacks, proc'[t] = proc[t], status'[t] = status[t],
           object'[t] = object[t], base'[t] = base[t]
    PROVE  CommandFits(t)'
BY DEF Fits, CommandFits

LEMMA StopFits ==
    ASSUME Fits, NEW s \in Stacks, Stop(s)
    PROVE  Fits'
<1>1. Shape'
  BY IdleFits DEF Stop, End, Fits, Shape
<1>2. ASSUME NEW t \in Stacks  PROVE StateFits(t)' /\ CommandFits(t)'
  BY IdleFits DEF Stop, End, Fits, StateFits, CommandFits
<1>3. QED  BY <1>1, <1>2 DEF Fits

LEMMA CreateFits ==
    ASSUME Fits, NEW s \in Stacks, CreateRegister(s) \/ CreatePush(s) \/ CreateFlip(s)
    PROVE  Fits'
<1>1. CASE CreateRegister(s)
  <2>1. Shape'
    BY <1>1, GotoFits DEF CreateRegister, Fits, Shape, Live, Pc
  <2>2. ASSUME NEW t \in Stacks  PROVE StateFits(t)' /\ CommandFits(t)'
    BY <1>1, GotoFits DEF CreateRegister, Fits, Shape, StateFits, CommandFits, Live, Pc
  <2>3. QED  BY <2>1, <2>2 DEF Fits
<1>2. CASE CreatePush(s)
  <2>1. Shape'
    BY <1>2, GotoFits DEF CreatePush, Fits, Shape, Contents, Pc
  <2>2. ASSUME NEW t \in Stacks  PROVE StateFits(t)' /\ CommandFits(t)'
    BY <1>2, GotoFits, NilAssumption
       DEF CreatePush, Fits, Shape, StateFits, CommandFits, Live, Pc
  <2>3. QED  BY <2>1, <2>2 DEF Fits
<1>3. CASE CreateFlip(s)
  <2>1. Shape'
    BY <1>3, IdleFits DEF CreateFlip, End, Fits, Shape, Live
  <2>2. ASSUME NEW t \in Stacks  PROVE StateFits(t)'
    BY <1>3 DEF CreateFlip, Fits, Shape, StateFits, CommandFits, Live
  <2>3. ASSUME NEW t \in Stacks  PROVE CommandFits(t)'
    <3>1. CASE t = s
      BY <1>3, <3>1, IdleFits DEF CreateFlip, End, CommandFits
    <3>2. CASE t # s
      BY <1>3, <3>2, IdleFits, OtherFits DEF CreateFlip, End, Fits, Shape
    <3>3. QED  BY <3>1, <3>2
  <2>4. QED  BY <2>1, <2>2, <2>3 DEF Fits
<1>4. QED  BY <1>1, <1>2, <1>3

LEMMA LocalsAre ==
    ASSUME NEW l \in Locals
    PROVE  l = [pc |-> l.pc, todo |-> l.todo, keys |-> l.keys, overtaken |-> l.overtaken,
                read |-> l.read]
BY DEF Locals

LEMMA ApplyStartFits ==
    ASSUME Fits, NEW s \in Stacks, ApplyStart(s)
    PROVE  Fits'
<1> DEFINE l == [Idle EXCEPT !.pc = "linking", !.todo = Refs[s]]
<1>1. l \in Locals /\ l.pc = "linking" /\ l.todo = Refs[s] /\ l.keys = {}
  BY IdleIs, RefsAssumption DEF Locals, Pc
<1>2. proc' = [proc EXCEPT ![s] = l]
  BY DEF ApplyStart
<1> HIDE DEF l
<1>3. Shape'
  BY <1>1, <1>2 DEF ApplyStart, Fits, Shape
<1>4. ASSUME NEW t \in Stacks  PROVE StateFits(t)'
  BY DEF ApplyStart, Fits, StateFits
<1>5. ASSUME NEW t \in Stacks  PROVE CommandFits(t)'
  <2>1. CASE t = s
    BY <1>1, <1>2, <2>1 DEF ApplyStart, Fits, Shape, CommandFits
  <2>2. CASE t # s
    BY <1>2, <2>2, OtherFits DEF ApplyStart, Fits, Shape
  <2>3. QED  BY <2>1, <2>2
<1>6. QED  BY <1>3, <1>4, <1>5 DEF Fits

LEMMA LinkIs ==
    ASSUME Fits, NEW s \in Stacks, NEW r \in Stacks, ApplyLink(s, r)
    PROVE  /\ proc' \in [Stacks -> Locals]
           /\ \A t \in Stacks \ {s} : proc'[t] = proc[t]
           /\ proc'[s].pc = "linking" /\ proc'[s].todo = proc[s].todo \ {r}
           /\ proc'[s].keys = IF Linked(s, r) THEN proc[s].keys \cup {r} ELSE proc[s].keys
           /\ proc'[s].overtaken = proc[s].overtaken
<1> DEFINE l == [proc[s] EXCEPT !.todo = @ \ {r},
                                !.keys = IF Linked(s, r) THEN @ \cup {r} ELSE @]
<1>1. proc[s] \in Locals /\ proc \in [Stacks -> Locals] /\ proc[s].pc = "linking"
  BY DEF Fits, Shape, ApplyLink
<1>2. /\ l \in Locals /\ l.pc = "linking" /\ l.todo = proc[s].todo \ {r}
      /\ l.keys = IF Linked(s, r) THEN proc[s].keys \cup {r} ELSE proc[s].keys
      /\ l.overtaken = proc[s].overtaken
  BY <1>1 DEF Locals
<1>3. proc' = [proc EXCEPT ![s] = l]
  BY <1>1, LocalsAre DEF ApplyLink
<1> HIDE DEF l
<1>4. QED  BY <1>1, <1>2, <1>3

LEMMA ApplyLinkFits ==
    ASSUME Fits, NEW s \in Stacks, NEW r \in Stacks, ApplyLink(s, r)
    PROVE  Fits'
<1>1. /\ proc[s].todo \subseteq Refs[s] /\ proc[s].keys \subseteq Refs[s] \ {s}
      /\ status[s] = "active" /\ object[s] # Nil /\ r \in Refs[s]
  BY DEF Fits, CommandFits, ApplyLink
<1>2. Shape'
  BY LinkIs DEF ApplyLink, Fits, Shape
<1>3. ASSUME NEW t \in Stacks  PROVE StateFits(t)'
  BY DEF ApplyLink, Fits, StateFits
<1>4. ASSUME NEW t \in Stacks  PROVE CommandFits(t)'
  <2>1. CASE t = s
    <3>1. proc'[s].todo = proc[s].todo \ {r} /\ proc'[s].pc = "linking"
          /\ proc'[s].keys = IF Linked(s, r) THEN proc[s].keys \cup {r} ELSE proc[s].keys
      BY LinkIs
    <3>2. UNCHANGED <<status, object>>
      BY DEF ApplyLink
    <3>3. proc'[s].todo \subseteq Refs[s] /\ proc'[s].keys \subseteq Refs[s] \ {s}
      BY <1>1, <3>1 DEF Linked
    <3>4. QED  BY <1>1, <2>1, <3>1, <3>2, <3>3 DEF CommandFits
  <2>2. CASE t # s
    BY <2>2, LinkIs, OtherFits DEF ApplyLink
  <2>3. QED  BY <2>1, <2>2
<1>5. QED  BY <1>2, <1>3, <1>4 DEF Fits

\* What a plan of s reads.
Reading(s) ==
    [r \in Stacks |->
        IF r \in proc[s].keys THEN object[r] ELSE IF r \in Refs[s] THEN base[r] ELSE Nil]

LEMMA PlannedIs ==
    ASSUME NEW l \in Locals, NEW v \in Readings
    PROVE  /\ [l EXCEPT !.pc = "planned", !.read = v] \in Locals
           /\ [l EXCEPT !.pc = "planned", !.read = v].pc = "planned"
           /\ [l EXCEPT !.pc = "planned", !.read = v].todo = l.todo
           /\ [l EXCEPT !.pc = "planned", !.read = v].keys = l.keys
           /\ [l EXCEPT !.pc = "planned", !.read = v].read = v
BY DEF Locals, Pc

LEMMA PlanReads ==
    ASSUME Fits, NEW s \in Stacks, ApplyPlan(s)
    PROVE  /\ proc' \in [Stacks -> Locals]
           /\ \A t \in Stacks \ {s} : proc'[t] = proc[t]
           /\ proc'[s].pc = "planned" /\ proc'[s].todo = proc[s].todo
           /\ proc'[s].keys = proc[s].keys
           /\ proc'[s].read = Reading(s)
           /\ Reading(s) \in [Stacks -> Contents]
           /\ \A r \in Stacks : Reading(s)[r] # Nil => r \in Refs[s]
<1> DEFINE l == [proc[s] EXCEPT !.pc = "planned", !.read = Reading(s)]
<1>1. proc \in [Stacks -> Locals] /\ proc[s].keys \subseteq Refs[s]
  BY DEF Fits, Shape, CommandFits
<1>2. Reading(s) \in [Stacks -> Contents]
  BY DEF Fits, Shape, Contents, Reading
<1>3. l \in Locals /\ l.pc = "planned" /\ l.todo = proc[s].todo
      /\ l.keys = proc[s].keys /\ l.read = Reading(s)
  <2>1. Reading(s) \in Readings
    BY <1>2 DEF Readings
  <2>2. QED  BY <1>1, <2>1, PlannedIs
<1>4. proc' = [proc EXCEPT ![s] = l]
  BY <1>1, LocalsAre DEF ApplyPlan, Reading
<1>5. \A r \in Stacks : Reading(s)[r] # Nil => r \in Refs[s]
  BY <1>1 DEF Reading
<1> HIDE DEF l
<1>6. QED  BY <1>1, <1>2, <1>3, <1>4, <1>5

LEMMA ApplyPlanFits ==
    ASSUME Fits, NEW s \in Stacks, ApplyPlan(s)
    PROVE  Fits'
<1>1. Shape'
  BY PlanReads DEF ApplyPlan, Fits, Shape
<1>2. ASSUME NEW t \in Stacks  PROVE StateFits(t)'
  BY DEF ApplyPlan, Fits, StateFits
<1>3. ASSUME NEW t \in Stacks  PROVE CommandFits(t)'
  <2>1. CASE t = s
    <3>1. /\ proc'[s].pc = "planned" /\ proc'[s].todo = proc[s].todo
          /\ proc'[s].keys = proc[s].keys /\ proc'[s].read = Reading(s)
          /\ Reading(s) \in [Stacks -> Contents]
          /\ \A r \in Stacks : Reading(s)[r] # Nil => r \in Refs[s]
      BY PlanReads
    <3>2. CommandFits(s) /\ proc[s].pc = "linking" /\ UNCHANGED <<status, object>>
      BY DEF ApplyPlan, Fits
    <3>3. QED  BY <2>1, <3>1, <3>2 DEF CommandFits
  <2>2. CASE t # s
    BY <2>2, PlanReads, OtherFits DEF ApplyPlan
  <2>3. QED  BY <2>1, <2>2
<1>4. QED  BY <1>1, <1>2, <1>3 DEF Fits

LEMMA ApplyRunFits ==
    ASSUME Fits, NEW s \in Stacks, ApplyRun(s)
    PROVE  Fits'
<1>1. PICK new \in SUBSET Outputs : object' = [object EXCEPT ![s] = @ \cup new]
  BY DEF ApplyRun
<1>2. /\ proc[s].read \in [Stacks -> Contents]
      /\ \A r \in Stacks : proc[s].read[r] # Nil => r \in Refs[s]
      /\ status[s] = "active" /\ object[s] \in SUBSET Outputs
  BY DEF ApplyRun, Fits, Shape, CommandFits, Contents
<1>3. object'[s] \in SUBSET Outputs /\ object[s] \subseteq object'[s]
      /\ \A t \in Stacks \ {s} : object'[t] = object[t]
  BY <1>1, <1>2 DEF Fits, Shape
<1>4. Shape'
  BY <1>1, <1>2, <1>3, IdleFits DEF ApplyRun, End, Fits, Shape, Contents
<1>5. ASSUME NEW t \in Stacks  PROVE StateFits(t)'
  BY <1>2, <1>3, NilAssumption DEF ApplyRun, Fits, Shape, StateFits, Live
<1>6. ASSUME NEW t \in Stacks  PROVE CommandFits(t)'
  <2>1. CASE t = s
    BY <2>1, IdleFits DEF ApplyRun, End, CommandFits
  <2>2. CASE t # s
    BY <1>3, <2>2, IdleFits, OtherFits DEF ApplyRun, End
  <2>3. QED  BY <2>1, <2>2
<1>7. QED  BY <1>4, <1>5, <1>6 DEF Fits

LEMMA TrunkFits ==
    ASSUME Fits, NEW s \in Stacks, Merge(s) \/ Undo(s) \/ TrunkApplies(s)
    PROVE  Fits'
<1>1. CASE Merge(s)
  <2>1. Shape'
    BY <1>1 DEF Merge, Fits, Shape, Live
  <2>2. ASSUME NEW t \in Stacks  PROVE StateFits(t)' /\ CommandFits(t)'
    BY <1>1 DEF Merge, Fits, Shape, StateFits, CommandFits, Live
  <2>3. QED  BY <2>1, <2>2 DEF Fits
<1>2. CASE Undo(s)
  <2>1. Shape'
    BY <1>2 DEF Undo, Fits, Shape, Live
  <2>2. ASSUME NEW t \in Stacks  PROVE StateFits(t)' /\ CommandFits(t)'
    BY <1>2 DEF Undo, Fits, Shape, StateFits, CommandFits, Live
  <2>3. QED  BY <2>1, <2>2 DEF Fits
<1>3. CASE TrunkApplies(s)
  <2>1. PICK some \in SUBSET object[s] : base' = [base EXCEPT ![s] = @ \cup some]
    BY <1>3 DEF TrunkApplies
  <2>2. object[s] \in SUBSET Outputs /\ base[s] \subseteq object[s]
    BY <1>3 DEF TrunkApplies, Fits, Shape, StateFits, Contents
  <2>3. base'[s] = base[s] \cup some /\ base'[s] \subseteq object[s]
        /\ \A t \in Stacks \ {s} : base'[t] = base[t]
    BY <2>1, <2>2 DEF Fits, Shape
  <2>4. Shape'
    BY <1>3, <2>1, <2>2, <2>3 DEF TrunkApplies, Fits, Shape
  <2>5. ASSUME NEW t \in Stacks  PROVE StateFits(t)'
    BY <1>3, <2>3 DEF TrunkApplies, Fits, StateFits
  <2>6. ASSUME NEW t \in Stacks  PROVE CommandFits(t)'
    <3>1. CASE t = s
      BY <1>3, <2>3, <3>1 DEF TrunkApplies, Fits, CommandFits
    <3>2. CASE t # s
      BY <1>3, <2>3, <3>2, OtherFits DEF TrunkApplies
    <3>3. QED  BY <3>1, <3>2
  <2>7. QED  BY <2>4, <2>5, <2>6 DEF Fits
<1>4. QED  BY <1>1, <1>2, <1>3

LEMMA FinalizeFits ==
    ASSUME Fits, NEW s \in Stacks, FinalizeCheck(s) \/ FinalizeWarn(s) \/ AbandonStart(s)
    PROVE  Fits'
<1>1. CASE FinalizeCheck(s)
  <2>1. object[s] = base[s]
    BY <1>1 DEF FinalizeCheck, Adopted, Fits, StateFits
  <2>2. Shape'
    BY <1>1, GotoFits DEF FinalizeCheck, Fits, Shape, Pc
  <2>3. ASSUME NEW t \in Stacks  PROVE StateFits(t)'
    BY <1>1 DEF FinalizeCheck, Fits, StateFits
  <2>4. ASSUME NEW t \in Stacks  PROVE CommandFits(t)'
    BY <1>1, <2>1, GotoFits DEF FinalizeCheck, Fits, CommandFits, Pc
  <2>5. QED  BY <2>2, <2>3, <2>4 DEF Fits
<1>2. CASE FinalizeWarn(s)
  <2>1. Shape'
    BY <1>2, GotoFits DEF FinalizeWarn, Consumers, Fits, Shape, Pc
  <2>2. ASSUME NEW t \in Stacks  PROVE StateFits(t)'
    BY <1>2 DEF FinalizeWarn, Fits, StateFits
  <2>3. ASSUME NEW t \in Stacks  PROVE CommandFits(t)'
    BY <1>2, GotoFits DEF FinalizeWarn, Fits, CommandFits, Pc
  <2>4. QED  BY <2>1, <2>2, <2>3 DEF Fits
<1>3. CASE AbandonStart(s)
  <2>1. Shape'
    BY <1>3, GotoFits DEF AbandonStart, Fits, Shape, Pc
  <2>2. ASSUME NEW t \in Stacks  PROVE StateFits(t)'
    BY <1>3 DEF AbandonStart, Fits, StateFits
  <2>3. ASSUME NEW t \in Stacks  PROVE CommandFits(t)'
    BY <1>3, GotoFits DEF AbandonStart, Fits, CommandFits, Pc
  <2>4. QED  BY <2>1, <2>2, <2>3 DEF Fits
<1>4. QED  BY <1>1, <1>2, <1>3

\* An archive changes no command but the one that does it, and what the
\* others have lost.
LEMMA ArchiveKeeps ==
    ASSUME Fits, NEW s \in Stacks, Archive(s)
    PROVE  /\ proc' \in [Stacks -> Locals]
           /\ \A c \in Stacks :
                 /\ proc'[c].todo = proc[c].todo /\ proc'[c].keys = proc[c].keys
                 /\ proc'[c].read = proc[c].read
                 /\ c # s => /\ proc'[c].pc = proc[c].pc
                             /\ proc'[c].overtaken = IF s \in proc[c].keys
                                                       THEN proc[c].overtaken \cup {s}
                                                       ELSE proc[c].overtaken
           /\ proc'[s].pc = IF proc[s].pc = "warned" THEN "archived" ELSE "left"
<1> DEFINE mine == [proc[s] EXCEPT !.pc = IF @ = "warned" THEN "archived" ELSE "left"]
           other(c) == [proc[c] EXCEPT !.overtaken = IF s \in proc[c].keys THEN @ \cup {s} ELSE @]
<1>1. proc \in [Stacks -> Locals]
  BY DEF Fits, Shape
<1>2. /\ mine \in Locals
      /\ mine.todo = proc[s].todo /\ mine.keys = proc[s].keys /\ mine.read = proc[s].read
      /\ mine.pc = IF proc[s].pc = "warned" THEN "archived" ELSE "left"
  BY <1>1, LocalsAre DEF Locals, Pc
<1>3. ASSUME NEW c \in Stacks
      PROVE  /\ other(c) \in Locals
             /\ other(c).todo = proc[c].todo /\ other(c).keys = proc[c].keys
             /\ other(c).read = proc[c].read /\ other(c).pc = proc[c].pc
             /\ other(c).overtaken = IF s \in proc[c].keys THEN proc[c].overtaken \cup {s}
                                                         ELSE proc[c].overtaken
  BY <1>1, LocalsAre DEF Locals
<1>4. proc' = [c \in Stacks |-> IF c = s THEN mine ELSE other(c)]
  BY DEF Archive
<1> HIDE DEF mine, other
<1>5. QED  BY <1>2, <1>3, <1>4

LEMMA ArchiveFits ==
    ASSUME Fits, NEW s \in Stacks, Archive(s)
    PROVE  Fits'
<1>1. object' = [object EXCEPT ![s] = Nil] /\ UNCHANGED <<status, base, used, warned>>
      /\ proc[s].pc \in {"warned", "leaving"}
  BY DEF Archive
<1>2. Shape'
  BY <1>1, ArchiveKeeps DEF Fits, Shape, Contents
<1>3. ASSUME NEW t \in Stacks  PROVE StateFits(t)'
  BY <1>1 DEF Fits, Shape, StateFits
<1>4. ASSUME NEW t \in Stacks  PROVE CommandFits(t)'
  <2>1. CASE t = s
    <3>1. CommandFits(s)
      BY DEF Fits
    <3>2. /\ proc'[s].todo = proc[s].todo /\ proc'[s].keys = proc[s].keys
          /\ proc'[s].pc = IF proc[s].pc = "warned" THEN "archived" ELSE "left"
      BY ArchiveKeeps
    <3>3. object'[s] = Nil /\ status'[s] = status[s]
      BY <1>1 DEF Fits, Shape
    <3>4. CASE proc[s].pc = "warned"
      BY <2>1, <3>1, <3>2, <3>3, <3>4 DEF CommandFits
    <3>5. CASE proc[s].pc = "leaving"
      BY <2>1, <3>1, <3>2, <3>3, <3>5 DEF CommandFits
    <3>6. QED  BY <1>1, <3>4, <3>5
  <2>2. CASE t # s
    <3>1. /\ proc'[t].pc = proc[t].pc /\ proc'[t].todo = proc[t].todo
          /\ proc'[t].keys = proc[t].keys /\ proc'[t].read = proc[t].read
      BY <2>2, ArchiveKeeps
    <3>2. object'[t] = object[t] /\ status'[t] = status[t] /\ base'[t] = base[t]
      BY <1>1, <2>2 DEF Fits, Shape
    <3>3. CommandFits(t)
      BY DEF Fits
    <3>4. QED  BY <3>1, <3>2, <3>3 DEF CommandFits
  <2>3. QED  BY <2>1, <2>2
<1>5. QED  BY <1>2, <1>3, <1>4 DEF Fits

LEMMA ReleaseFits ==
    ASSUME Fits, NEW s \in Stacks, Release(s)
    PROVE  Fits'
<1>1. object[s] = Nil
  BY DEF Release, Fits, CommandFits
<1>2. Shape'
  BY IdleFits DEF Release, End, Fits, Shape, Released
<1>3. ASSUME NEW t \in Stacks  PROVE StateFits(t)'
  BY <1>1 DEF Release, Fits, Shape, StateFits
<1>4. ASSUME NEW t \in Stacks  PROVE CommandFits(t)'
  <2>1. CASE t = s
    BY <2>1, IdleFits DEF Release, End, CommandFits
  <2>2. CASE t # s
    BY <2>2, IdleFits, OtherFits DEF Release, End, Fits, Shape
  <2>3. QED  BY <2>1, <2>2
<1>5. QED  BY <1>2, <1>3, <1>4 DEF Fits

LEMMA NextFits == Fits /\ [Next]_vars => Fits'
<1>1. ASSUME Fits, UNCHANGED vars  PROVE Fits'
  BY <1>1 DEF Fits, Shape, StateFits, CommandFits, vars
<1>2. ASSUME Fits, Next  PROVE Fits'
  BY <1>2, CreateFits, ApplyStartFits, ApplyLinkFits, ApplyPlanFits, ApplyRunFits,
     TrunkFits, FinalizeFits, ArchiveFits, ReleaseFits, StopFits DEF Next
<1>3. QED  BY <1>1, <1>2

\* The state and the commands always fit together: the invariant that the
\* other theorems rest on.
THEOREM CommandsFitTheState == Spec => []Fits
BY InitFits, NextFits, PTL DEF Spec

\* TypeOK of RemoteLinks: the type invariant, with an object only under a live
\* entry (registry.py, set_status and release; overlay.py, archive).
THEOREM TypeCorrect == Spec => []TypeOK
<1>1. Fits => TypeOK
  BY DEF Fits, Shape, Contents, StateFits, CommandFits, TypeOK
<1>2. QED  BY <1>1, CommandsFitTheState, PTL

------------------------------------------------------------------------------

LEMMA NextFallsBack == Fits /\ FallsBack /\ [Next]_vars => FallsBack'
<1> SUFFICES ASSUME Fits, FallsBack, Next  PROVE FallsBack'
  BY DEF FallsBack, vars
<1>1. PICK s \in Stacks :
        \/ CreateRegister(s) \/ CreatePush(s) \/ CreateFlip(s)
        \/ ApplyStart(s) \/ (\E r \in Stacks : ApplyLink(s, r)) \/ ApplyPlan(s) \/ ApplyRun(s)
        \/ Merge(s) \/ Undo(s) \/ TrunkApplies(s)
        \/ FinalizeCheck(s) \/ FinalizeWarn(s) \/ AbandonStart(s) \/ Archive(s) \/ Release(s)
        \/ Stop(s)
  BY DEF Next
<1>2. SUFFICES ASSUME NEW t \in Stacks, NEW r \in proc'[t].keys, object'[r] = Nil
               PROVE  r \in proc'[t].overtaken
  BY DEF FallsBack
<1>3. Fits'
  BY NextFits
<1>4. r \in Stacks /\ proc'[t].pc \in {"linking", "planned"}
  BY <1>2, <1>3, RefsAssumption DEF Fits, CommandFits
<1>5. CASE proc'[t].keys = proc[t].keys /\ proc'[t].overtaken = proc[t].overtaken
           /\ (object[r] = Nil \/ object'[r] # Nil)
  BY <1>2, <1>5 DEF FallsBack
<1>6. CASE \E q \in Stacks : ApplyLink(s, q)
  <2>1. PICK q \in Stacks : ApplyLink(s, q)
    BY <1>6
  <2>2. CASE t = s
    <3>1. proc'[s].keys = (IF Linked(s, q) THEN proc[s].keys \cup {q} ELSE proc[s].keys)
          /\ proc'[s].overtaken = proc[s].overtaken
      BY <2>1, LinkIs
    <3>2. CASE r \in proc[s].keys
      BY <1>2, <2>1, <2>2, <3>1, <3>2 DEF ApplyLink, FallsBack
    <3>3. CASE r = q /\ Linked(s, q)
      BY <1>2, <2>1, <3>3 DEF ApplyLink, Linked
    <3>4. QED  BY <1>2, <2>2, <3>1, <3>2, <3>3
  <2>3. CASE t # s
    BY <1>2, <2>1, <2>3 DEF ApplyLink, Fits, Shape, FallsBack
  <2>4. QED  BY <2>2, <2>3
<1>7. CASE Archive(s)
  <2>1. t # s
    BY <1>4, <1>7, ArchiveKeeps
  <2>2. proc'[t].keys = proc[t].keys
        /\ proc'[t].overtaken = IF s \in proc[t].keys THEN proc[t].overtaken \cup {s}
                                                      ELSE proc[t].overtaken
    BY <1>7, <2>1, ArchiveKeeps
  <2>3. CASE r = s
    BY <1>2, <2>2, <2>3
  <2>4. CASE r # s
    <3>1. object[r] = Nil
      BY <1>2, <1>4, <1>7, <2>4 DEF Archive, Fits, Shape
    <3>2. QED  BY <1>2, <2>2, <3>1 DEF FallsBack
  <2>5. QED  BY <2>3, <2>4
<1>8. CASE ApplyPlan(s)
  <2>1. proc'[t].keys = proc[t].keys
    BY <1>8, PlanReads
  <2>2. proc'[t].overtaken = proc[t].overtaken
    BY <1>8, LocalsAre DEF ApplyPlan, Fits, Shape
  <2>3. QED  BY <1>2, <1>8, <2>1, <2>2 DEF ApplyPlan, FallsBack
<1>9. CASE proc' = [proc EXCEPT ![s] = Idle] /\ (object[r] = Nil \/ object'[r] # Nil)
  <2>1. t # s
    BY <1>4, <1>9, IdleFits
  <2>2. proc'[t] = proc[t]
    BY <1>9, <2>1, IdleFits
  <2>3. QED  BY <1>5, <1>9, <2>2
<1>10. CASE \E pc \in Pc \ {"linking", "planned"} :
              Goto(s, pc) /\ (object[r] = Nil \/ object'[r] # Nil)
  <2>1. PICK pc \in Pc \ {"linking", "planned"} : Goto(s, pc)
    BY <1>10
  <2>2. t # s
    BY <1>4, <2>1, GotoFits
  <2>3. proc'[t] = proc[t]
    BY <2>1, <2>2, GotoFits
  <2>4. QED  BY <1>5, <1>10, <2>3
<1>11. CASE CreateRegister(s) \/ CreatePush(s) \/ FinalizeCheck(s) \/ FinalizeWarn(s)
            \/ AbandonStart(s)
  <2>1. object[r] = Nil \/ object'[r] # Nil
    BY <1>4, <1>11, NilAssumption
       DEF CreateRegister, CreatePush, FinalizeCheck, FinalizeWarn, AbandonStart, Fits, Shape
  <2>2. QED
    BY <1>10, <1>11, <2>1
       DEF CreateRegister, CreatePush, FinalizeCheck, FinalizeWarn, AbandonStart, Pc
<1>12. CASE CreateFlip(s) \/ ApplyRun(s) \/ Release(s) \/ Stop(s)
  <2>1. object[r] = Nil \/ object'[r] # Nil
    <3>1. CASE ApplyRun(s)
      <4>1. PICK new \in SUBSET Outputs : object' = [object EXCEPT ![s] = @ \cup new]
        BY <3>1 DEF ApplyRun
      <4>2. object[s] \in SUBSET Outputs
        BY <3>1 DEF ApplyRun, Fits, Shape, CommandFits, Contents
      <4>3. QED  BY <1>4, <4>1, <4>2, NilAssumption DEF Fits, Shape
    <3>2. QED  BY <1>12, <3>1 DEF CreateFlip, Release, Stop
  <2>2. QED  BY <1>9, <1>12, <2>1 DEF CreateFlip, ApplyRun, Release, Stop, End
<1>13. CASE ApplyStart(s)
  <2>1. t # s
    BY <1>2, <1>13, IdleIs DEF ApplyStart, Fits, Shape, Idle
  <2>2. proc'[t] = proc[t]
    BY <1>13, <2>1 DEF ApplyStart, Fits, Shape
  <2>3. QED  BY <1>5, <1>13, <2>2 DEF ApplyStart
<1>14. CASE Merge(s) \/ Undo(s) \/ TrunkApplies(s)
  BY <1>5, <1>14 DEF Merge, Undo, TrunkApplies
<1>15. QED
  BY <1>1, <1>6, <1>7, <1>8, <1>11, <1>12, <1>13, <1>14

\* FallsBack of RemoteLinks: _remote_link maps a base to an overlay only while
\* the object is there, and only an archive during the run takes it away.
THEOREM RunsFallBack == Spec => []FallsBack
<1>1. Init => FallsBack
  BY IdleIs DEF Init, FallsBack
<1>2. QED  BY <1>1, CommandsFitTheState, NextFallsBack, PTL DEF Spec

------------------------------------------------------------------------------

\* What c was applied with, or is about to be, of the stack p.
Inputs(c, p) ==
    ({used[c][p]} \cup (IF proc[c].pc = "planned" THEN {proc[c].read[p]} ELSE {})) \ {Nil}

\* p is on its way out, past the report to its consumers.
Reported(p) == proc[p].pc \in {"warned", "archived"} \/ status[p] = "merged"

\* While p is written its state has what c took from it; from its archive on,
\* and before it is written, the base has.
Kept(c, p) ==
    \A v \in Inputs(c, p) :
        /\ status[p] \in {"none", "creating"} => v \subseteq base[p]
        /\ object[p] # Nil => v \subseteq object[p]
        /\ proc[p].pc = "archived" \/ status[p] = "merged" => v \subseteq base[p]
        /\ Reported(p) /\ c # p /\ status[c] \in Live => v = base[p] \/ <<p, c>> \in warned

AllKept == \A c, p \in Stacks : Kept(c, p)

\* Nothing new is taken, and nothing of p has changed.
LEMMA KeptStays ==
    ASSUME NEW c \in Stacks, NEW p \in Stacks, Kept(c, p),
           Inputs(c, p)' \subseteq Inputs(c, p),
           status'[p] = status[p], object'[p] = object[p], base'[p] = base[p],
           proc'[p].pc = proc[p].pc \/ proc'[p].pc \notin {"warned", "archived"},
           status'[c] \in Live => status[c] \in Live, warned \subseteq warned'
    PROVE  Kept(c, p)'
BY DEF Kept, Reported

LEMMA InputsAre ==
    ASSUME Fits, NEW c \in Stacks, NEW p \in Stacks, NEW v \in Inputs(c, p)
    PROVE  v \in SUBSET Outputs /\ p \in Refs[c] /\ status[c] # "none"
<1>1. used[c][p] \in Contents /\ (used[c][p] # Nil => p \in Refs[c] /\ status[c] # "none")
  BY DEF Fits, Shape, StateFits
<1>2. proc[c].pc = "planned" =>
        /\ proc[c].read[p] \in Contents /\ status[c] = "active"
        /\ proc[c].read[p] # Nil => p \in Refs[c]
  BY DEF Fits, CommandFits
<1>3. QED  BY <1>1, <1>2 DEF Inputs, Contents

\* Only a plan takes something in.
LEMMA NothingTaken ==
    ASSUME Fits, NEW s \in Stacks, NEW c \in Stacks, NEW p \in Stacks,
           \/ CreateRegister(s) \/ CreatePush(s) \/ CreateFlip(s)
           \/ ApplyStart(s) \/ (\E r \in Stacks : ApplyLink(s, r)) \/ ApplyRun(s)
           \/ Merge(s) \/ Undo(s) \/ TrunkApplies(s)
           \/ FinalizeCheck(s) \/ FinalizeWarn(s) \/ AbandonStart(s) \/ Archive(s)
           \/ Release(s) \/ Stop(s)
    PROVE  /\ Inputs(c, p)' \subseteq Inputs(c, p)
           /\ p # s => proc'[p].pc = proc[p].pc
<1>1. CASE CreateRegister(s) \/ CreatePush(s) \/ FinalizeCheck(s) \/ FinalizeWarn(s)
           \/ AbandonStart(s)
  <2>1. PICK pc \in Pc \ {"planned"} : Goto(s, pc) /\ used' = used
    BY <1>1 DEF CreateRegister, CreatePush, FinalizeCheck, FinalizeWarn, AbandonStart, Pc
  <2>2. QED  BY <2>1, GotoFits DEF Inputs
<1>2. CASE CreateFlip(s) \/ Release(s) \/ Stop(s)
  BY <1>2, IdleFits DEF CreateFlip, Release, Stop, End, Inputs
<1>3. CASE ApplyRun(s)
  <2>1. proc[s].pc = "planned" /\ used' = [used EXCEPT ![s] = proc[s].read]
        /\ proc' = [proc EXCEPT ![s] = Idle]
    BY <1>3 DEF ApplyRun, End
  <2>2. CASE c = s
    <3>1. used'[c][p] = proc[c].read[p] /\ proc'[c].pc = "idle"
      BY <2>1, <2>2, IdleFits DEF Fits, Shape
    <3>2. QED  BY <2>1, <2>2, <3>1, IdleFits DEF Inputs
  <2>3. CASE c # s
    <3>1. used'[c] = used[c] /\ proc'[c] = proc[c]
      BY <2>1, <2>3, IdleFits DEF Fits, Shape
    <3>2. QED  BY <2>1, <3>1, IdleFits DEF Inputs
  <2>4. QED  BY <2>2, <2>3
<1>4. CASE ApplyStart(s)
  <2>1. proc'[s].pc = "linking" /\ \A t \in Stacks \ {s} : proc'[t] = proc[t]
    BY <1>4, IdleIs DEF ApplyStart, Fits, Shape, Idle
  <2>2. QED  BY <1>4, <2>1 DEF ApplyStart, Inputs
<1>5. CASE \E r \in Stacks : ApplyLink(s, r)
  <2>1. PICK r \in Stacks : ApplyLink(s, r)
    BY <1>5
  <2>2. proc'[s].pc = "linking" /\ \A t \in Stacks \ {s} : proc'[t] = proc[t]
    BY <2>1, LinkIs
  <2>3. QED  BY <2>1, <2>2 DEF ApplyLink, Inputs
<1>6. CASE Merge(s) \/ Undo(s) \/ TrunkApplies(s)
  BY <1>6 DEF Merge, Undo, TrunkApplies, Inputs
<1>7. CASE Archive(s)
  BY <1>7, ArchiveKeeps DEF Archive, Inputs
<1>8. QED
  BY <1>1, <1>2, <1>3, <1>4, <1>5, <1>6, <1>7

\* What a plan takes of p is what p's state, or the base, has then.
LEMMA KeptByPlan ==
    ASSUME Fits, AllKept, NEW s \in Stacks, ApplyPlan(s), NEW c \in Stacks, NEW p \in Stacks
    PROVE  Kept(c, p)'
<1>1. UNCHANGED <<status, object, base, used, warned>> /\ Readable(s)
  BY DEF ApplyPlan
<1>2. proc'[p].pc = proc[p].pc \/ proc'[p].pc = "planned"
  BY PlanReads
<1>3. Kept(c, p) /\ StateFits(p) /\ CommandFits(p) /\ base[p] \in SUBSET Outputs
  BY DEF AllKept, Fits, Shape
<1>4. CASE c # s
  <2>1. Inputs(c, p)' = Inputs(c, p)
    BY <1>1, <1>4, PlanReads DEF Inputs
  <2>2. QED  BY <1>1, <1>2, <1>3, <2>1, KeptStays
<1>5. CASE c = s
  <2>1. Inputs(c, p)' \subseteq Inputs(c, p) \cup ({Reading(s)[p]} \ {Nil})
    BY <1>1, <1>5, PlanReads DEF Inputs
  <2>2. Reading(s)[p] = IF p \in proc[s].keys THEN object[p]
                        ELSE IF p \in Refs[s] THEN base[p] ELSE Nil
    BY DEF Reading
  <2>3. ASSUME NEW v \in Inputs(c, p)', v = Reading(s)[p], v # Nil
        PROVE  /\ status[p] \in {"none", "creating"} => v \subseteq base[p]
               /\ object[p] # Nil => v \subseteq object[p]
               /\ proc[p].pc = "archived" \/ status[p] = "merged" => v \subseteq base[p]
               /\ Reported(p) => v = base[p]
    <3>1. CASE v = object[p]
      BY <1>3, <2>3, <3>1 DEF StateFits, CommandFits, Reported, Live
    <3>2. CASE v = base[p]
      BY <1>3, <2>3, <3>2 DEF StateFits, CommandFits, Reported
    <3>3. QED  BY <2>2, <2>3, <3>1, <3>2
  <2>4. Reported(p)' => Reported(p)
    BY <1>1, <1>2 DEF Reported
  <2>5. QED  BY <1>1, <1>2, <1>3, <2>1, <2>3, <2>4 DEF Kept
<1>6. QED  BY <1>4, <1>5

LEMMA NextKept == Fits /\ AllKept /\ [Next]_vars => AllKept'
<1> SUFFICES ASSUME Fits, AllKept, [Next]_vars, NEW c \in Stacks, NEW p \in Stacks
             PROVE  Kept(c, p)'
  BY DEF AllKept
<1>0. CASE UNCHANGED vars
  BY <1>0, KeptStays DEF AllKept, Inputs, vars
<1> SUFFICES ASSUME Next  PROVE Kept(c, p)'
  BY <1>0
<1>1. PICK s \in Stacks :
        \/ CreateRegister(s) \/ CreatePush(s) \/ CreateFlip(s)
        \/ ApplyStart(s) \/ (\E r \in Stacks : ApplyLink(s, r)) \/ ApplyPlan(s) \/ ApplyRun(s)
        \/ Merge(s) \/ Undo(s) \/ TrunkApplies(s)
        \/ FinalizeCheck(s) \/ FinalizeWarn(s) \/ AbandonStart(s) \/ Archive(s) \/ Release(s)
        \/ Stop(s)
  BY DEF Next
<1>2. Kept(c, p) /\ StateFits(p) /\ CommandFits(p) /\ base[p] \in SUBSET Outputs
  BY DEF AllKept, Fits, Shape
<1>3. CASE ApplyPlan(s)
  BY <1>3, KeptByPlan
<1> DEFINE Rest ==
        \/ CreateRegister(s) \/ CreatePush(s) \/ CreateFlip(s)
        \/ ApplyStart(s) \/ (\E r \in Stacks : ApplyLink(s, r)) \/ ApplyRun(s)
        \/ Merge(s) \/ Undo(s) \/ TrunkApplies(s)
        \/ FinalizeCheck(s) \/ FinalizeWarn(s) \/ AbandonStart(s) \/ Archive(s)
        \/ Release(s) \/ Stop(s)
<1>4. ASSUME Rest
      PROVE  /\ Inputs(c, p)' \subseteq Inputs(c, p)
             /\ p # s => proc'[p].pc = proc[p].pc
  BY <1>4, NothingTaken
<1>5. ASSUME NEW v \in Inputs(c, p)
      PROVE  v \in SUBSET Outputs /\ p \in Refs[c] /\ status[c] # "none"
  BY InputsAre
<1>6. CASE Rest /\ p # s
  <2>1. status'[p] = status[p] /\ object'[p] = object[p] /\ base'[p] = base[p]
        /\ warned \subseteq warned'
    BY <1>6
       DEF Rest, CreateRegister, CreatePush, CreateFlip, ApplyStart, ApplyLink, ApplyRun, Merge,
           Undo, TrunkApplies, FinalizeCheck, FinalizeWarn, AbandonStart, Archive, Release, Stop,
           Fits, Shape
  <2>2. status'[c] \in Live => status[c] \in Live \/ Inputs(c, p) = {}
    <3>1. proc[s].pc = "pushed" => status[s] = "creating"
      BY DEF Fits, CommandFits
    <3>2. CASE status[c] = "none"
      BY <1>5, <3>2
    <3>3. CASE status[c] \in Released
      BY <1>6, <3>1, <3>3
       DEF Rest, CreateRegister, CreatePush, CreateFlip, ApplyStart, ApplyLink, ApplyRun, Merge,
           Undo, TrunkApplies, FinalizeCheck, FinalizeWarn, AbandonStart, Archive, Release, Stop,
           Fits, Shape, Live, Released
    <3>4. QED  BY <3>2, <3>3 DEF Fits, Shape
  <2>3. CASE Inputs(c, p) = {}
    BY <1>4, <1>6, <2>3 DEF Kept
  <2>4. QED  BY <1>2, <1>4, <1>6, <2>1, <2>2, <2>3, KeptStays
<1>7. CASE Rest /\ p = s
  <2>1. CASE status[c] = "none"
    BY <1>4, <1>5, <1>7, <2>1 DEF Kept
  <2>2. CASE CreateRegister(s)
    BY <1>2, <1>4, <1>7, <2>1, <2>2, GotoFits
       DEF CreateRegister, Kept, Reported, Fits, Shape, Live, Pc
  <2>3. CASE CreatePush(s)
    <3>1. status[p] = "creating" /\ object'[p] = base[p] /\ proc'[p].pc = "pushed"
      BY <1>2, <1>7, <2>3, GotoFits DEF CreatePush, CommandFits, Fits, Shape, Pc
    <3>2. UNCHANGED <<status, base, warned>>
      BY <2>3 DEF CreatePush
    <3>3. QED  BY <1>2, <1>4, <1>7, <3>1, <3>2 DEF Kept, Reported
  <2>4. CASE CreateFlip(s)
    <3>1. status'[p] = "active" /\ proc'[p].pc = "idle"
      BY <1>7, <2>4, IdleFits DEF CreateFlip, End, Fits, Shape
    <3>2. UNCHANGED <<object, base, warned>>
      BY <2>4 DEF CreateFlip
    <3>3. QED  BY <1>2, <1>4, <1>7, <3>1, <3>2 DEF Kept, Reported
  <2>5. CASE ApplyRun(s)
    <3>1. PICK new \in SUBSET Outputs : object' = [object EXCEPT ![s] = @ \cup new]
      BY <2>5 DEF ApplyRun
    <3>2. object[s] # Nil /\ object'[s] = object[s] \cup new
      BY <1>2, <1>7, <2>5, <3>1 DEF ApplyRun, CommandFits, Fits, Shape
    <3>3. status[p] = "active" /\ proc'[p].pc = "idle"
      BY <1>2, <1>7, <2>5, IdleFits DEF ApplyRun, End, CommandFits
    <3>4. UNCHANGED <<status, base, warned>>
      BY <2>5 DEF ApplyRun
    <3>5. QED  BY <1>2, <1>4, <1>7, <3>2, <3>3, <3>4 DEF Kept, Reported
  <2>6. CASE Merge(s) \/ Undo(s)
    BY <1>2, <1>4, <1>7, <2>6 DEF Merge, Undo, Kept, Reported, Fits, Shape, Live
  <2>7. CASE TrunkApplies(s)
    <3>1. PICK some \in SUBSET object[s] : base' = [base EXCEPT ![s] = @ \cup some]
      BY <2>7 DEF TrunkApplies
    <3>2. base'[s] = base[s] \cup some /\ base'[s] \subseteq object[s]
      BY <1>2, <1>7, <2>7, <3>1 DEF TrunkApplies, StateFits, Fits, Shape
    <3>3. Reported(p) => base'[s] = base[s]
      BY <1>2, <1>7, <2>7, <3>2 DEF TrunkApplies, CommandFits, Reported
    <3>4. QED
      BY <1>2, <1>4, <1>7, <2>7, <3>2, <3>3 DEF TrunkApplies, Kept, Reported
  <2>8. CASE FinalizeWarn(s)
    <3>1. Inputs(c, p) # {} /\ c # p /\ status[c] \in Live => <<p, c>> \in warned'
      BY <1>5, <1>7, <2>8 DEF FinalizeWarn, Consumers
    <3>2. QED
      BY <1>2, <1>4, <1>7, <2>8, <3>1, GotoFits
         DEF FinalizeWarn, CommandFits, Kept, Reported, Pc
  <2>9. CASE Archive(s)
    <3>1. object'[p] = Nil /\ UNCHANGED <<status, base, warned>>
      BY <1>7, <2>9 DEF Archive, Fits, Shape
    <3>2. proc[p].pc \in {"warned", "leaving"}
          /\ proc'[p].pc = IF proc[p].pc = "warned" THEN "archived" ELSE "left"
      BY <1>7, <2>9, ArchiveKeeps DEF Archive
    <3>3. proc[p].pc = "warned" => status[p] = "merging" /\ object[p] = base[p] /\ base[p] # Nil
      BY <1>2, NilAssumption DEF CommandFits
    <3>4. proc[p].pc = "leaving" => status[p] \in {"creating", "active"}
      BY <1>2 DEF CommandFits
    <3>5. QED  BY <1>2, <1>4, <1>7, <3>1, <3>2, <3>3, <3>4 DEF Kept, Reported
  <2>10. CASE Release(s)
    <3>1. proc[p].pc \in {"archived", "left"}
          /\ status'[p] = IF proc[p].pc = "archived" THEN "merged" ELSE "abandoned"
      BY <1>7, <2>10 DEF Release, Fits, Shape
    <3>2. proc'[p].pc = "idle" /\ UNCHANGED <<object, base, warned>>
      BY <1>7, <2>10, IdleFits DEF Release, End
    <3>3. object[p] = Nil /\ (proc[p].pc = "left" => status[p] \in {"creating", "active"})
      BY <1>2, <3>1 DEF CommandFits
    <3>4. status'[c] \in Live => status[c] \in Live
      BY <1>7, <2>10 DEF Release, Fits, Shape, Live
    <3>5. QED  BY <1>2, <1>4, <1>7, <3>1, <3>2, <3>3, <3>4 DEF Kept, Reported
  <2>11. CASE ApplyStart(s) \/ (\E r \in Stacks : ApplyLink(s, r)) \/ FinalizeCheck(s)
              \/ AbandonStart(s) \/ Stop(s)
    <3>1. UNCHANGED <<status, object, base, warned>>
      BY <2>11 DEF ApplyStart, ApplyLink, FinalizeCheck, AbandonStart, Stop
    <3>2. proc'[p].pc \notin {"warned", "archived"}
      <4>1. CASE ApplyStart(s)
        BY <1>7, <4>1, IdleIs DEF ApplyStart, Fits, Shape, Idle
      <4>2. CASE FinalizeCheck(s) \/ AbandonStart(s)
        BY <1>7, <4>2, GotoFits DEF FinalizeCheck, AbandonStart, Pc
      <4>3. CASE Stop(s)
        BY <1>7, <4>3, IdleFits DEF Stop, End
      <4>4. QED  BY <1>7, <2>11, <4>1, <4>2, <4>3, LinkIs
    <3>3. QED  BY <1>2, <1>4, <1>7, <3>1, <3>2, KeptStays
  <2>12. QED
    BY <1>7, <2>2, <2>3, <2>4, <2>5, <2>6, <2>7, <2>8, <2>9, <2>10, <2>11
<1>8. QED  BY <1>1, <1>3, <1>6, <1>7

\* FinalizeKeepsInputs of RemoteLinks: what a consumer was applied with is in
\* the base when the producer is merged, and the consumers that the base has
\* more for were named by _warn_consumers before the confirmation.
THEOREM FinalizesKeepInputs == Spec => []FinalizeKeepsInputs
<1>1. Init => AllKept
  <2>1. SUFFICES ASSUME Init, NEW c \in Stacks, NEW p \in Stacks  PROVE Inputs(c, p) = {}
    BY DEF AllKept, Kept
  <2>2. used[c][p] = Nil /\ proc[c].pc # "planned"
    BY <2>1, IdleIs DEF Init
  <2>3. QED  BY <2>2 DEF Inputs
<1>2. Fits /\ AllKept => FinalizeKeepsInputs
  <2>1. SUFFICES ASSUME Fits, AllKept, NEW c \in Stacks, NEW p \in Stacks,
                        status[p] = "merged", status[c] \in Live, used[c][p] # Nil
                 PROVE  used[c][p] \subseteq base[p]
                        /\ (used[c][p] = base[p] \/ <<p, c>> \in warned)
    BY DEF FinalizeKeepsInputs
  <2>2. used[c][p] \in Inputs(c, p) /\ Reported(p) /\ c # p /\ Kept(c, p)
    BY <2>1 DEF Inputs, Reported, AllKept, Live
  <2>3. QED  BY <2>1, <2>2 DEF Kept
<1>3. QED  BY <1>1, <1>2, CommandsFitTheState, NextKept, PTL DEF Spec

==============================================================================
