-------------------------- MODULE ScriptHostProofs --------------------------
(***************************************************************************)
(* Theorems about ScriptHost, for any scene, any number of entities,       *)
(* scripts and frames, and any depth of scripts inside one another.        *)
(***************************************************************************)
EXTENDS ScriptHost, TLAPS, FiniteSetTheorems, SequenceTheorems

Script == [path : Files, started : BOOLEAN, disabled : BOOLEAN, starts : 0..1, turns : 0..1,
           new : BOOLEAN, breached : BOOLEAN]
Frame == [kind : {"start", "update", "compile"}, e : Ids, i : Nat, path : Files \union {""}]
Task == [kind : {"idle", "load", "join", "start", "update", "overflow"}, pending : SUBSET Ids,
         e : Ids \union {0}, i : Nat, got : Seq(Script), base : Nat]

-----------------------------------------------------------------------------
(* The inductive invariant                                                  *)

Phases == {"boot", "master", "client"}

\* Types of what HostTypeOK leaves open.
ShapesOK ==
    /\ HostTypeOK
    /\ comp \in [Ids -> Seq(Script)] /\ ident \in [Ids -> Seq(Files)]
    /\ task \in Task /\ stack \in Seq(Frame) /\ phase \in Phases

\* An event runs only at the bottom of the stack, and only while events are dispatched; what
\* runs above it, or while scripts are loaded, is the top level of a script for an entity
\* that exists.  A client's scripts attach nothing.
StackInv ==
    /\ task.kind \in {"idle", "overflow"} => ~Running
    /\ Running => task.e # 0
    /\ Running => (Loading <=> stack[1].kind = "compile")
    /\ Running /\ stack[1].kind = "update" => task.kind = "update"
    /\ \A k \in 2..Len(stack) : stack[k].kind = "compile"
    /\ \A k \in 1..Len(stack) : stack[k].kind = "compile" => stack[k].e \in alive /\ stack[k].path \in Files
    /\ phase = "client" => Len(stack) <= 1

\* A pass goes over entities that have been created, and nothing is destroyed while scripts
\* are loaded.
PassInv ==
    /\ task.pending \subseteq 1..last /\ task.e \in 0..last
    /\ task.e \notin task.pending /\ (task.e # 0 => task.i # 0)
    /\ Loading => task.pending \subseteq alive /\ task.e \in alive \union {0}

\* What the flags of an instance say of its history.
Sound(x) ==
    /\ x.starts = (IF x.started THEN 1 ELSE 0)
    /\ ~x.started => x.turns = 0
    /\ x.breached => x.disabled

SoundInv ==
    /\ \A e \in Ids : \A j \in 1..Len(comp[e]) : Sound(comp[e][j])
    /\ \A j \in 1..Len(task.got) : Sound(task.got[j])

\* An instance that this frame's dispatch is through with.
Done(x) == x.new \/ x.disabled \/ x.turns = 1

\* Where the dispatch of update() stands: entities that wait have had no turn, those that do
\* not are done, and of the one in its turn the instances before the current one are.
TurnInv ==
    task.kind = "update" =>
        \A e \in alive : \A j \in 1..Len(comp[e]) :
            /\ e \in task.pending => comp[e][j].turns = 0
            /\ e \notin task.pending /\ e # task.e => Done(comp[e][j])
            /\ e = task.e /\ j < task.i => Done(comp[e][j])
            /\ e = task.e /\ j > task.i => comp[e][j].turns = 0
            /\ e = task.e /\ j = task.i /\ ~(Running /\ stack[1].kind = "update") =>
                  comp[e][j].turns = 0

\* The instance whose event runs has been started, and is not disabled.
EventInv ==
    Running /\ stack[1].kind # "compile" /\ task.e \in alive =>
        /\ task.i \in 1..Len(comp[task.e])
        /\ comp[task.e][task.i].started /\ ~comp[task.e][task.i].disabled
        /\ stack[1].kind = "update" => comp[task.e][task.i].turns = 1

HostInv == ShapesOK /\ StackInv /\ PassInv /\ SoundInv /\ TurnInv /\ EventInv

-----------------------------------------------------------------------------
(* The stack                                                                *)

\* The innermost frame, and what is left when it ends.
LEMMA TopOfStack ==
    ASSUME ShapesOK, Running
    PROVE  /\ Len(stack) \in Nat \ {0} /\ Top \in Frame /\ stack[1] \in Frame
           /\ Pop \in Seq(Frame) /\ Len(Pop) = Len(stack) - 1
           /\ \A k \in 1..Len(Pop) : Pop[k] = stack[k]
<1>1. stack \in Seq(Frame) /\ stack # <<>>
  BY DEF ShapesOK, Running
<1>2. Len(stack) \in Nat \ {0} /\ \A k \in 1..Len(stack) : stack[k] \in Frame
  BY <1>1, EmptySeq, ElementOfSeq
<1>3. Top \in Frame /\ stack[1] \in Frame
  BY <1>2 DEF Top
<1> DEFINE n == Len(stack) - 1
<1>4. 1 \in 1..(Len(stack) + 1) /\ n \in 0..Len(stack) /\ n \in Nat
  BY <1>2
<1>5. Pop \in Seq(Frame) /\ Len(Pop) = n /\ \A k \in 1..n : Pop[k] = stack[k]
  <2>0. n \in Nat /\ \A k \in 1..n : k \in 1..Len(stack)
    BY <1>2
  <2> HIDE DEF n
  <2>1. /\ 1 \in Int /\ n \in Int /\ \A k \in 1..n : stack[k] \in Frame
        /\ (IF 1 <= n THEN n - 1 + 1 ELSE 0) = n /\ n - 1 + 1 = n /\ \A k \in 1..n : 1 + k - 1 = k
    BY <1>2, <2>0
  <2>2. Pop = SubSeq(stack, 1, n)
    BY DEF Pop, n
  <2>3. /\ SubSeq(stack, 1, n) \in Seq(Frame)
        /\ Len(SubSeq(stack, 1, n)) = IF 1 <= n THEN n - 1 + 1 ELSE 0
        /\ \A k \in 1..(n - 1 + 1) : SubSeq(stack, 1, n)[k] = stack[1 + k - 1]
    BY <2>1, SubSeqProperties
  <2>. QED  BY <2>1, <2>2, <2>3
<1>. QED  BY <1>2, <1>3, <1>5

\* An event that runs is alone on the stack.
LEMMA EventIsAlone ==
    ASSUME ShapesOK, StackInv, Running, Top.kind # "compile"
    PROVE  Len(stack) = 1 /\ Top = stack[1] /\ Pop = <<>>
<1>1. Len(stack) \in Nat \ {0}
  BY TopOfStack
<1>2. Len(stack) = 1
  <2> DEFINE n == Len(stack)
  <2>1. \A k \in 2..n : stack[k].kind = "compile"
    BY DEF StackInv
  <2>2. n \in Nat \ {0} /\ stack[n].kind # "compile"
    BY <1>1 DEF Top
  <2> HIDE DEF n
  <2>3. n = 1
    BY <2>1, <2>2
  <2>. QED  BY <2>3 DEF n
<1>. QED  BY <1>2, TopOfStack DEF Top

\* One frame more.
LEMMA PushedFrame ==
    ASSUME ShapesOK, NEW f \in Frame
    PROVE  /\ Append(stack, f) \in Seq(Frame) /\ Append(stack, f) # <<>>
           /\ Len(Append(stack, f)) = Len(stack) + 1 /\ Len(stack) \in Nat
           /\ Append(stack, f)[Len(stack) + 1] = f
           /\ \A k \in 1..Len(stack) : Append(stack, f)[k] = stack[k]
<1>1. stack \in Seq(Frame)
  BY DEF ShapesOK
<1>. QED  BY <1>1, AppendProperties

-----------------------------------------------------------------------------
(* Instances                                                                *)

\* Instance j of the entity e becomes y, and nothing else changes.
Becomes(e, j, y) ==
    /\ comp' \in [Ids -> Seq(Script)]
    /\ \A d \in Ids : Len(comp'[d]) = Len(comp[d])
    /\ \A d \in Ids : \A k \in 1..Len(comp[d]) :
          comp'[d][k] = IF d = e /\ k = j THEN y ELSE comp[d][k]

\* An update of one instance in place is just that.
LEMMA BecomesIs ==
    ASSUME comp \in [Ids -> Seq(Script)], NEW e \in Ids, NEW j \in 1..Len(comp[e]), NEW y \in Script,
           comp' = [comp EXCEPT ![e] = [@ EXCEPT ![j] = y]]
    PROVE  Becomes(e, j, y)
<1> DEFINE s == comp[e]
           t == [s EXCEPT ![j] = y]
<1>1. s \in Seq(Script) /\ t \in Seq(Script) /\ Len(t) = Len(s)
      /\ \A k \in 1..Len(s) : t[k] = IF k = j THEN y ELSE s[k]
  OBVIOUS
<1>2. comp' = [comp EXCEPT ![e] = t]
  OBVIOUS
<1> HIDE DEF t
<1>. QED  BY <1>1, <1>2 DEF Becomes

\* Calling an event starts an instance that has not started, and update() is its turn.
LEMMA CalledBecomes ==
    ASSUME ShapesOK, SoundInv, NEW e \in Ids, NEW j \in 1..Len(comp[e]), NEW ev \in {"start", "update"},
           ev = "start" <=> ~comp[e][j].started, ev = "update" => comp[e][j].turns = 0,
           Called(e, j, ev)
    PROVE  \E y \in Script :
              /\ Becomes(e, j, y) /\ Sound(y)
              /\ y.started /\ y.disabled = comp[e][j].disabled
              /\ y.turns = (IF ev = "update" THEN 1 ELSE comp[e][j].turns)
<1> DEFINE x == comp[e][j]
           t == IF ev = "update" THEN 1 ELSE x.turns
           y == [x EXCEPT !.started = TRUE, !.starts = 1, !.turns = t]
<1>1. x \in Script /\ Sound(x) /\ comp \in [Ids -> Seq(Script)]
  BY DEF ShapesOK, SoundInv
<1>2. x.started \in BOOLEAN /\ x.starts \in 0..1 /\ x.turns \in 0..1
  BY <1>1 DEF Script
<1>3. /\ x.starts + (IF ev = "start" THEN 1 ELSE 0) = 1
      /\ x.turns + (IF ev = "update" THEN 1 ELSE 0) = t
      /\ t \in 0..1
  BY <1>1, <1>2 DEF Sound
<1>4. comp' = [comp EXCEPT ![e] = [@ EXCEPT ![j] = y]]
  BY <1>1, <1>3 DEF Called, Script
<1> HIDE DEF t
<1>5. /\ y.path = x.path /\ y.new = x.new /\ y.breached = x.breached /\ y.disabled = x.disabled
      /\ y.started = TRUE /\ y.starts = 1 /\ y.turns = t
  BY <1>1 DEF Script
<1>6. y \in Script
  <2> DEFINE a == [x EXCEPT !.started = TRUE]
             b == [a EXCEPT !.starts = 1]
             c == [b EXCEPT !.turns = t]
  <2>1. a \in Script
    BY <1>1 DEF Script
  <2>2. b \in Script
    <3> HIDE DEF a
    <3>. QED  BY <2>1 DEF Script
  <2>3. c \in Script
    <3> HIDE DEF b
    <3>. QED  BY <1>3, <2>2 DEF Script
  <2>. QED  BY <2>3
<1> HIDE DEF y
<1>7. Sound(y)
  BY <1>1, <1>5 DEF Sound
<1>8. Becomes(e, j, y)
  BY <1>1, <1>4, <1>6, BecomesIs DEF y
<1>. QED  BY <1>5, <1>6, <1>7, <1>8 DEF t

\* What is compiled is a new instance that has not started.
LEMMA NewInstance ==
    ASSUME NEW path \in Files
    PROVE  /\ Instance(path) \in Script /\ Sound(Instance(path))
           /\ Instance(path).new /\ Instance(path).turns = 0
BY DEF Instance, Script, Sound

\* The instance y comes last among those of the entity e, and nothing else changes.
Grows(e, y) ==
    /\ comp' \in [Ids -> Seq(Script)]
    /\ \A d \in Ids : Len(comp'[d]) = Len(comp[d]) + (IF d = e THEN 1 ELSE 0)
    /\ \A d \in Ids : \A k \in 1..Len(comp[d]) : comp'[d][k] = comp[d][k]
    /\ comp'[e][Len(comp[e]) + 1] = y

\* An instance appended to an entity's is just that.
LEMMA GrowsIs ==
    ASSUME comp \in [Ids -> Seq(Script)], NEW e \in Ids, NEW y \in Script,
           comp' = [comp EXCEPT ![e] = Append(@, y)]
    PROVE  Grows(e, y)
<1> DEFINE s == comp[e]
           t == Append(s, y)
<1>1. s \in Seq(Script)
  OBVIOUS
<1>2. t \in Seq(Script) /\ Len(t) = Len(s) + 1 /\ t[Len(s) + 1] = y /\ \A k \in 1..Len(s) : t[k] = s[k]
  BY <1>1, AppendProperties
<1>3. comp' = [comp EXCEPT ![e] = t]
  OBVIOUS
<1>4. \A d \in Ids : Len(comp[d]) \in Nat
  OBVIOUS
<1> HIDE DEF t
<1>. QED  BY <1>2, <1>3, <1>4 DEF Grows

-----------------------------------------------------------------------------
(* Shapes                                                                   *)

\* A task that goes on as t, with other fields but for its kind and base.
TaskOf(t, p, d, k, g) ==
    [kind |-> t.kind, pending |-> p, e |-> d, i |-> k, got |-> g, base |-> t.base]

\* Such a task is one.
LEMMA TaskOfType ==
    ASSUME NEW t \in Task, NEW p, p \in SUBSET Ids, NEW d, d \in Ids \union {0}, NEW k, k \in Nat,
           NEW g, g \in Seq(Script)
    PROVE  TaskOf(t, p, d, k, g) \in Task
BY DEF Task, TaskOf

\* What an EXCEPT makes of a task, field by field.
LEMMA PendingChanges ==
    ASSUME NEW t \in Task, NEW p
    PROVE  [t EXCEPT !.pending = p] = TaskOf(t, p, t.e, t.i, t.got)
BY DEF Task, TaskOf

\* The same for the entity.
LEMMA EntityChanges ==
    ASSUME NEW t \in Task, NEW d
    PROVE  [t EXCEPT !.e = d] = TaskOf(t, t.pending, d, t.i, t.got)
BY DEF Task, TaskOf

\* The same for the index.
LEMMA IndexChanges ==
    ASSUME NEW t \in Task, NEW k
    PROVE  [t EXCEPT !.i = k] = TaskOf(t, t.pending, t.e, k, t.got)
BY DEF Task, TaskOf

\* The same for what has been compiled.
LEMMA GotChanges ==
    ASSUME NEW t \in Task, NEW g
    PROVE  [t EXCEPT !.got = g] = TaskOf(t, t.pending, t.e, t.i, g)
BY DEF Task, TaskOf

\* The next entity of a dispatch, and of a load, has its turn.
Turned(t, p, d, k) == [t EXCEPT !.pending = p, !.e = d, !.i = k]
Entered(t, p, d, k, g) == [t EXCEPT !.pending = p, !.e = d, !.i = k, !.got = g]

\* Field by field for a turn.
LEMMA TurnChanges ==
    ASSUME NEW t \in Task, NEW p, p \in SUBSET Ids, NEW d, d \in Ids \union {0}, NEW k, k \in Nat
    PROVE  Turned(t, p, d, k) = TaskOf(t, p, d, k, t.got)
<1> DEFINE a == [t EXCEPT !.pending = p]
           b == [a EXCEPT !.e = d]
           c == [b EXCEPT !.i = k]
<1>1. a \in Task /\ a = TaskOf(t, p, t.e, t.i, t.got)
  BY DEF Task, TaskOf
<1>2. b \in Task /\ b = TaskOf(t, p, d, t.i, t.got)
  <2> HIDE DEF a
  <2>. QED  BY <1>1 DEF Task, TaskOf
<1>3. c = TaskOf(t, p, d, k, t.got)
  <2> HIDE DEF b
  <2>. QED  BY <1>2 DEF Task, TaskOf
<1>. QED  BY <1>3 DEF Turned

\* Field by field for a load.
LEMMA EntryChanges ==
    ASSUME NEW t \in Task, NEW p, p \in SUBSET Ids, NEW d, d \in Ids \union {0}, NEW k, k \in Nat, NEW g
    PROVE  Entered(t, p, d, k, g) = TaskOf(t, p, d, k, g)
<1> DEFINE a == [t EXCEPT !.pending = p, !.e = d, !.i = k]
           b == [a EXCEPT !.got = g]
<1>1. a = TaskOf(t, p, d, k, t.got)
  BY TurnChanges DEF Turned
<1>2. t.got \in Seq(Script)
  BY DEF Task
<1>3. a \in Task
  <2> HIDE DEF a
  <2>1. TaskOf(t, p, d, k, t.got) \in Task
    BY <1>2, TaskOfType
  <2>. QED  BY <1>1, <2>1
<1>4. b = TaskOf(a, p, d, k, g)
  <2> HIDE DEF a
  <2>1. a.pending = p /\ a.e = d /\ a.i = k
    BY <1>1 DEF TaskOf
  <2>. QED  BY <1>3, <2>1, GotChanges
<1>5. TaskOf(a, p, d, k, g) = TaskOf(t, p, d, k, g)
  <2> HIDE DEF a
  <2>. QED  BY <1>1 DEF TaskOf
<1>. QED  BY <1>4, <1>5 DEF Entered

\* The initial state has the shapes.
LEMMA InitShapes == Init => ShapesOK
<1> SUFFICES ASSUME Init PROVE ShapesOK
  OBVIOUS
<1> USE HostAssumption, ScriptsAssumption
<1>1. DOMAIN Scene = 1..Len(Scene) /\ \A e \in DOMAIN Scene : Scene[e] \in Seq(Files)
  OBVIOUS
<1>2. alive \subseteq 1..last /\ last \in 0..MaxEntities /\ alive \subseteq Ids
  BY <1>1 DEF Init, Ids
<1>3. comp \in [Ids -> Seq(Script)] /\ ident \in [Ids -> Seq(Files)]
  BY <1>1 DEF Init
<1>4. task = [kind |-> "load", pending |-> {e \in alive : ident[e] # <<>>}, e |-> 0, i |-> 0,
              got |-> <<>>, base |-> last]
  BY DEF Init, Idle
<1>5. task \in Task
  <2>1. {e \in alive : ident[e] # <<>>} \in SUBSET Ids
    BY <1>2
  <2>2. last \in Nat
    BY <1>2
  <2>3. <<>> \in Seq(Script)
    OBVIOUS
  <2>. QED  BY <1>4, <2>1, <2>2, <2>3 DEF Task
<1>6. \A e \in Ids \ alive : comp[e] = <<>> /\ ident[e] = <<>>
  BY DEF Init
<1>7. stack \in Seq(Frame) /\ Len(stack) <= MaxNest
  BY DEF Init
<1>. QED  BY <1>2, <1>3, <1>4, <1>5, <1>6, <1>7 DEF Init, ShapesOK, HostTypeOK, Task, Phases

\* Types, one by one.
LEMMA Shapes ==
    ASSUME ShapesOK
    PROVE  /\ last \in 0..MaxEntities /\ last \in Nat /\ alive \subseteq 1..last /\ alive \subseteq Ids
           /\ Ids = 1..MaxEntities /\ MaxEntities \in Nat
           /\ \A e \in Ids \ alive : comp[e] = <<>> /\ ident[e] = <<>>
           /\ comp \in [Ids -> Seq(Script)] /\ ident \in [Ids -> Seq(Files)]
           /\ stack \in Seq(Frame) /\ Len(stack) <= MaxNest /\ self \in Ids \union {0}
           /\ effects \in BOOLEAN /\ loose \subseteq Bodies /\ phase \in Phases
<1>1. Ids = 1..MaxEntities /\ MaxEntities \in Nat
  BY HostAssumption DEF Ids
<1>2. last \in 0..MaxEntities /\ alive \subseteq 1..last
  BY DEF ShapesOK, HostTypeOK
<1>3. last \in Nat /\ alive \subseteq Ids
  BY <1>1, <1>2
<1>. QED  BY <1>1, <1>2, <1>3 DEF ShapesOK, HostTypeOK

\* The types of the fields of the task.
LEMMA TaskShapes ==
    ASSUME ShapesOK
    PROVE  /\ task \in Task /\ task.pending \in SUBSET Ids /\ task.e \in Ids \union {0}
           /\ task.i \in Nat /\ task.got \in Seq(Script) /\ task.base \in Nat
           /\ task.kind \in {"idle", "load", "join", "start", "update", "overflow"}
<1>1. task \in Task
  BY DEF ShapesOK
<1>. QED  BY <1>1 DEF Task

\* HostTypeOK says of the task what its type does.
LEMMA ShapesAfter ==
    ASSUME last' \in 0..MaxEntities, alive' \subseteq 1..last',
           \A e \in Ids \ alive' : comp'[e] = <<>> /\ ident'[e] = <<>>,
           comp' \in [Ids -> Seq(Script)], ident' \in [Ids -> Seq(Files)],
           task' \in Task, stack' \in Seq(Frame), Len(stack') <= MaxNest, self' \in Ids \union {0},
           effects' \in BOOLEAN, loose' \subseteq Bodies', phase' \in Phases
    PROVE  ShapesOK'
<1>1. /\ task'.kind \in {"idle", "load", "join", "start", "update", "overflow"}
      /\ task'.pending \subseteq Ids /\ task'.e \in Ids \union {0}
  BY DEF Task
<1>. QED  BY <1>1 DEF ShapesOK, HostTypeOK, Phases

\* A task begins.
LEMMA TaskBegins ==
    ASSUME NEW kind \in {"idle", "load", "join", "start", "update", "overflow"}, NEW p, p \in SUBSET Ids, NEW n, n \in Nat
    PROVE  [kind |-> kind, pending |-> p, e |-> 0, i |-> 0, got |-> <<>>, base |-> n] \in Task
<1>1. <<>> \in Seq(Script)
  OBVIOUS
<1>. QED  BY <1>1 DEF Task

\* While nothing runs there is little to say.
LEMMA NothingRuns == ASSUME stack' = <<>> PROVE StackInv' /\ EventInv'
BY DEF StackInv, EventInv, Running

-----------------------------------------------------------------------------
(* ScriptSystem: the passes over the entities                               *)

\* Dropping every component and loading again.
LEMMA ReloadStep == ASSUME HostInv, Reload PROVE HostInv'
<1> DEFINE p == {e \in alive : ident[e] # <<>>}
<1>1. ShapesOK /\ StackInv
  BY DEF HostInv
<1>2. p \subseteq alive /\ p \in SUBSET Ids /\ p \subseteq 1..last /\ last \in Nat
  BY <1>1, Shapes
<1>3. task' = [kind |-> "load", pending |-> p, e |-> 0, i |-> 0, got |-> <<>>, base |-> last]
  BY DEF Reload, Idle
<1> HIDE DEF p
<1>4. task' \in Task
  BY <1>2, <1>3, TaskBegins
<1>5. stack' = <<>> /\ stack = <<>>
  BY <1>1 DEF Reload, Idle, StackInv, Running
<1>6. comp' = [e \in Ids |-> <<>>] /\ UNCHANGED <<last, alive, ident, self, effects, loose, phase>>
  BY DEF Reload, worldVars
<1>7. ShapesOK'
  BY <1>1, <1>4, <1>5, <1>6, Shapes, ShapesAfter DEF Bodies
<1>8. PassInv'
  BY <1>2, <1>3, <1>6 DEF PassInv
<1>9. SoundInv' /\ TurnInv'
  BY <1>3, <1>6 DEF SoundInv, TurnInv
<1>. QED  BY <1>5, <1>7, <1>8, <1>9, NothingRuns DEF HostInv

\* A player joins.
LEMMA AddPlayerStep == ASSUME HostInv, AddPlayer PROVE HostInv'
<1> DEFINE p == Unloaded(alive) \union {last'}
<1>1. ShapesOK /\ StackInv /\ SoundInv
  BY DEF HostInv
<1>2. last' = last + 1 /\ last < MaxEntities /\ alive' = alive \union {last'}
  BY DEF AddPlayer
<1>3. last' \in 1..MaxEntities /\ last' \in Nat /\ last' \in Ids /\ alive' \subseteq 1..last' /\ last' \notin alive
  BY <1>1, <1>2, Shapes
<1>4. p \subseteq alive' /\ p \in SUBSET Ids /\ p \subseteq 1..last'
  BY <1>1, <1>2, <1>3, Shapes DEF Unloaded
<1>5. task' = [kind |-> "join", pending |-> p, e |-> 0, i |-> 0, got |-> <<>>, base |-> last']
  BY DEF AddPlayer, Idle
<1> HIDE DEF p
<1>6. task' \in Task
  BY <1>3, <1>4, <1>5, TaskBegins
<1>7. stack' = <<>> /\ stack = <<>>
  BY <1>1 DEF AddPlayer, Idle, StackInv, Running
<1>8. ident' = [ident EXCEPT ![last'] = PlayerPaths] /\ UNCHANGED <<comp, self, effects, loose, phase>>
  BY DEF AddPlayer
<1>9. ident' \in [Ids -> Seq(Files)] /\ \A e \in Ids \ alive' : ident'[e] = <<>>
  BY <1>1, <1>2, <1>3, <1>8, Shapes, ScriptsAssumption
<1>10. ShapesOK'
  <2>1. loose' \subseteq Bodies' /\ \A e \in Ids \ alive' : comp'[e] = <<>>
    BY <1>1, <1>2, <1>8, Shapes DEF Bodies
  <2>. QED  BY <1>1, <1>3, <1>6, <1>7, <1>8, <1>9, <2>1, Shapes, ShapesAfter
<1>11. PassInv'
  BY <1>3, <1>4, <1>5 DEF PassInv
<1>12. SoundInv' /\ TurnInv'
  BY <1>1, <1>5, <1>8 DEF SoundInv, TurnInv
<1>. QED  BY <1>7, <1>10, <1>11, <1>12, NothingRuns DEF HostInv

\* The next entity of a load has its turn.
LEMMA LoadEntityStep == ASSUME HostInv, LoadEntity PROVE HostInv'
<1>1. ShapesOK /\ PassInv /\ SoundInv
  BY DEF HostInv
<1>2. PICK e \in task.pending : task' = [task EXCEPT !.pending = @ \ {e}, !.e = e, !.i = 1, !.got = <<>>]
  BY DEF LoadEntity
<1> DEFINE p == task.pending \ {e}
           g == <<>>
<1>3. /\ p \in SUBSET Ids /\ e \in Ids /\ 1 \in Nat /\ g \in Seq(Script) /\ Len(g) = 0
      /\ p \subseteq task.pending /\ e \notin p
  BY <1>1, TaskShapes
<1>4. task' = Entered(task, p, e, 1, g)
  BY <1>2 DEF Entered
<1> HIDE DEF p, g
<1>5. task' = TaskOf(task, p, e, 1, g)
  <2>1. task \in Task /\ e \in Ids \union {0} /\ p \in SUBSET Ids /\ 1 \in Nat
    BY <1>1, <1>3, TaskShapes
  <2>. QED  BY <1>4, <2>1, EntryChanges
<1>6. task' \in Task
  BY <1>1, <1>3, <1>5, TaskShapes, TaskOfType
<1>7. /\ task'.kind = task.kind /\ task'.pending = p /\ task'.e = e /\ task'.got = g /\ task'.i # 0
      /\ task.kind \in {"load", "join"}
  <2>1. task.kind \in {"load", "join"}
    BY DEF LoadEntity, Loading
  <2>. QED  BY <1>5, <2>1 DEF TaskOf
<1>8. /\ stack' = <<>> /\ stack = <<>>
      /\ UNCHANGED <<comp, self, last, alive, ident, effects, loose, phase>>
  BY DEF LoadEntity, Running, worldVars
<1>9. ShapesOK'
  BY <1>1, <1>6, <1>8, Shapes, ShapesAfter DEF Bodies
<1>10. PassInv'
  <2>1. e \in alive /\ e \in 0..last /\ p \subseteq alive /\ p \subseteq 1..last
    BY <1>1, <1>3, <1>7, Shapes DEF PassInv, Loading
  <2>. QED  BY <1>3, <1>7, <1>8, <2>1 DEF PassInv
<1>11. SoundInv' /\ TurnInv'
  BY <1>1, <1>3, <1>7, <1>8 DEF SoundInv, TurnInv
<1>. QED  BY <1>8, <1>9, <1>10, <1>11, NothingRuns DEF HostInv

\* The next path of an entity is compiled, or its scripts are complete.
LEMMA LoadPathStep == ASSUME HostInv, LoadPath PROVE HostInv'
<1>1. ShapesOK /\ PassInv /\ SoundInv /\ StackInv
  BY DEF HostInv
<1>2. /\ task \in Task /\ task.pending \in SUBSET Ids /\ task.i \in Nat /\ task.got \in Seq(Script)
      /\ task.i + 1 \in Nat /\ task.e \in Ids \union {0}
  BY <1>1, TaskShapes
<1>3. /\ task.e \in alive /\ task.e \in Ids /\ task.kind \in {"load", "join"} /\ stack = <<>>
      /\ UNCHANGED <<self, last, alive, ident, effects, loose, phase>>
  BY <1>1, Shapes DEF LoadPath, PassInv, Running, Loading, worldVars
<1>4. CASE task.i <= Len(ident[task.e])
  <2> DEFINE path == ident[task.e][task.i]
             f == Compiling(task.e, path)
  <2>1. task' = TaskOf(task, task.pending, task.e, task.i + 1, task.got)
    BY <1>2, <1>4, IndexChanges DEF LoadPath
  <2>2. task' \in Task
    BY <1>2, <2>1, TaskOfType
  <2>3. task'.kind = task.kind /\ task'.pending = task.pending /\ task'.e = task.e
      /\ task'.got = task.got /\ task'.i # 0
    BY <1>2, <2>1 DEF TaskOf
  <2>4. (stack' = stack \/ (stack' = <<f>> /\ path \notin Unreadable)) /\ comp' = comp
    BY <1>4 DEF LoadPath
  <2>5. CASE stack' = stack
    <3>1. ShapesOK'
      BY <1>1, <1>3, <2>2, <2>4, <2>5, Shapes, ShapesAfter DEF Bodies
    <3>2. PassInv' /\ SoundInv' /\ TurnInv'
      BY <1>1, <1>3, <2>3, <2>4 DEF PassInv, SoundInv, TurnInv, Loading
    <3>. QED  BY <1>3, <2>5, <3>1, <3>2, NothingRuns DEF HostInv
  <2>6. CASE stack' = <<f>>
    <3>1. path \in Files
      <4>1. ident[task.e] \in Seq(Files)
        BY <1>1, <1>3, Shapes
      <4>2. task.i # 0
        BY <1>1, <1>3, Shapes DEF PassInv
      <4>. QED  BY <1>2, <1>4, <4>1, <4>2
    <3>2. f \in Frame /\ f.kind = "compile" /\ f.e = task.e /\ f.path = path
      BY <1>3, <3>1 DEF Frame, Compiling
    <3> HIDE DEF f, path
    <3>3. stack' \in Seq(Frame) /\ Len(stack') = 1 /\ stack'[1] = f
      BY <2>6, <3>2
    <3>4. ShapesOK'
      <4>1. Len(stack') <= MaxNest
        BY <3>3, HostAssumption
      <4>. QED  BY <1>1, <1>3, <2>2, <2>4, <3>3, <4>1, Shapes, ShapesAfter DEF Bodies
    <3>5. StackInv'
      <4>1. /\ task'.kind \notin {"idle", "overflow"} /\ task'.e # 0 /\ Loading'
            /\ stack'[1].kind = "compile" /\ stack'[1].e \in alive' /\ stack'[1].path \in Files
        BY <1>3, <2>3, <3>1, <3>2, <3>3, Shapes, <1>1 DEF Loading, LoadPath
      <4>2. \A k \in 2..Len(stack') : stack'[k].kind = "compile"
        BY <3>3
      <4>3. \A k \in 1..Len(stack') : stack'[k].kind = "compile" => stack'[k].e \in alive' /\ stack'[k].path \in Files
        BY <3>3, <4>1
      <4>. QED  BY <3>3, <4>1, <4>2, <4>3 DEF StackInv
    <3>6. PassInv' /\ SoundInv' /\ TurnInv'
      BY <1>1, <1>3, <2>3, <2>4 DEF PassInv, SoundInv, TurnInv, Loading
    <3>7. EventInv'
      BY <3>2, <3>3 DEF EventInv
    <3>. QED  BY <3>4, <3>5, <3>6, <3>7 DEF HostInv
  <2>. QED  BY <2>4, <2>5, <2>6
<1>5. CASE ~(task.i <= Len(ident[task.e]))
  <2>1. task' = [task EXCEPT !.e = 0] /\ stack' = <<>>
    BY <1>3, <1>5 DEF LoadPath
  <2>2. task' = TaskOf(task, task.pending, 0, task.i, task.got)
    BY <1>2, <2>1, EntityChanges
  <2>3. task' \in Task
    BY <1>2, <2>2, TaskOfType
  <2>4. task'.kind = task.kind /\ task'.pending = task.pending /\ task'.e = 0 /\ task'.got = task.got
    BY <2>2 DEF TaskOf
  <2>5. comp' = comp \/ comp' = [comp EXCEPT ![task.e] = task.got]
    BY <1>5 DEF LoadPath
  <2>6. comp' \in [Ids -> Seq(Script)] /\ \A e \in Ids : comp'[e] = comp[e] \/ (e = task.e /\ comp'[e] = task.got)
    <3>1. comp \in [Ids -> Seq(Script)]
      BY <1>1, Shapes
    <3>2. CASE comp' = comp
      BY <3>1, <3>2
    <3>3. CASE comp' = [comp EXCEPT ![task.e] = task.got]
      <4> DEFINE g == task.got
                 d == task.e
      <4>1. g \in Seq(Script) /\ d \in Ids /\ comp' = [comp EXCEPT ![d] = g]
        BY <1>2, <1>3, <3>3
      <4> HIDE DEF g, d
      <4>2. comp' \in [Ids -> Seq(Script)] /\ \A e \in Ids : comp'[e] = comp[e] \/ (e = d /\ comp'[e] = g)
        BY <3>1, <4>1
      <4>. QED  BY <4>2 DEF g, d
    <3>. QED  BY <2>5, <3>2, <3>3
  <2>7. ShapesOK'
    <3>1. \A e \in Ids \ alive' : comp'[e] = <<>> /\ ident'[e] = <<>>
      BY <1>1, <1>3, <2>6, Shapes
    <3>. QED  BY <1>1, <1>3, <2>1, <2>3, <2>6, <3>1, Shapes, ShapesAfter DEF Bodies
  <2>8. PassInv' /\ TurnInv'
    BY <1>1, <1>3, <2>4, Shapes DEF PassInv, TurnInv, Loading
  <2>9. SoundInv'
    BY <1>1, <2>4, <2>6 DEF SoundInv
  <2>. QED  BY <2>1, <2>7, <2>8, <2>9, NothingRuns DEF HostInv
<1>. QED  BY <1>4, <1>5

\* Everything is loaded.
LEMMA LoadedStep == ASSUME HostInv, Loaded PROVE HostInv'
<1>1. ShapesOK /\ SoundInv
  BY DEF HostInv
<1>2. /\ stack' = <<>> /\ stack = <<>>
      /\ UNCHANGED <<comp, self, last, alive, ident, effects, loose, phase>>
  BY DEF Loaded, Running, worldVars
<1> DEFINE p == IF task.kind = "load" THEN {e \in alive : comp[e] # <<>>} ELSE {}
           kind == IF task.kind = "load" THEN "start" ELSE "idle"
<1>3. task' = [kind |-> kind, pending |-> p, e |-> 0, i |-> 0, got |-> <<>>, base |-> 0]
  BY DEF Loaded, Begin, Idle
<1>4. p \in SUBSET Ids /\ p \subseteq 1..last /\ last \in Nat /\ kind \in {"idle", "start"} /\ 0 \in Nat
  BY <1>1, Shapes
<1> HIDE DEF p, kind
<1>5. task' \in Task
  BY <1>3, <1>4, TaskBegins
<1>6. ShapesOK'
  BY <1>1, <1>2, <1>5, Shapes, ShapesAfter DEF Bodies
<1>7. PassInv'
  BY <1>2, <1>3, <1>4 DEF PassInv, Loading
<1>8. SoundInv' /\ TurnInv'
  BY <1>1, <1>2, <1>3, <1>4 DEF SoundInv, TurnInv
<1>. QED  BY <1>2, <1>6, <1>7, <1>8, NothingRuns DEF HostInv

\* A frame's dispatch of update() begins.
LEMMA UpdateStep == ASSUME HostInv, UpdateScripts PROVE HostInv'
<1>1. ShapesOK /\ SoundInv /\ StackInv
  BY DEF HostInv
<1>2. /\ stack' = <<>> /\ stack = <<>>
      /\ UNCHANGED <<self, last, alive, ident, effects, loose, phase>>
  BY <1>1 DEF UpdateScripts, StackInv, Running, Idle, worldVars
<1> DEFINE p == {e \in alive : comp[e] # <<>>}
<1>3. task' = [kind |-> "update", pending |-> p, e |-> 0, i |-> 0, got |-> <<>>, base |-> 0]
  BY DEF UpdateScripts, Begin, Idle
<1>4. /\ p \in SUBSET Ids /\ p \subseteq 1..last /\ last \in Nat /\ 0 \in Nat
      /\ \A e \in alive : e \notin p => comp[e] = <<>>
  BY <1>1, Shapes
<1> HIDE DEF p
<1>5. task' \in Task
  BY <1>3, <1>4, TaskBegins
<1> DEFINE fresh(x) == [x EXCEPT !.turns = 0, !.new = FALSE]
           all(s) == [i \in DOMAIN s |-> fresh(s[i])]
<1>6. comp' = [e \in Ids |-> all(comp[e])]
  BY DEF UpdateScripts
<1>7. \A x \in Script : fresh(x) \in Script /\ fresh(x).turns = 0 /\ (Sound(x) => Sound(fresh(x)))
  <2> SUFFICES ASSUME NEW x \in Script
               PROVE  fresh(x) \in Script /\ fresh(x).turns = 0 /\ (Sound(x) => Sound(fresh(x)))
    OBVIOUS
  <2> DEFINE a == [x EXCEPT !.turns = 0]
             b == [a EXCEPT !.new = FALSE]
  <2>1. a \in Script /\ a.turns = 0 /\ a.starts = x.starts /\ a.started = x.started
        /\ a.breached = x.breached /\ a.disabled = x.disabled
    BY DEF Script
  <2>2. b \in Script /\ b.turns = 0 /\ b.starts = x.starts /\ b.started = x.started
        /\ b.breached = x.breached /\ b.disabled = x.disabled
    <3> HIDE DEF a
    <3>. QED  BY <2>1 DEF Script
  <2>3. fresh(x) = b
    OBVIOUS
  <2> HIDE DEF b, fresh
  <2>. QED  BY <2>2, <2>3 DEF Sound
<1> HIDE DEF fresh
<1>8. \A s \in Seq(Script) : all(s) \in Seq(Script) /\ Len(all(s)) = Len(s)
          /\ \A j \in 1..Len(s) : s[j] \in Script /\ all(s)[j] = fresh(s[j])
  BY <1>7
<1> HIDE DEF all
<1>9. /\ comp' \in [Ids -> Seq(Script)]
      /\ \A e \in Ids : Len(comp'[e]) = Len(comp[e])
      /\ \A e \in Ids : \A j \in 1..Len(comp[e]) :
            comp'[e][j].turns = 0 /\ Sound(comp'[e][j])
  <2>1. comp \in [Ids -> Seq(Script)]
    BY <1>1, Shapes
  <2>. QED  BY <1>1, <1>6, <1>7, <1>8, <2>1 DEF SoundInv
<1>10. ShapesOK'
  <2>1. \A e \in Ids \ alive' : comp'[e] = <<>> /\ ident'[e] = <<>>
    BY <1>1, <1>2, <1>9, Shapes, EmptySeq
  <2>. QED  BY <1>1, <1>2, <1>5, <1>9, <2>1, Shapes, ShapesAfter DEF Bodies
<1>11. PassInv'
  BY <1>2, <1>3, <1>4 DEF PassInv, Loading
<1>12. SoundInv'
  BY <1>3, <1>9 DEF SoundInv
<1>13. TurnInv'
  <2>1. \A e \in alive : \A j \in 1..Len(comp'[e]) : comp'[e][j].turns = 0 /\ e \in p /\ e # 0
    BY <1>1, <1>4, <1>9, Shapes
  <2>. QED  BY <1>2, <1>3, <2>1 DEF TurnInv
<1>. QED  BY <1>2, <1>10, <1>11, <1>12, <1>13, NothingRuns DEF HostInv

-----------------------------------------------------------------------------
(* ScriptSystem: the events                                                 *)

\* The next entity of a dispatch has its turn, or is passed over.
LEMMA DispatchEntityStep == ASSUME HostInv, DispatchEntity PROVE HostInv'
<1>1. ShapesOK /\ SoundInv /\ PassInv /\ TurnInv
  BY DEF HostInv
<1>2. PICK e \in task.pending :
         \/ /\ e \in alive /\ comp[e] # <<>> /\ self' = e
            /\ task' = [task EXCEPT !.pending = @ \ {e}, !.e = e, !.i = 1]
         \/ /\ ~(e \in alive /\ comp[e] # <<>>) /\ self' = self
            /\ task' = [task EXCEPT !.pending = PassedOver(e)]
  BY DEF DispatchEntity
<1>3. /\ stack' = <<>> /\ stack = <<>> /\ task.e = 0 /\ task.kind \in {"start", "update"}
      /\ UNCHANGED <<comp, last, alive, ident, effects, loose, phase>>
  BY DEF DispatchEntity, Running, worldVars
<1> DEFINE p == task.pending \ {e}
<1>4. /\ p \in SUBSET Ids /\ e \in Ids /\ e \in Ids \union {0} /\ 1 \in Nat /\ task \in Task /\ task.i \in Nat
      /\ task.got \in Seq(Script) /\ task.e \in Ids \union {0}
      /\ p \subseteq task.pending /\ \A d \in task.pending : d \in p \/ d = e
  BY <1>1, TaskShapes
<1>5. e \notin p /\ e # 0 /\ e \in 0..last /\ p \subseteq 1..last
  <2>1. e \notin p
    OBVIOUS
  <2>2. task.pending \subseteq 1..last /\ last \in Nat
    BY <1>1, Shapes DEF PassInv
  <2> HIDE DEF p
  <2>. QED  BY <1>4, <2>1, <2>2
<1> HIDE DEF p
<1>6. CASE task' = Turned(task, p, e, 1) /\ self' = e
  <2>1. task' = TaskOf(task, p, e, 1, task.got)
    BY <1>4, <1>6, TurnChanges
  <2>2. task' \in Task
    BY <1>4, <2>1, TaskOfType
  <2>3. /\ task'.kind = task.kind /\ task'.pending = p /\ task'.e = e /\ task'.got = task.got
        /\ task'.i = 1
    BY <2>1 DEF TaskOf
  <2>4. ShapesOK'
    BY <1>1, <1>3, <1>4, <1>6, <2>2, Shapes, ShapesAfter DEF Bodies
  <2>5. PassInv'
    BY <1>3, <1>5, <2>3 DEF PassInv, Loading
  <2>6. SoundInv'
    BY <1>1, <1>3, <2>3 DEF SoundInv
  <2>7. TurnInv'
    <3> SUFFICES ASSUME task.kind = "update", NEW d \in alive, NEW j \in 1..Len(comp[d])
                 PROVE  /\ d \in p => comp[d][j].turns = 0
                        /\ d \notin p /\ d # e => Done(comp[d][j])
                        /\ d = e /\ j < 1 => Done(comp[d][j])
                        /\ d = e => comp[d][j].turns = 0
      BY <1>3, <2>3 DEF TurnInv
    <3>1. d # 0 /\ (j \in Nat /\ ~(j < 1))
      BY <1>1, Shapes
    <3>2. d \in task.pending => comp[d][j].turns = 0
      BY <1>1 DEF TurnInv
    <3>3. d \notin task.pending => Done(comp[d][j])
      BY <1>1, <1>3, <3>1 DEF TurnInv
    <3>. QED  BY <1>4, <1>5, <3>1, <3>2, <3>3
  <2>. QED  BY <1>3, <2>4, <2>5, <2>6, <2>7, NothingRuns DEF HostInv
<1>7. CASE task' = [task EXCEPT !.pending = p] /\ self' = self /\ ~(e \in alive /\ comp[e] # <<>>)
  <2>1. task' = TaskOf(task, p, task.e, task.i, task.got)
    BY <1>4, <1>7, PendingChanges
  <2>2. task' \in Task
    BY <1>4, <2>1, TaskOfType
  <2>3. /\ task'.kind = task.kind /\ task'.pending = p /\ task'.e = 0 /\ task'.got = task.got
        /\ task'.i = task.i
    BY <1>3, <2>1 DEF TaskOf
  <2>4. ShapesOK'
    BY <1>1, <1>3, <1>7, <2>2, Shapes, ShapesAfter DEF Bodies
  <2>5. PassInv'
    BY <1>1, <1>3, <1>5, <2>3 DEF PassInv, Loading
  <2>6. SoundInv'
    BY <1>1, <1>3, <2>3 DEF SoundInv
  <2>7. TurnInv'
    <3> SUFFICES ASSUME task.kind = "update", NEW d \in alive, NEW j \in 1..Len(comp[d])
                 PROVE  /\ d \in p => comp[d][j].turns = 0
                        /\ d \notin p => Done(comp[d][j])
                        /\ d # 0
      BY <1>3, <2>3 DEF TurnInv
    <3>1. d # 0 /\ d # e
      BY <1>1, <1>7, Shapes, EmptySeq
    <3>2. d \in task.pending => comp[d][j].turns = 0
      BY <1>1 DEF TurnInv
    <3>3. d \notin task.pending => Done(comp[d][j])
      BY <1>1, <1>3, <3>1 DEF TurnInv
    <3>. QED  BY <1>4, <3>1, <3>2, <3>3
  <2>. QED  BY <1>3, <2>4, <2>5, <2>6, <2>7, NothingRuns DEF HostInv
<1>. QED  BY <1>2, <1>6, <1>7 DEF PassedOver, Turned, p

\* Between the frames.
LEMMA DispatchEndsStep == ASSUME HostInv, DispatchEnds PROVE HostInv'
<1>1. ShapesOK /\ SoundInv
  BY DEF HostInv
<1>2. /\ stack' = <<>> /\ stack = <<>> /\ self' = 0 /\ effects' = FALSE
      /\ UNCHANGED <<comp, last, alive, ident, loose, phase>>
  BY DEF DispatchEnds, Running
<1>3. task' = [kind |-> "idle", pending |-> {}, e |-> 0, i |-> 0, got |-> <<>>, base |-> 0]
  BY DEF DispatchEnds, Idle
<1>4. task' \in Task
  <2>1. {} \in SUBSET Ids /\ 0 \in Nat
    OBVIOUS
  <2>. QED  BY <1>3, <2>1, TaskBegins
<1>5. ShapesOK'
  BY <1>1, <1>2, <1>4, Shapes, ShapesAfter DEF Bodies
<1>6. PassInv'
  BY <1>1, <1>2, <1>3, Shapes DEF PassInv, Loading
<1>7. SoundInv' /\ TurnInv'
  BY <1>1, <1>2, <1>3 DEF SoundInv, TurnInv
<1>. QED  BY <1>2, <1>5, <1>6, <1>7, NothingRuns DEF HostInv

\* An event of the entity in its turn is called.
LEMMA CalledStep ==
    ASSUME HostInv, task.kind \in {"start", "update"}, task.e \in alive,
           NEW j, j \in 1..Len(comp[task.e]), NEW ev, ev \in {"start", "update"},
           ev = "start" <=> ~comp[task.e][j].started, ev = "update" => task.kind = "update",
           ~comp[task.e][j].disabled, task.kind = "update" => comp[task.e][j].turns = 0,
           task.kind = "update" => \A k \in 1..Len(comp[task.e]) :
              /\ k < j => Done(comp[task.e][k])
              /\ k > j => comp[task.e][k].turns = 0,
           Called(task.e, j, ev), task' = [task EXCEPT !.i = j],
           UNCHANGED <<self, last, alive, ident, effects, loose, phase>>
    PROVE  HostInv'
<1> DEFINE e == task.e
<1>1. ShapesOK /\ SoundInv /\ PassInv /\ TurnInv
  BY DEF HostInv
<1>2. /\ e \in Ids /\ task.pending \in SUBSET Ids /\ e \in Ids \union {0} /\ j \in Nat /\ j # 0
      /\ task \in Task /\ task.got \in Seq(Script) /\ comp \in [Ids -> Seq(Script)]
  BY <1>1, Shapes, TaskShapes
<1>3. task' = TaskOf(task, task.pending, e, j, task.got)
  BY <1>2, IndexChanges
<1>4. task' \in Task
  <2> HIDE DEF e
  <2>1. TaskOf(task, task.pending, e, j, task.got) \in Task
    BY <1>2, TaskOfType
  <2>. QED  BY <1>3, <2>1
<1>5. /\ task'.kind = task.kind /\ task'.pending = task.pending /\ task'.e = e /\ task'.got = task.got
      /\ task'.i = j
  BY <1>3 DEF TaskOf
<1>6. PICK y \in Script :
         /\ Becomes(e, j, y) /\ Sound(y)
         /\ y.started /\ y.disabled = comp[e][j].disabled
         /\ y.turns = (IF ev = "update" THEN 1 ELSE comp[e][j].turns)
  BY <1>1, <1>2, CalledBecomes
<1> DEFINE f == Event(ev, e, j)
<1>7. f \in Frame /\ f.kind = ev
  BY <1>2 DEF Frame, Event
<1>8. stack' = <<f>>
  BY DEF Called
<1> HIDE DEF f
<1>9. stack' \in Seq(Frame) /\ Len(stack') = 1 /\ stack'[1] = f /\ stack' # <<>>
  BY <1>7, <1>8
<1>10. ShapesOK'
  <2>1. Len(stack') <= MaxNest
    BY <1>9, HostAssumption
  <2>2. \A d \in Ids \ alive' : comp'[d] = <<>> /\ ident'[d] = <<>>
    BY <1>1, <1>2, <1>6, Shapes, EmptySeq DEF Becomes
  <2>. QED  BY <1>1, <1>4, <1>6, <1>9, <2>1, <2>2, Shapes, ShapesAfter DEF Bodies, Becomes
<1>11. StackInv'
  <2>1. task'.kind \notin {"idle", "overflow"} /\ task'.e # 0 /\ ~Loading' /\ stack'[1].kind # "compile"
    BY <1>1, <1>2, <1>5, <1>7, <1>9, Shapes DEF Loading
  <2>2. /\ stack'[1].kind = "update" => task'.kind = "update"
        /\ \A k \in 2..Len(stack') : stack'[k].kind = "compile"
        /\ \A k \in 1..Len(stack') : stack'[k].kind # "compile"
    BY <1>5, <1>7, <1>9
  <2>. QED  BY <1>9, <2>1, <2>2 DEF StackInv
<1>12. PassInv'
  BY <1>1, <1>2, <1>5 DEF PassInv, Loading
<1>13. SoundInv'
  <2>1. \A d \in Ids : \A k \in 1..Len(comp'[d]) : Sound(comp'[d][k])
    BY <1>1, <1>6 DEF SoundInv, Becomes
  <2>. QED  BY <1>1, <1>5, <2>1 DEF SoundInv
<1>14. TurnInv'
  <2> SUFFICES ASSUME task.kind = "update", NEW d \in alive, NEW k \in 1..Len(comp'[d])
               PROVE  /\ d \in task.pending => comp'[d][k].turns = 0
                      /\ d \notin task.pending /\ d # e => Done(comp'[d][k])
                      /\ d = e /\ k < j => Done(comp'[d][k])
                      /\ d = e /\ k > j => comp'[d][k].turns = 0
                      /\ d = e /\ k = j /\ ev # "update" => comp'[d][k].turns = 0
    <3> HIDE DEF e
    <3>. QED  BY <1>5, <1>7, <1>9 DEF TurnInv, Running
  <2>1. d \in Ids /\ k \in 1..Len(comp[d]) /\ k \in Nat
    BY <1>1, <1>6, Shapes DEF Becomes
  <2>2. CASE d # e
    <3>1. comp'[d][k] = comp[d][k]
      BY <1>6, <2>1, <2>2 DEF Becomes
    <3>. QED  BY <1>1, <2>1, <2>2, <3>1 DEF TurnInv
  <2>3. CASE d = e
    <3>1. d \notin task.pending
      BY <1>1, <2>3 DEF PassInv
    <3>2. CASE k = j
      <4>1. comp'[d][k] = y
        BY <1>6, <2>1, <2>3, <3>2 DEF Becomes
      <4>. QED  BY <1>2, <1>6, <2>3, <3>1, <3>2, <4>1
    <3>3. CASE k # j
      <4>1. comp'[d][k] = comp[d][k]
        BY <1>6, <2>1, <3>3 DEF Becomes
      <4>. QED  BY <1>2, <2>1, <2>3, <3>1, <3>3, <4>1
    <3>. QED  BY <3>2, <3>3
  <2>. QED  BY <2>2, <2>3
<1>15. EventInv'
  <2>1. comp'[e][j] = y /\ j \in 1..Len(comp'[e])
    BY <1>2, <1>6 DEF Becomes
  <2>. QED  BY <1>5, <1>6, <1>7, <1>9, <2>1 DEF EventInv
<1>. QED  BY <1>10, <1>11, <1>12, <1>13, <1>14, <1>15 DEF HostInv

\* The next instance of the entity is called, or the entity has had its turn.
LEMMA DispatchInstanceStep == ASSUME HostInv, DispatchInstance PROVE HostInv'
<1> DEFINE e == task.e
           c == Callable(task.e, task.i)
<1>1. ShapesOK /\ SoundInv /\ PassInv /\ TurnInv
  BY DEF HostInv
<1>2. /\ task \in Task /\ task.pending \in SUBSET Ids /\ task.i \in Nat /\ e \in Ids \union {0} /\ task.i # 0
      /\ task.got \in Seq(Script)
  BY <1>1, TaskShapes DEF DispatchInstance, PassInv
<1>3. /\ stack = <<>> /\ task.kind \in {"start", "update"}
      /\ UNCHANGED <<self, last, alive, ident, effects, loose, phase>>
  BY DEF DispatchInstance, Running, worldVars
<1>4. CASE e \in alive /\ c # {}
  <2>1. PICK j \in c :
           /\ \A m \in c : j <= m
           /\ task' = [task EXCEPT !.i = j] /\ Called(e, j, IF comp[e][j].started THEN "update" ELSE "start")
    BY <1>4 DEF DispatchInstance
  <2> DEFINE ev == IF comp[e][j].started THEN "update" ELSE "start"
  <2>2. /\ j \in task.i..Len(comp[e]) /\ ~comp[e][j].disabled /\ (task.kind = "start" => ~comp[e][j].started)
        /\ j \in 1..Len(comp[e])
    <3>1. j \in task.i..Len(comp[e]) /\ ~comp[e][j].disabled /\ (task.kind = "start" => ~comp[e][j].started)
      BY <2>1 DEF Callable
    <3>2. Len(comp[e]) \in Nat
      BY <1>1, <1>4, Shapes
    <3>. QED  BY <1>2, <3>1, <3>2
  <2>3. task.kind = "update" => comp[e][j].turns = 0
    BY <1>1, <1>2, <1>3, <1>4, <2>2 DEF TurnInv, Running
  <2>4. ASSUME task.kind = "update", NEW k \in 1..Len(comp[e])
        PROVE  (k < j => Done(comp[e][k])) /\ (k > j => comp[e][k].turns = 0)
    <3>1. k < task.i => Done(comp[e][k])
      BY <1>1, <1>4, <2>4 DEF TurnInv
    <3>2. k \in task.i..Len(comp[e]) /\ k \notin c => Done(comp[e][k])
      BY <2>4 DEF Callable, Done
    <3>3. k > task.i => comp[e][k].turns = 0
      BY <1>1, <1>4, <2>4 DEF TurnInv
    <3>4. k \in Nat /\ j \in Nat /\ task.i <= j /\ k <= Len(comp[e]) /\ (k \in c => j <= k)
          /\ Len(comp[e]) \in Nat
      BY <1>1, <1>2, <1>4, <2>1, <2>2, Shapes
    <3> HIDE DEF c, e
    <3>5. k < j => k \notin c
      BY <3>4
    <3>6. k < task.i \/ k \in task.i..Len(comp[e])
      BY <1>2, <3>4
    <3>7. k > j => k > task.i
      BY <1>2, <3>4
    <3>. QED  BY <3>1, <3>2, <3>3, <3>5, <3>6, <3>7
  <2>5. /\ ev \in {"start", "update"} /\ (ev = "start" <=> ~comp[e][j].started)
        /\ ev = "update" => task.kind = "update"
    <3>1. comp[e][j].started \in BOOLEAN
      <4>1. comp[e][j] \in Script
        BY <1>1, <1>4, <2>2, Shapes
      <4>. QED  BY <4>1 DEF Script
    <3>. QED  BY <1>3, <2>2, <3>1
  <2>6. Called(e, j, ev)
    BY <2>1
  <2> HIDE DEF ev
  <2>. QED  BY <1>3, <1>4, <2>1, <2>2, <2>3, <2>4, <2>5, <2>6, CalledStep
<1>5. CASE ~(e \in alive /\ c # {})
  <2>1. task' = [task EXCEPT !.e = 0] /\ UNCHANGED <<comp, stack>>
    BY <1>5 DEF DispatchInstance
  <2>2. task' = TaskOf(task, task.pending, 0, task.i, task.got)
    BY <1>2, <2>1, EntityChanges
  <2>3. task' \in Task
    BY <1>2, <2>2, TaskOfType
  <2>4. /\ task'.kind = task.kind /\ task'.pending = task.pending /\ task'.e = 0 /\ task'.got = task.got
        /\ task'.i = task.i
    BY <2>2 DEF TaskOf
  <2>5. ShapesOK'
    BY <1>1, <1>3, <2>1, <2>3, Shapes, ShapesAfter DEF Bodies
  <2>6. PassInv'
    BY <1>1, <1>3, <2>4, Shapes DEF PassInv, Loading
  <2>7. SoundInv'
    BY <1>1, <2>1, <2>4 DEF SoundInv
  <2>8. TurnInv'
    <3> SUFFICES ASSUME task.kind = "update", NEW d \in alive, NEW k \in 1..Len(comp[d])
                 PROVE  /\ d \in task.pending => comp[d][k].turns = 0
                        /\ d \notin task.pending => Done(comp[d][k])
                        /\ d # 0
      BY <1>3, <2>1, <2>4 DEF TurnInv
    <3>1. d # 0 /\ d \in Ids /\ k \in Nat /\ k <= Len(comp[d]) /\ Len(comp[d]) \in Nat
      BY <1>1, Shapes
    <3>2. d = e => Done(comp[d][k])
      <4> SUFFICES ASSUME d = e PROVE Done(comp[d][k])
        OBVIOUS
      <4>1. k < task.i => Done(comp[d][k])
        BY <1>1 DEF TurnInv
      <4>2. k \in task.i..Len(comp[d]) => comp[d][k].disabled
        BY <1>5 DEF Callable
      <4>3. k < task.i \/ k \in task.i..Len(comp[d])
        BY <1>2, <3>1
      <4>. QED  BY <4>1, <4>2, <4>3 DEF Done
    <3>. QED  BY <1>1, <3>1, <3>2 DEF TurnInv
  <2>. QED  BY <1>3, <2>1, <2>5, <2>6, <2>7, <2>8, NothingRuns DEF HostInv
<1>. QED  BY <1>4, <1>5

\* An event ends: update() follows start(), a limit disables, or the next instance is due.
LEMMA EventEndsStep == ASSUME HostInv, NEW r, EventEnds(r) PROVE HostInv'
<1> DEFINE e == task.e
           i == task.i
           follows == r # "limit" /\ Top.kind = "start" /\ task.kind = "update"
<1>1. ShapesOK /\ SoundInv /\ PassInv /\ TurnInv /\ StackInv /\ EventInv
  BY DEF HostInv
<1>2. /\ task \in Task /\ task.pending \in SUBSET Ids /\ i \in Nat /\ i + 1 \in Nat /\ e \in Ids \union {0}
      /\ task.got \in Seq(Script) /\ comp \in [Ids -> Seq(Script)] /\ alive \subseteq Ids
  <2>1. i \in Nat /\ task.pending \in SUBSET Ids /\ e \in Ids \union {0} /\ task.got \in Seq(Script)
    BY <1>1, TaskShapes
  <2>2. comp \in [Ids -> Seq(Script)] /\ alive \subseteq Ids /\ task \in Task
    BY <1>1, Shapes, TaskShapes
  <2> HIDE DEF i
  <2>3. i + 1 \in Nat
    BY <2>1
  <2>. QED  BY <2>1, <2>2, <2>3
<1>3. /\ Running /\ Top.kind \in {"start", "update"}
      /\ UNCHANGED <<self, last, alive, ident, effects, loose, phase>>
  BY DEF EventEnds, worldVars
<1>4. Top = stack[1] /\ Pop = <<>> /\ stack[1].kind # "compile"
  BY <1>1, <1>3, EventIsAlone
<1>5. /\ e # 0 /\ task.kind \in {"start", "update"} /\ (Top.kind = "update" => task.kind = "update")
  <2>1. task.kind \notin {"idle", "overflow"} /\ ~Loading /\ e # 0
    BY <1>1, <1>3, <1>4 DEF StackInv
  <2>. QED  BY <1>1, <1>3, <1>4, <2>1, TaskShapes DEF StackInv, Loading
<1>6. e \in alive => /\ i \in 1..Len(comp[e]) /\ comp[e][i].started /\ ~comp[e][i].disabled
                     /\ Top.kind = "update" => comp[e][i].turns = 1
  BY <1>1, <1>3, <1>4 DEF EventInv
<1>7. task.kind = "update" /\ e \in alive =>
         /\ e \notin task.pending
         /\ Top.kind = "start" => comp[e][i].turns = 0
         /\ \A k \in 1..Len(comp[e]) : (k < i => Done(comp[e][k])) /\ (k > i => comp[e][k].turns = 0)
  BY <1>1, <1>3, <1>4, <1>6 DEF TurnInv, PassInv
<1>8. CASE follows /\ e \in alive
  <2>1. Called(e, i, "update") /\ task' = task
    BY <1>8 DEF EventEnds
  <2>2. task' = [task EXCEPT !.i = i]
    <3>1. [task EXCEPT !.i = i] = task
      BY <1>2 DEF Task
    <3>. QED  BY <2>1, <3>1
  <2> DEFINE ev == "update"
  <2>3. Called(e, i, ev) /\ ev \in {"start", "update"} /\ (ev = "start" <=> ~comp[e][i].started)
    BY <1>6, <1>8, <2>1
  <2> HIDE DEF ev
  <2>. QED  BY <1>3, <1>5, <1>6, <1>7, <1>8, <2>2, <2>3, CalledStep
<1>9. CASE ~(follows /\ e \in alive)
  <2>1. /\ stack' = <<>>
        /\ task' = IF follows THEN [task EXCEPT !.e = 0] ELSE [task EXCEPT !.i = i + 1]
        /\ comp' = IF r = "limit" /\ e \in alive
                   THEN [comp EXCEPT ![e][i].disabled = TRUE, ![e][i].breached = TRUE] ELSE comp
    BY <1>4, <1>9 DEF EventEnds, MarkDisabled
  <2> HIDE DEF follows
  <2>2. IF follows THEN task' = TaskOf(task, task.pending, 0, i, task.got)
                   ELSE task' = TaskOf(task, task.pending, e, i + 1, task.got)
    BY <1>2, <2>1, EntityChanges, IndexChanges
  <2>3. task' \in Task
    <3>1. TaskOf(task, task.pending, 0, i, task.got) \in Task /\ TaskOf(task, task.pending, e, i + 1, task.got) \in Task
      <4> HIDE DEF e, i
      <4>. QED  BY <1>2, TaskOfType
    <3>. QED  BY <2>2, <3>1
  <2>4. /\ task'.kind = task.kind /\ task'.pending = task.pending /\ task'.got = task.got
        /\ task'.e = (IF follows THEN 0 ELSE e) /\ (~follows => task'.i = i + 1)
    BY <2>2 DEF TaskOf
  <2>5. /\ comp' \in [Ids -> Seq(Script)]
        /\ \A d \in Ids : Len(comp'[d]) = Len(comp[d])
        /\ \A d \in Ids : \A k \in 1..Len(comp[d]) :
              /\ d # e \/ k # i => comp'[d][k] = comp[d][k]
              /\ Done(comp[d][k]) => Done(comp'[d][k])
              /\ Sound(comp'[d][k])
              /\ d = e /\ k = i /\ e \in alive /\ r = "limit" => Done(comp'[d][k])
    <3>1. CASE ~(r = "limit" /\ e \in alive)
      <4>1. comp' = comp
        BY <2>1, <3>1
      <4>. QED  BY <1>1, <1>2, <3>1, <4>1 DEF SoundInv
    <3>2. CASE r = "limit" /\ e \in alive
      <4> DEFINE x == comp[e][i]
                 a == [x EXCEPT !.disabled = TRUE]
                 y == [a EXCEPT !.breached = TRUE]
      <4>1. x \in Script /\ Sound(x) /\ e \in Ids /\ i \in 1..Len(comp[e])
        BY <1>1, <1>2, <1>6, <3>2 DEF SoundInv
      <4>2. a \in Script /\ a.disabled = TRUE /\ a.starts = x.starts /\ a.started = x.started /\ a.turns = x.turns
        BY <4>1 DEF Script
      <4>3. /\ y \in Script /\ y.disabled = TRUE /\ y.starts = x.starts /\ y.started = x.started
            /\ y.turns = x.turns
        <5> HIDE DEF a
        <5>. QED  BY <4>2 DEF Script
      <4>4. comp' = [comp EXCEPT ![e] = [@ EXCEPT ![i] = y]]
        BY <1>2, <2>1, <3>2, <4>1 DEF Script
      <4> HIDE DEF y
      <4>5. Becomes(e, i, y)
        BY <1>2, <4>1, <4>3, <4>4, BecomesIs
      <4>6. Sound(y) /\ Done(y)
        BY <4>1, <4>3 DEF Sound, Done
      <4>. QED  BY <1>1, <4>5, <4>6 DEF Becomes, SoundInv
    <3>. QED  BY <3>1, <3>2
  <2>6. ShapesOK'
    <3>1. \A d \in Ids \ alive' : comp'[d] = <<>> /\ ident'[d] = <<>>
      BY <1>1, <1>3, <2>5, Shapes, EmptySeq
    <3>2. stack' \in Seq(Frame) /\ Len(stack') <= MaxNest
      BY <2>1, HostAssumption
    <3>. QED  BY <1>1, <1>3, <2>3, <2>5, <3>1, <3>2, Shapes, ShapesAfter DEF Bodies
  <2>7. PassInv'
    BY <1>1, <1>2, <1>3, <1>5, <2>4, Shapes DEF PassInv, Loading
  <2>8. SoundInv'
    BY <1>1, <2>4, <2>5 DEF SoundInv
  <2>9. TurnInv'
    <3> SUFFICES ASSUME task.kind = "update", NEW d \in alive, NEW k \in 1..Len(comp[d])
                 PROVE  /\ d \in task.pending => comp'[d][k].turns = 0
                        /\ d \notin task.pending /\ d # task'.e => Done(comp'[d][k])
                        /\ d = task'.e /\ k < task'.i => Done(comp'[d][k])
                        /\ d = task'.e /\ k > task'.i => comp'[d][k].turns = 0
                        /\ d = task'.e /\ k = task'.i => comp'[d][k].turns = 0
      BY <1>2, <1>3, <2>4, <2>5 DEF TurnInv
    <3>1. d \in Ids /\ d # 0 /\ k \in Nat
      BY <1>1, Shapes
    <3>2. CASE d # e
      <4>1. comp'[d][k] = comp[d][k] /\ d # task'.e
        BY <2>4, <2>5, <3>1, <3>2
      <4>. QED  BY <1>1, <3>2, <4>1 DEF TurnInv
    <3>3. CASE d = e
      <4>1. ~follows /\ task'.e = e /\ task'.i = i + 1 /\ d \notin task.pending
        BY <1>7, <1>9, <2>4, <3>3 DEF follows
      <4>2. k = i => Done(comp'[d][k])
        <5>1. CASE r = "limit"
          BY <2>5, <3>1, <3>3, <5>1
        <5>2. CASE r # "limit"
          <6>1. Top.kind = "update"
            BY <1>3, <4>1, <5>2 DEF follows
          <6>2. Done(comp[e][i])
            BY <1>6, <3>3, <6>1 DEF Done
          <6>. QED  BY <2>5, <3>1, <3>3, <6>2
        <5>. QED  BY <5>1, <5>2
      <4>3. k < i => Done(comp'[d][k])
        BY <1>7, <2>5, <3>1, <3>3
      <4>4. k > i => comp'[d][k].turns = 0
        BY <1>2, <1>7, <2>5, <3>1, <3>3
      <4> HIDE DEF i, e
      <4>5. (k < i + 1 => k < i \/ k = i) /\ (k >= i + 1 => k > i)
        BY <1>2, <3>1
      <4>. QED  BY <1>2, <3>1, <3>3, <4>1, <4>2, <4>3, <4>4, <4>5
    <3>. QED  BY <3>2, <3>3
  <2>. QED  BY <2>1, <2>6, <2>7, <2>8, <2>9, NothingRuns DEF HostInv
<1>. QED  BY <1>8, <1>9

-----------------------------------------------------------------------------
(* Builtins                                                                 *)

\* A script spawns a body.
LEMMA SpawnStep == ASSUME HostInv, Spawn PROVE HostInv'
<1>1. ShapesOK /\ SoundInv /\ PassInv /\ TurnInv /\ StackInv /\ EventInv
  BY DEF HostInv
<1>2. /\ last' = last + 1 /\ last < MaxEntities /\ alive' = alive \union {last'}
      /\ UNCHANGED <<comp, task, stack, self, ident, phase, effects, loose>>
  BY DEF Spawn, hostVars
<1>3. /\ last' \in 0..MaxEntities /\ last' \in Ids /\ alive' \subseteq 1..last' /\ last' \notin alive
      /\ last' > last /\ last \in Nat /\ alive' \subseteq Ids
  BY <1>1, <1>2, Shapes
<1>4. comp[last'] = <<>> /\ Len(comp[last']) = 0 /\ task.e # last'
  BY <1>1, <1>3, Shapes, EmptySeq DEF PassInv
<1>5. ShapesOK'
  <2>1. loose' \subseteq Bodies'
    BY <1>1, <1>2, Shapes DEF Bodies
  <2>. QED  BY <1>1, <1>2, <1>3, <2>1, Shapes, TaskShapes, ShapesAfter
<1>6. StackInv'
  BY <1>1, <1>2 DEF StackInv, Running, Loading
<1>7. PassInv'
  BY <1>1, <1>2, <1>3 DEF PassInv, Loading
<1>8. SoundInv'
  BY <1>1, <1>2 DEF SoundInv
<1>9. TurnInv'
  <2> SUFFICES ASSUME task.kind = "update", NEW d \in alive', NEW j \in 1..Len(comp[d])
               PROVE  d \in alive
    BY <1>1, <1>2 DEF TurnInv, Running
  <2>. QED  BY <1>2, <1>4
<1>10. EventInv'
  BY <1>1, <1>2, <1>4 DEF EventInv, Running
<1>. QED  BY <1>5, <1>6, <1>7, <1>8, <1>9, <1>10 DEF HostInv

\* A script destroys an entity.
LEMMA DestroyStep == ASSUME HostInv, NEW e \in Ids, Destroy(e) PROVE HostInv'
<1>1. ShapesOK /\ SoundInv /\ PassInv /\ TurnInv /\ StackInv /\ EventInv
  BY DEF HostInv
<1>2. /\ Running /\ Top.kind # "compile" /\ alive' = alive \ {e} /\ loose' = loose \ {e}
      /\ ident' = [ident EXCEPT ![e] = <<>>] /\ comp' = [comp EXCEPT ![e] = <<>>]
      /\ UNCHANGED <<last, task, stack, self, phase, effects>>
  BY DEF Destroy, Withdrawn
<1>3. Len(stack) = 1 /\ stack[1].kind # "compile" /\ ~Loading
  BY <1>1, <1>2, EventIsAlone DEF StackInv
<1>4. /\ comp' \in [Ids -> Seq(Script)] /\ ident' \in [Ids -> Seq(Files)]
      /\ comp'[e] = <<>> /\ Len(comp'[e]) = 0 /\ ident'[e] = <<>>
      /\ \A d \in Ids : d # e => comp'[d] = comp[d] /\ ident'[d] = ident[d]
  <2>1. comp \in [Ids -> Seq(Script)] /\ ident \in [Ids -> Seq(Files)]
    BY <1>1, Shapes
  <2>. QED  BY <1>2, <2>1
<1>5. ShapesOK'
  <2>1. loose' \subseteq Bodies' /\ \A d \in Ids \ alive' : comp'[d] = <<>> /\ ident'[d] = <<>>
    BY <1>1, <1>2, <1>4, Shapes DEF Bodies
  <2>. QED  BY <1>1, <1>2, <1>4, <2>1, Shapes, TaskShapes, ShapesAfter
<1>6. StackInv'
  <2>1. \A k \in 1..Len(stack') : stack'[k].kind # "compile"
    BY <1>2, <1>3
  <2>. QED  BY <1>1, <1>2, <2>1 DEF StackInv, Running, Loading
<1>7. PassInv'
  BY <1>1, <1>2, <1>3 DEF PassInv, Loading
<1>8. SoundInv'
  BY <1>1, <1>2, <1>4 DEF SoundInv
<1>9. TurnInv'
  <2> SUFFICES ASSUME task.kind = "update", NEW d \in alive', NEW j \in 1..Len(comp'[d])
               PROVE  d \in alive /\ comp'[d] = comp[d]
    BY <1>1, <1>2 DEF TurnInv, Running
  <2>. QED  BY <1>1, <1>2, <1>4, Shapes
<1>10. EventInv'
  <2>1. task.e \in alive' => task.e \in alive /\ comp'[task.e] = comp[task.e]
    BY <1>1, <1>2, <1>4, Shapes
  <2>. QED  BY <1>1, <1>2, <2>1 DEF EventInv, Running
<1>. QED  BY <1>5, <1>6, <1>7, <1>8, <1>9, <1>10 DEF HostInv

\* Asking, moving and setting transforms change nothing that the scripts' turns depend on.
LEMMA QuietStep ==
    ASSUME HostInv, UNCHANGED <<last, alive, ident, comp, task, stack, self, phase>>,
           effects' \in BOOLEAN, loose' \subseteq Bodies
    PROVE  HostInv'
<1>1. ShapesOK /\ SoundInv /\ PassInv /\ TurnInv /\ StackInv /\ EventInv
  BY DEF HostInv
<1>2. ShapesOK'
  <2>1. Bodies' = Bodies
    BY DEF Bodies
  <2>. QED  BY <1>1, <2>1, Shapes, TaskShapes, ShapesAfter
<1>3. SoundInv' /\ PassInv' /\ TurnInv' /\ StackInv' /\ EventInv'
  BY <1>1 DEF SoundInv, PassInv, TurnInv, StackInv, EventInv, Running, Loading
<1>. QED  BY <1>2, <1>3 DEF HostInv

\* The native stack is exhausted: nothing runs any more.
LEMMA OverflowStep ==
    ASSUME HostInv, stack' = <<>>, task' = Overflown,
           UNCHANGED <<comp, self, last, alive, ident, effects, loose, phase>>
    PROVE  HostInv'
<1>1. ShapesOK /\ SoundInv
  BY DEF HostInv
<1>2. task' = [kind |-> "overflow", pending |-> {}, e |-> 0, i |-> 0, got |-> <<>>, base |-> 0]
  BY DEF Overflown, Idle
<1>3. task' \in Task
  <2>1. {} \in SUBSET Ids /\ 0 \in Nat
    OBVIOUS
  <2>. QED  BY <1>2, <2>1, TaskBegins
<1>4. ShapesOK'
  <2>1. stack' \in Seq(Frame) /\ Len(stack') = 0 /\ 0 <= MaxNest
    BY HostAssumption
  <2>. QED  BY <1>1, <1>3, <2>1, Shapes, ShapesAfter DEF Bodies
<1>5. PassInv'
  BY <1>1, <1>2, Shapes DEF PassInv, Loading
<1>6. SoundInv' /\ TurnInv'
  BY <1>1, <1>2 DEF SoundInv, TurnInv
<1>. QED  BY <1>4, <1>5, <1>6, NothingRuns DEF HostInv

\* init() is over.
LEMMA InitEndsStep == ASSUME HostInv, InitEnds PROVE HostInv'
<1>1. ShapesOK /\ StackInv /\ SoundInv /\ PassInv /\ TurnInv
  BY DEF HostInv
<1>2. /\ UNCHANGED <<last, alive, ident, comp, task, stack, self, effects, loose>>
      /\ task = Idle /\ phase' \in Phases
  BY DEF InitEnds, hostVars, worldVars, Phases
<1>3. stack' = <<>>
  BY <1>1, <1>2 DEF StackInv, Idle, Running
<1>4. ShapesOK'
  BY <1>1, <1>2, <1>3, Shapes, TaskShapes, ShapesAfter DEF Bodies
<1>5. SoundInv' /\ PassInv' /\ TurnInv'
  BY <1>1, <1>2 DEF SoundInv, PassInv, TurnInv, Running, Loading
<1>. QED  BY <1>3, <1>4, <1>5, NothingRuns DEF HostInv

\* A script is attached: its top level runs above the script that asked.
LEMMA AttachStep ==
    ASSUME HostInv, NEW e \in Ids, NEW path \in Paths, Attach(e, path), Len(stack) < MaxNest
    PROVE  HostInv'
<1> DEFINE f == Compiling(e, path)
           n == Len(stack)
<1>1. ShapesOK /\ SoundInv /\ PassInv /\ TurnInv /\ StackInv /\ EventInv
  BY DEF HostInv
<1>2. /\ Running /\ phase # "client" /\ e \in alive /\ n < MaxNest /\ stack' = Append(stack, f)
      /\ UNCHANGED <<comp, task, self, last, alive, ident, effects, loose, phase>>
  BY DEF Attach, worldVars, enabled
<1>3. path \in Files /\ f \in Frame /\ f.kind = "compile" /\ f.e = e /\ f.path = path
  BY DEF Frame, Compiling, Files
<1> HIDE DEF f
<1>4. /\ stack' \in Seq(Frame) /\ Running' /\ Len(stack') = n + 1 /\ n \in Nat \ {0}
      /\ stack'[n + 1] = f /\ \A k \in 1..n : stack'[k] = stack[k]
  BY <1>1, <1>2, <1>3, PushedFrame, TopOfStack DEF Running
<1>5. Len(stack') <= MaxNest /\ stack'[1] = stack[1]
  BY <1>2, <1>4, HostAssumption
<1>6. ShapesOK'
  BY <1>1, <1>2, <1>4, <1>5, Shapes, TaskShapes, ShapesAfter DEF Bodies
<1>7. StackInv'
  <2>1. \A k \in 1..Len(stack') : k \in 1..n \/ k = n + 1
    BY <1>4
  <2>2. \A k \in 2..Len(stack') : stack'[k].kind = "compile"
    BY <1>1, <1>3, <1>4, <2>1 DEF StackInv
  <2>3. \A k \in 1..Len(stack') : stack'[k].kind = "compile" => stack'[k].e \in alive' /\ stack'[k].path \in Files
    BY <1>1, <1>2, <1>3, <1>4, <2>1 DEF StackInv
  <2> HIDE DEF n
  <2>. QED  BY <1>1, <1>2, <1>4, <1>5, <2>2, <2>3 DEF StackInv, Loading
<1>8. SoundInv' /\ PassInv' /\ TurnInv' /\ EventInv'
  BY <1>1, <1>2, <1>4, <1>5 DEF SoundInv, PassInv, TurnInv, EventInv, Loading
<1>. QED  BY <1>6, <1>7, <1>8 DEF HostInv

\* The top level of a script ends: the script is kept if it compiled.
LEMMA CompileEndsStep == ASSUME HostInv, NEW r, CompileEnds(r) PROVE HostInv'
<1> DEFINE d == Top.e
           y == Instance(Top.path)
           n == Len(stack)
<1>1. ShapesOK /\ SoundInv /\ PassInv /\ TurnInv /\ StackInv /\ EventInv
  BY DEF HostInv
<1>2. /\ Running /\ Top.kind = "compile" /\ stack' = Pop
      /\ UNCHANGED <<last, alive, self, effects, loose, phase>>
  BY DEF CompileEnds
<1>3. /\ n \in Nat \ {0} /\ stack' \in Seq(Frame) /\ Len(stack') = n - 1
      /\ \A k \in 1..(n - 1) : stack'[k] = stack[k]
  BY <1>1, <1>2, TopOfStack
<1>4. d \in alive /\ d \in Ids /\ Top.path \in Files
  <2>1. n \in 1..n /\ Top = stack[n]
    BY <1>3 DEF Top
  <2>2. stack[n].e \in alive /\ stack[n].path \in Files
    BY <1>1, <1>2, <2>1 DEF StackInv
  <2>. QED  BY <1>1, <2>1, <2>2, Shapes
<1>5. y \in Script /\ Sound(y) /\ y.new /\ y.turns = 0
  BY <1>4, NewInstance
<1>6. n = 1 => Loading
  BY <1>1, <1>2 DEF StackInv, Top
<1>7. /\ n = 1 => stack' = <<>>
      /\ n # 1 => stack'[1] = stack[1] /\ task'.kind = task.kind /\ task'.e = task.e
  <2>1. n = 1 => stack' = <<>>
    BY <1>3, EmptySeq
  <2>2. n # 1 => 1 \in 1..(n - 1)
    BY <1>3
  <2>3. n # 1 => task' = task
    BY DEF CompileEnds
  <2>. QED  BY <1>3, <2>1, <2>2, <2>3
<1>8. StackInv'
  <2>1. CASE n = 1
    BY <1>7, <2>1, NothingRuns
  <2>2. CASE n # 1
    <3>1. \A k \in 2..(n - 1) : k \in 2..n /\ k \in 1..(n - 1)
      BY <1>3
    <3>2. \A k \in 1..(n - 1) : k \in 1..n
      BY <1>3
    <3>3. phase = "client" => n - 1 <= 1
      BY <1>1, <1>3 DEF StackInv
    <3>4. \A k \in 2..Len(stack') : stack'[k].kind = "compile"
      BY <1>1, <1>3, <3>1 DEF StackInv
    <3>5. \A k \in 1..Len(stack') : stack'[k].kind = "compile" => stack'[k].e \in alive' /\ stack'[k].path \in Files
      BY <1>1, <1>2, <1>3, <3>2 DEF StackInv
    <3>. QED  BY <1>1, <1>2, <1>3, <1>7, <2>2, <3>3, <3>4, <3>5 DEF StackInv, Loading, Running
  <2>. QED  BY <2>1, <2>2
<1>9. Len(stack') <= MaxNest
  <2>1. n <= MaxNest
    BY <1>1, Shapes
  <2> HIDE DEF n
  <2>. QED  BY <1>3, <2>1, HostAssumption
<1>10. CASE UNCHANGED <<ident, comp, task>>
  <2>1. ShapesOK'
    BY <1>1, <1>2, <1>3, <1>9, <1>10, Shapes, TaskShapes, ShapesAfter DEF Bodies
  <2>2. SoundInv' /\ PassInv'
    BY <1>1, <1>2, <1>10 DEF SoundInv, PassInv, Loading
  <2>3. TurnInv' /\ EventInv'
    <3>1. CASE n = 1
      BY <1>6, <1>7, <1>10, <3>1, NothingRuns DEF TurnInv, Loading
    <3>2. CASE n # 1
      <4>1. Running' /\ Running /\ stack'[1] = stack[1]
        BY <1>2, <1>3, <1>7, <3>2 DEF Running
      <4>. QED  BY <1>1, <1>2, <1>10, <4>1 DEF TurnInv, EventInv
    <3>. QED  BY <3>1, <3>2
  <2>. QED  BY <1>8, <2>1, <2>2, <2>3 DEF HostInv
<1>11. CASE /\ n = 1 /\ Loading /\ task' = [task EXCEPT !.got = Append(@, y)]
            /\ UNCHANGED <<ident, comp>>
  <2> DEFINE g == Append(task.got, y)
  <2>1. /\ task \in Task /\ task.pending \in SUBSET Ids /\ task.i \in Nat /\ task.got \in Seq(Script)
        /\ task.e \in Ids \union {0}
    BY <1>1, TaskShapes
  <2>2. /\ g \in Seq(Script) /\ Len(g) = Len(task.got) + 1 /\ Len(task.got) \in Nat
        /\ g[Len(task.got) + 1] = y /\ \A k \in 1..Len(task.got) : g[k] = task.got[k]
    BY <1>5, <2>1, AppendProperties
  <2>3. task' = [task EXCEPT !.got = g]
    BY <1>11
  <2> HIDE DEF g
  <2>4. task' = TaskOf(task, task.pending, task.e, task.i, g)
    BY <2>1, <2>3, GotChanges
  <2>5. task' \in Task
    BY <2>1, <2>2, <2>4, TaskOfType
  <2>6. /\ task'.kind = task.kind /\ task'.pending = task.pending /\ task'.e = task.e /\ task'.i = task.i
        /\ task'.got = g
    BY <2>4 DEF TaskOf
  <2>7. ShapesOK'
    BY <1>1, <1>2, <1>3, <1>9, <1>11, <2>5, Shapes, ShapesAfter DEF Bodies
  <2>8. PassInv' /\ TurnInv'
    BY <1>1, <1>2, <1>11, <2>6 DEF PassInv, TurnInv, Loading
  <2>9. SoundInv'
    <3>1. \A k \in 1..Len(g) : Sound(g[k])
      BY <1>1, <1>5, <2>2 DEF SoundInv
    <3>. QED  BY <1>1, <1>11, <2>6, <3>1 DEF SoundInv
  <2>. QED  BY <1>7, <1>8, <1>11, <2>7, <2>8, <2>9, NothingRuns DEF HostInv
<1>12. CASE /\ ~(n = 1 /\ Loading) /\ task' = task
            /\ ident' = [ident EXCEPT ![d] = Recorded(d, Top.path)]
            /\ comp' = [comp EXCEPT ![d] = Append(@, y)]
  <2>1. n # 1
    BY <1>6, <1>12
  <2>2. comp \in [Ids -> Seq(Script)] /\ ident \in [Ids -> Seq(Files)]
    BY <1>1, Shapes
  <2>3. Grows(d, y)
    BY <1>4, <1>5, <1>12, <2>2, GrowsIs
  <2>4. Recorded(d, Top.path) \in Seq(Files)
    <3>1. ident[d] \in Seq(Files)
      BY <1>4, <2>2
    <3>. QED  BY <1>4, <3>1, AppendProperties DEF Recorded
  <2> HIDE DEF d, y, n
  <2>5. ident' \in [Ids -> Seq(Files)] /\ \A e \in Ids : e # d => ident'[e] = ident[e]
    BY <1>4, <1>12, <2>2, <2>4
  <2>6. /\ \A e \in Ids : e # d => Len(comp'[e]) = Len(comp[e])
        /\ Len(comp'[d]) = Len(comp[d]) + 1
        /\ \A e \in Ids : Len(comp[e]) \in Nat
    BY <1>4, <2>2, <2>3 DEF Grows
  <2>7. \A e \in Ids : \A k \in 1..Len(comp'[e]) :
           \/ k \in 1..Len(comp[e]) /\ comp'[e][k] = comp[e][k]
           \/ e = d /\ comp'[e][k] = y
    <3> SUFFICES ASSUME NEW e \in Ids, NEW k \in 1..Len(comp'[e])
                 PROVE  \/ k \in 1..Len(comp[e]) /\ comp'[e][k] = comp[e][k]
                        \/ e = d /\ comp'[e][k] = y
      OBVIOUS
    <3>1. k \in 1..Len(comp[e]) => comp'[e][k] = comp[e][k]
      BY <2>3 DEF Grows
    <3>2. k \in 1..Len(comp[e]) \/ (e = d /\ k = Len(comp[e]) + 1)
      BY <2>6
    <3>. QED  BY <2>3, <3>1, <3>2 DEF Grows
  <2>8. ShapesOK'
    <3>1. \A e \in Ids \ alive' : comp'[e] = <<>> /\ ident'[e] = <<>>
      <4> SUFFICES ASSUME NEW e \in Ids \ alive' PROVE comp'[e] = <<>> /\ ident'[e] = <<>>
        OBVIOUS
      <4>1. e \notin alive /\ e # d /\ comp[e] = <<>> /\ ident[e] = <<>>
        BY <1>1, <1>2, <1>4, Shapes
      <4>. QED  BY <2>3, <2>5, <2>6, <4>1, EmptySeq DEF Grows
    <3>2. comp' \in [Ids -> Seq(Script)]
      BY <2>3 DEF Grows
    <3>. QED  BY <1>1, <1>2, <1>3, <1>9, <1>12, <2>5, <3>1, <3>2, Shapes, TaskShapes, ShapesAfter DEF Bodies
  <2>9. PassInv' /\ SoundInv'
    <3>1. SoundInv'
      BY <1>1, <1>5, <1>12, <2>7 DEF SoundInv
    <3>. QED  BY <1>1, <1>2, <1>12, <3>1 DEF PassInv, Loading
  <2>10. TurnInv'
    <3>1. /\ stack'[1] = stack[1] /\ Running'
      BY <1>3, <1>7, <2>1 DEF Running
    <3> SUFFICES ASSUME task.kind = "update", NEW e \in alive, NEW k \in 1..Len(comp'[e])
                 PROVE  /\ e \in task.pending => comp'[e][k].turns = 0
                        /\ e \notin task.pending /\ e # task.e => Done(comp'[e][k])
                        /\ e = task.e /\ k < task.i => Done(comp'[e][k])
                        /\ e = task.e /\ k > task.i => comp'[e][k].turns = 0
                        /\ e = task.e /\ k = task.i /\ ~(Running /\ stack[1].kind = "update") =>
                              comp'[e][k].turns = 0
      BY <1>2, <1>12, <3>1 DEF TurnInv
    <3>2. e \in Ids
      BY <1>1, Shapes
    <3>3. CASE k \in 1..Len(comp[e]) /\ comp'[e][k] = comp[e][k]
      BY <1>1, <3>3 DEF TurnInv
    <3>4. CASE comp'[e][k] = y /\ e = d
      <4>1. Done(y)
        BY <1>5 DEF Done
      <4>. QED  BY <1>5, <3>4, <4>1
    <3>. QED  BY <2>7, <3>2, <3>3, <3>4
  <2>11. EventInv'
    <3> SUFFICES ASSUME stack[1].kind # "compile", task.e \in alive
                 PROVE  /\ task.i \in 1..Len(comp'[task.e])
                        /\ comp'[task.e][task.i].started /\ ~comp'[task.e][task.i].disabled
                        /\ stack[1].kind = "update" => comp'[task.e][task.i].turns = 1
      BY <1>2, <1>7, <1>12, <2>1 DEF EventInv
    <3>1. task.e \in Ids /\ task.i \in 1..Len(comp[task.e])
      BY <1>1, <1>2, Shapes DEF EventInv
    <3>2. task.i \in 1..Len(comp'[task.e]) /\ comp'[task.e][task.i] = comp[task.e][task.i]
      <4>1. comp'[task.e][task.i] = comp[task.e][task.i]
        BY <2>3, <3>1 DEF Grows
      <4>2. Len(comp'[task.e]) \in {Len(comp[task.e]), Len(comp[task.e]) + 1} /\ Len(comp[task.e]) \in Nat
        BY <2>6, <3>1
      <4>. QED  BY <3>1, <4>1, <4>2
    <3>. QED  BY <1>1, <1>2, <3>2 DEF EventInv
  <2>. QED  BY <1>8, <2>8, <2>9, <2>10, <2>11 DEF HostInv
<1>. QED
  <2>1. \/ UNCHANGED <<ident, comp, task>>
        \/ n = 1 /\ Loading /\ task' = [task EXCEPT !.got = Append(@, y)] /\ UNCHANGED <<ident, comp>>
        \/ /\ ~(n = 1 /\ Loading) /\ task' = task
           /\ ident' = [ident EXCEPT ![d] = Recorded(d, Top.path)]
           /\ comp' = [comp EXCEPT ![d] = Append(@, y)]
    BY DEF CompileEnds, Attached
  <2>. QED  BY <1>10, <1>11, <1>12, <2>1

-----------------------------------------------------------------------------
(* The theorems                                                             *)

\* Every step of the host keeps the inductive invariant.
LEMMA HostStep == HostInv /\ [Next]_vars => HostInv'
<1> SUFFICES ASSUME HostInv, [Next]_vars PROVE HostInv'
  OBVIOUS
<1>0. effects \in BOOLEAN /\ loose \subseteq Bodies
  BY Shapes DEF HostInv
<1>1. CASE Spawn
  BY <1>1, SpawnStep
<1>2. ASSUME NEW e \in Ids, Destroy(e) PROVE HostInv'
  BY <1>2, DestroyStep
<1>3. ASSUME NEW e \in Ids, TransformSet(e) PROVE HostInv'
  BY <1>0, <1>3, QuietStep DEF TransformSet, hostVars
<1>4. ASSUME NEW e \in Ids, NEW path \in Paths, Attach(e, path) PROVE HostInv'
  BY <1>4, AttachStep, OverflowStep DEF Attach, worldVars
<1>5. ASSUME NEW what, Ask(what) PROVE HostInv'
  BY <1>0, <1>5, QuietStep DEF Ask, hostVars
<1>6. CASE SelfSet
  BY <1>0, <1>6, QuietStep DEF SelfSet, hostVars
<1>7. CASE Scheduler
  BY <1>7, InitEndsStep, ReloadStep, AddPlayerStep, LoadEntityStep, LoadPathStep, LoadedStep, UpdateStep,
     DispatchEntityStep, DispatchInstanceStep, DispatchEndsStep DEF Scheduler
<1>8. CASE Returns
  BY <1>8, EventEndsStep, CompileEndsStep DEF Returns
<1>9. CASE UNCHANGED vars
  BY <1>0, <1>9, QuietStep DEF vars
<1>. QED  BY <1>1, <1>2, <1>3, <1>4, <1>5, <1>6, <1>7, <1>8, <1>9 DEF Next, Builtins

\* The initial state satisfies it.
LEMMA HostInit == Init => HostInv
<1> SUFFICES ASSUME Init PROVE HostInv
  OBVIOUS
<1>1. ShapesOK
  BY InitShapes
<1>2. task = [kind |-> "load", pending |-> {e \in alive : ident[e] # <<>>}, e |-> 0, i |-> 0,
              got |-> <<>>, base |-> last]
  BY DEF Init, Idle
<1>3. stack = <<>> /\ comp = [e \in Ids |-> <<>>]
  BY DEF Init
<1>4. StackInv /\ EventInv
  BY <1>3 DEF StackInv, EventInv, Running
<1>5. PassInv
  BY <1>1, <1>2, Shapes DEF PassInv
<1>6. SoundInv /\ TurnInv
  BY <1>2, <1>3 DEF SoundInv, TurnInv
<1>. QED  BY <1>1, <1>4, <1>5, <1>6 DEF HostInv

\* The inductive invariant of ScriptSystem's passes and of the scripts that run in them.
THEOREM HostInvariance == Spec => []HostInv
BY HostInit, HostStep, PTL DEF Spec

\* Whatever the scripts of a frame spawn, destroy and attach, start() of each runs once
\* before its first update(), and each that was there, is there and is not disabled gets its
\* update() once; one that breached a limit is not called again (ScriptSystem::dispatch).
THEOREM ScriptsGetTheirTurn == Spec => []EveryScriptGetsItsTurn
<1>1. HostInv => EveryScriptGetsItsTurn
  <2> SUFFICES ASSUME HostInv PROVE EveryScriptGetsItsTurn
    OBVIOUS
  <2>1. ShapesOK /\ SoundInv /\ TurnInv /\ EventInv
    BY DEF HostInv
  <2>2. \A x \in Instances : \E e \in alive : \E j \in 1..Len(comp[e]) : x = comp[e][j] /\ x \in Script /\ Sound(x)
    <3> SUFFICES ASSUME NEW e \in alive, NEW x \in Range(comp[e])
                 PROVE  \E j \in 1..Len(comp[e]) : x = comp[e][j] /\ x \in Script /\ Sound(x)
      BY DEF Instances
    <3>1. comp[e] \in Seq(Script) /\ e \in Ids
      BY <2>1, Shapes
    <3>2. PICK j \in 1..Len(comp[e]) : x = comp[e][j]
      BY <3>1 DEF Range
    <3>. QED  BY <2>1, <3>1, <3>2 DEF SoundInv
  <2>3. \A x \in Instances : x.starts <= 1 /\ x.turns <= 1 /\ (x.turns > 0 => x.starts = 1)
    <3> SUFFICES ASSUME NEW x \in Script, Sound(x)
                 PROVE  x.starts <= 1 /\ x.turns <= 1 /\ (x.turns > 0 => x.starts = 1)
      BY <2>2
    <3>. QED  BY DEF Script, Sound
  <2>4. ASSUME task.kind = "update", task.pending = {}, task.e = 0
        PROVE  \A x \in Instances : x.new \/ x.disabled \/ x.turns = 1
    <3> SUFFICES ASSUME NEW e \in alive, NEW j \in 1..Len(comp[e]) PROVE Done(comp[e][j])
      BY <2>2 DEF Done
    <3>1. e # 0
      BY <2>1, Shapes
    <3>. QED  BY <2>1, <2>4, <3>1 DEF TurnInv
  <2>5. ASSUME Running, stack[1].kind # "compile", task.e \in alive
        PROVE  ~comp[task.e][task.i].breached
    <3>1. task.e \in Ids /\ task.i \in 1..Len(comp[task.e]) /\ ~comp[task.e][task.i].disabled
      BY <2>1, <2>5, Shapes DEF EventInv
    <3>. QED  BY <2>1, <3>1 DEF SoundInv, Sound
  <2>. QED  BY <2>1, <2>3, <2>4, <2>5 DEF ShapesOK, EveryScriptGetsItsTurn
<1>. QED  BY <1>1, HostInvariance, PTL

\* One entity more is at most one body more.
LEMMA OneBodyMore ==
    ASSUME ShapesOK, alive' = alive \union {last'}
    PROVE  /\ Cardinality(Bodies) \in Nat /\ Cardinality(Bodies') \in Nat
           /\ Cardinality(Bodies') <= Cardinality(Bodies) + 1
<1>1. IsFiniteSet(Bodies) /\ Cardinality(Bodies) \in Nat
  <2>1. IsFiniteSet(1..last) /\ Bodies \subseteq 1..last
    BY Shapes, FS_Interval DEF Bodies
  <2>. QED  BY <2>1, FS_Subset, FS_CardinalityType
<1> DEFINE more == Bodies \union {last'}
<1>2. /\ IsFiniteSet(more) /\ Cardinality(more) \in Nat
      /\ Cardinality(more) = IF last' \in Bodies THEN Cardinality(Bodies) ELSE Cardinality(Bodies) + 1
  BY <1>1, FS_AddElement, FS_CardinalityType
<1>3. Bodies' \subseteq more
  BY DEF Bodies
<1> HIDE DEF more
<1>4. Cardinality(Bodies') \in Nat /\ Cardinality(Bodies') <= Cardinality(more)
  BY <1>2, <1>3, FS_Subset, FS_CardinalityType
<1>. QED  BY <1>1, <1>2, <1>4

\* Spawns stop at the cap on bodies, and once the page of a network game has left init(),
\* its scripts leave the world to the server (ScriptHost's spawnEnabled, maxSpawnedEntities).
THEOREM TheWorldIsKept == Spec => WorldIsKept
<1> DEFINE Kept == Running =>
               /\ BodyCap > 0 /\ Bodies \subseteq Bodies' /\ Bodies # Bodies'
                      => Cardinality(Bodies') <= BodyCap
               /\ phase = "client" => UNCHANGED <<last, alive, ident, effects>>
<1>1. HostInv /\ [Next]_vars => Kept
  <2> SUFFICES ASSUME HostInv, [Next]_vars, Running PROVE Kept
    OBVIOUS
  <2>1. ShapesOK /\ StackInv
    BY DEF HostInv
  <2>2. task # Idle
    BY <2>1 DEF StackInv, Idle
  <2>3. CASE Spawn
    <3>1. alive' = alive \union {last'} /\ phase # "client" /\ ~AtCap
      BY <2>3 DEF Spawn, enabled
    <3>2. BodyCap > 0 => Cardinality(Bodies) < BodyCap
      BY <2>1, <3>1, OneBodyMore, HostAssumption DEF AtCap
    <3>. QED  BY <2>1, <3>1, <3>2, OneBodyMore, HostAssumption
  <2>4. ASSUME NEW e \in Ids, Destroy(e) PROVE Kept
    BY <2>4 DEF Destroy, Bodies, enabled
  <2>5. ASSUME UNCHANGED <<last, alive, ident, effects>> PROVE Kept
    BY <2>5 DEF Bodies
  <2>6. ASSUME NEW e \in Ids, TransformSet(e) PROVE Kept
    BY <2>5, <2>6 DEF TransformSet
  <2>7. ASSUME NEW e \in Ids, NEW path \in Paths, Attach(e, path) PROVE Kept
    BY <2>5, <2>7 DEF Attach, worldVars
  <2>8. ASSUME NEW what, Ask(what) PROVE Kept
    BY <2>8 DEF Ask, MayAsk, Bodies, enabled
  <2>9. CASE SelfSet
    BY <2>5, <2>9 DEF SelfSet
  <2>10. CASE Scheduler
    BY <2>2, <2>5, <2>10 DEF Scheduler, InitEnds, Reload, AddPlayer, LoadEntity, LoadPath, Loaded, UpdateScripts,
       DispatchEntity, DispatchInstance, DispatchEnds, worldVars
  <2>11. ASSUME NEW r, EventEnds(r) PROVE Kept
    BY <2>5, <2>11 DEF EventEnds, worldVars
  <2>12. ASSUME NEW r, CompileEnds(r) PROVE Kept
    <3>1. UNCHANGED <<last, alive, effects>>
      BY <2>12 DEF CompileEnds
    <3>2. phase = "client" => UNCHANGED ident
      <4> SUFFICES ASSUME phase = "client" PROVE ident' = ident
        OBVIOUS
      <4>1. Len(stack) = 1 /\ Top = stack[1]
        BY <2>1, TopOfStack DEF StackInv, Top
      <4>2. Loading
        BY <2>1, <2>12, <4>1 DEF StackInv, CompileEnds
      <4>. QED  BY <2>12, <4>1, <4>2 DEF CompileEnds
    <3>. QED  BY <3>1, <3>2 DEF Bodies
  <2>13. CASE UNCHANGED vars
    BY <2>5, <2>13 DEF vars
  <2> HIDE DEF Kept
  <2>. QED
    BY <2>3, <2>4, <2>6, <2>7, <2>8, <2>9, <2>10, <2>11, <2>12, <2>13 DEF Next, Builtins, Returns
<1>2. HostInv /\ [Next]_vars => [Kept]_vars
  BY <1>1
<1>. QED  BY <1>2, HostInvariance, PTL DEF Spec, WorldIsKept

\* Where the server's script gets through a chain of properties, the client's gets through
\* it with the sink, and a destroyed object has no numbers (getProperty, setProperty).
THEOREM TheSinkStandsIn == Spec => []SinkStandsIn
<1>1. SinkStandsIn
  <2>1. ASSUME NEW e \in Ids \ alive, NEW kind \in Kinds \ {"sink"}, NEW p \in Props
        PROVE  GetProperty(kind, e, p) # "number" /\ SetProperty(kind, e, p) = "error"
    BY DEF GetProperty, SetProperty, ObjectGives, Bodies, Kinds, Props
  <2>2. ASSUME NEW p \in {"transform", "rigidbody"}, NEW q \in {"x", "vx", "px"}
        PROVE  GetProperty(GetProperty("sink", 0, p), 0, q) # "error"
    BY DEF GetProperty, SinkGives
  <2>. QED  BY <2>1, <2>2 DEF SinkStandsIn, Chains
<1>. QED  BY <1>1, PTL
=============================================================================
