----------------------------- MODULE ScriptHost -----------------------------
(***************************************************************************)
(* Scripts at work in a world: ecs/systems/ScriptSystem.cpp (loading,      *)
(* dispatch of start and update) and script/ScriptHost.cpp (the builtins   *)
(* that a running script may call).                                        *)
(*                                                                         *)
(* A running script is a frame of `stack`; it calls any builtins, in any   *)
(* order, until it returns, fails ("error") or breaches a limit ("limit"). *)
(* attach_script compiles inside the call, and the top level of what it    *)
(* compiles runs at once: one frame more, and one budget more, as often as *)
(* scripts attach at their top level.  What a handle refers to is an       *)
(* entity number that is never used again, as EnTT's versions guarantee.   *)
(* Operators whose name ends in Fault are seeded bugs, as in GameServer.   *)
(***************************************************************************)
EXTENDS Integers, Sequences, FiniteSets, SequencesExt

CONSTANTS
    Scene,        \* the paths that the Identity of each entity of the scene lists
    Empties,      \* entities of the scene without a body
    Statics,      \* entities of the scene whose body has no mass
    PlayerPaths,  \* the scripts of a player's entity
    Paths,        \* files a script can attach
    Unreadable,   \* those that cannot be read
    MaxEntities,  \* bound: entities ever created
    BodyCap,      \* maxSpawnedEntities
    MaxNest,      \* scripts inside one another that the native stack has room for
    MaxFrames     \* bound: dispatches of update

ASSUME HostAssumption ==
    /\ Len(Scene) \in 1..MaxEntities
    /\ Empties \subseteq DOMAIN Scene /\ Statics \subseteq DOMAIN Scene /\ Unreadable \subseteq Paths
    /\ MaxEntities \in Nat /\ BodyCap \in Nat /\ MaxNest \in Nat \ {0} /\ MaxFrames \in Nat

\* The files that anything names.
Files == Paths \union Range(PlayerPaths) \union UNION {Range(Scene[e]) : e \in DOMAIN Scene}

ASSUME ScriptsAssumption == Scene \in Seq(Seq(Files)) /\ PlayerPaths \in Seq(Files)

VARIABLES
    last,      \* entities created so far: 1..last
    alive,     \* entities that exist
    ident,     \* Identity::scriptPaths
    comp,      \* ScriptComponent::scripts; empty without the component
    task,      \* what ScriptSystem is doing
    stack,     \* the scripts that run, the innermost last
    self,      \* selfEntity, 0 for NullEntity
    phase,     \* "boot" in init(), then "client" in a network game's page, else "master"
    effects,   \* a script blasted or asked for a reset of the scene in this frame
    loose,     \* static bodies that collide where they were before a script moved them
    frames     \* dispatches of update so far

worldVars == <<last, alive, ident, effects, loose>>
hostVars == <<comp, task, stack, self, frames>>
vars == <<last, alive, ident, comp, task, stack, self, phase, effects, loose, frames>>

Ids == 1..MaxEntities
Idle == [kind |-> "idle", pending |-> {}, e |-> 0, i |-> 0, got |-> <<>>, base |-> 0]
Bodies == alive \ Empties

\* spawnEnabled: the page of a network game turns it off at the end of init().
enabled == phase # "client"

\* started and disabled are the code's; starts, turns (calls of update in this frame),
\* new (attached in this frame) and breached are history.
Instance(path) ==
    [path |-> path, started |-> FALSE, disabled |-> FALSE,
     starts |-> 0, turns |-> 0, new |-> TRUE, breached |-> FALSE]

Running == stack # <<>>
Top == stack[Len(stack)]
Pop == SubSeq(stack, 1, Len(stack) - 1)
Event(ev, e, i) == [kind |-> ev, e |-> e, i |-> i, path |-> ""]
Compiling(e, path) == [kind |-> "compile", e |-> e, i |-> 0, path |-> path]

Init ==
    /\ last = Len(Scene) /\ alive = DOMAIN Scene
    /\ ident = [e \in Ids |-> IF e \in DOMAIN Scene THEN Scene[e] ELSE <<>>]
    /\ comp = [e \in Ids |-> <<>>]
    /\ task = [Idle EXCEPT !.kind = "load", !.base = last, !.pending = {e \in alive : ident[e] # <<>>}]
    /\ stack = <<>> /\ self = 0
    /\ phase = "boot"
    /\ effects = FALSE /\ loose = {} /\ frames = 0

-----------------------------------------------------------------------------
(* ScriptSystem                                                             *)

\* loadScripts(): entities with paths and without a component, the others are compiled.
Unloaded(es) == {e \in es : ident[e] # <<>> /\ comp[e] = <<>>}

\* init() is over: scripts are loaded and started.
InitEnds ==
    /\ phase = "boot" /\ task = Idle
    /\ phase' \in {"master", "client"}
    /\ UNCHANGED <<hostVars, worldVars>>

\* reloadScripts(), performReset(): drop every component, load again.
Reload ==
    /\ task = Idle /\ phase # "boot" /\ frames < MaxFrames
    /\ comp' = [e \in Ids |-> <<>>]
    /\ task' = [Idle EXCEPT !.kind = "load", !.base = last,
                            !.pending = {e \in alive : ident[e] # <<>>}]
    /\ UNCHANGED <<stack, self, frames, worldVars, phase>>

\* A player joins: an entity with the player's scripts, and loadScripts() for it.
AddPlayer ==
    /\ task = Idle /\ phase = "master" /\ frames < MaxFrames /\ last < MaxEntities
    /\ last' = last + 1 /\ alive' = alive \union {last'}
    /\ ident' = [ident EXCEPT ![last'] = PlayerPaths]
    /\ task' = [Idle EXCEPT !.kind = "join", !.base = last',
                            !.pending = Unloaded(alive) \union {last'}]
    /\ UNCHANGED <<comp, stack, self, frames, effects, loose, phase>>

Loading == task.kind \in {"load", "join"}

LoadEntity ==
    /\ Loading /\ task.e = 0 /\ ~Running
    /\ \E e \in task.pending :
           task' = [task EXCEPT !.pending = @ \ {e}, !.e = e, !.i = 1, !.got = <<>>]
    /\ UNCHANGED <<comp, stack, self, frames, worldVars, phase>>

\* The next path of the entity: compile() runs its top level.
LoadPath ==
    /\ Loading /\ task.e # 0 /\ ~Running
    /\ IF task.i <= Len(ident[task.e])
       THEN LET path == ident[task.e][task.i] IN
            /\ task' = [task EXCEPT !.i = @ + 1]
            /\ stack' = IF path \in Unreadable THEN stack ELSE <<Compiling(task.e, path)>>
            /\ UNCHANGED comp
       ELSE /\ comp' = IF task.got = <<>> THEN comp ELSE [comp EXCEPT ![task.e] = task.got]
            /\ task' = [task EXCEPT !.e = 0]
            /\ UNCHANGED stack
    /\ UNCHANGED <<self, frames, worldVars, phase>>

\* dispatch(): the entities that have scripts now; each is looked up again in its turn.
Begin(kind) ==
    [Idle EXCEPT !.kind = kind, !.pending = {e \in alive : comp[e] # <<>>}]

\* startScripts() follows every load but that of a joining player.
Loaded ==
    /\ Loading /\ task.e = 0 /\ task.pending = {} /\ ~Running
    /\ task' = IF task.kind = "load" THEN Begin("start") ELSE Idle
    /\ UNCHANGED <<comp, stack, self, frames, worldVars, phase>>

UpdateScripts ==
    /\ task = Idle /\ phase # "boot" /\ frames < MaxFrames
    /\ frames' = frames + 1
    /\ comp' = [e \in Ids |-> [i \in DOMAIN comp[e] |->
                   [comp[e][i] EXCEPT !.turns = 0, !.new = FALSE]]]
    /\ task' = Begin("update")
    /\ UNCHANGED <<stack, self, worldVars, phase>>

\* An entity that was destroyed or has lost its scripts is passed over.
PassedOverFault(e) == {}
PassedOverTwiceFault(e) == task.pending
PassedOver(e) == task.pending \ {e}

DispatchEntity ==
    /\ task.kind \in {"start", "update"} /\ task.e = 0 /\ ~Running
    /\ \E e \in task.pending :
           IF e \in alive /\ comp[e] # <<>>
           THEN /\ task' = [task EXCEPT !.pending = @ \ {e}, !.e = e, !.i = 1]
                /\ self' = e
           ELSE /\ task' = [task EXCEPT !.pending = PassedOver(e)]
                /\ UNCHANGED self
    /\ UNCHANGED <<comp, stack, frames, worldVars, phase>>

\* The instances of the entity from i on that get a call.
Callable(e, i) ==
    {j \in i..Len(comp[e]) :
        ~comp[e][j].disabled /\ (task.kind = "start" => ~comp[e][j].started)}

\* Call an event of instance j: a start() comes before its first update().
Called(e, j, ev) ==
    /\ stack' = <<Event(ev, e, j)>>
    /\ comp' = [comp EXCEPT ![e][j].started = TRUE,
                   ![e][j].starts = @ + (IF ev = "start" THEN 1 ELSE 0),
                   ![e][j].turns = @ + (IF ev = "update" THEN 1 ELSE 0)]

DispatchInstance ==
    /\ task.kind \in {"start", "update"} /\ task.e # 0 /\ ~Running
    /\ IF task.e \in alive /\ Callable(task.e, task.i) # {}
       THEN \E j \in Callable(task.e, task.i) :
                /\ \A m \in Callable(task.e, task.i) : j <= m
                /\ task' = [task EXCEPT !.i = j]
                /\ Called(task.e, j, IF comp[task.e][j].started THEN "update" ELSE "start")
       ELSE task' = [task EXCEPT !.e = 0] /\ UNCHANGED <<comp, stack>>
    /\ UNCHANGED <<self, frames, worldVars, phase>>

\* markDisabled: the component is looked up again, by index.
MarkDisabled(ev) == TRUE

\* An event ends; start() is followed by update() when that is what is dispatched.
EventEnds(r) ==
    LET e == task.e
        i == task.i
        ev == Top.kind
    IN  /\ Running /\ ev \in {"start", "update"}
        /\ IF r # "limit" /\ ev = "start" /\ task.kind = "update" /\ e \in alive
           THEN Called(e, i, "update") /\ UNCHANGED task
           ELSE /\ stack' = Pop
                /\ task' = IF r # "limit" /\ ev = "start" /\ task.kind = "update"
                           THEN [task EXCEPT !.e = 0] ELSE [task EXCEPT !.i = @ + 1]
                /\ comp' = IF r = "limit" /\ e \in alive
                           THEN [comp EXCEPT ![e][i].disabled = MarkDisabled(ev),
                                             ![e][i].breached = TRUE]
                           ELSE comp
        /\ UNCHANGED <<self, frames, worldVars, phase>>

\* The frame is over: the game loop has seen to what the scripts asked for.
DispatchEnds ==
    /\ task.kind \in {"start", "update"} /\ task.pending = {} /\ task.e = 0 /\ ~Running
    /\ task' = Idle /\ self' = 0 /\ effects' = FALSE
    /\ UNCHANGED <<comp, stack, frames, last, alive, ident, loose, phase>>

-----------------------------------------------------------------------------
(* Builtins                                                                 *)

\* Handles a script may hold: of any entity in an event; while scripts are loaded, of
\* those that the top level has spawned itself.
Held(e) == e \in 1..last /\ (Loading => e > task.base)

\* spawn_cube, spawn_plane, spawn_cow
AtCapFault == Cardinality(Bodies) > BodyCap
AtCap == BodyCap > 0 /\ Cardinality(Bodies) >= BodyCap

Spawn ==
    /\ Running /\ enabled /\ ~AtCap
    /\ last < MaxEntities
    /\ last' = last + 1 /\ alive' = alive \union {last'}
    /\ UNCHANGED <<hostVars, ident, phase, effects, loose>>

\* Scene::destroyEntity() takes the body out of the physics world.
Withdrawn(e) == loose \ {e}

\* destroy(handle), destroy_self(): any script, but not at a top level, where the
\* callers of compile() would be left with references to what is gone.
Destroy(e) ==
    /\ Running /\ enabled /\ Top.kind # "compile"
    /\ e \in alive /\ Held(e)
    /\ alive' = alive \ {e} /\ loose' = Withdrawn(e)
    /\ ident' = [ident EXCEPT ![e] = <<>>] /\ comp' = [comp EXCEPT ![e] = <<>>]
    /\ UNCHANGED <<last, task, stack, self, phase, effects, frames>>

\* self_explode, reset_scene: the authority for the world is the server.
MayAsk == enabled

Ask(what) ==
    /\ Running /\ MayAsk
    /\ what = "blast" => self \in Bodies
    /\ effects' = TRUE
    /\ UNCHANGED <<hostVars, last, alive, ident, loose, phase>>

\* The native stack is exhausted: the process is gone.
Overflown == [Idle EXCEPT !.kind = "overflow"]

\* attach_script(handle, path): nothing to do if the entity has it already, which it has
\* only once the script is compiled: its top level may attach it again, without end.
Attach(e, path) ==
    /\ Running /\ enabled /\ e \in alive /\ Held(e)
    /\ path \notin Range(ident[e]) \union Unreadable
    /\ IF Len(stack) < MaxNest
       THEN stack' = Append(stack, Compiling(e, path)) /\ UNCHANGED task
       ELSE stack' = <<>> /\ task' = Overflown
    /\ UNCHANGED <<comp, self, frames, worldVars, phase>>

\* The compiled script is recorded on Identity too, and it has not started.
Recorded(e, path) == Append(ident[e], path)
Attached(path) == Instance(path)

CompileEnds(r) ==
    /\ Running /\ Top.kind = "compile"
    /\ stack' = Pop
    /\ IF r # "ok" THEN UNCHANGED <<ident, comp, task>>
       ELSE IF Len(stack) = 1 /\ Loading
       THEN /\ task' = [task EXCEPT !.got = Append(@, Instance(Top.path))]
            /\ UNCHANGED <<ident, comp>>
       ELSE /\ ident' = [ident EXCEPT ![Top.e] = Recorded(Top.e, Top.path)]
            /\ comp' = [comp EXCEPT ![Top.e] = Append(@, Attached(Top.path))]
            /\ UNCHANGED task
    /\ UNCHANGED <<last, alive, self, frames, phase, effects, loose>>

\* self_set_pos, _rot and _scale: refreshBroadphase() follows.
SelfSet ==
    /\ Running /\ self \in Bodies \intersect Statics
    /\ loose' = loose \ {self}
    /\ UNCHANGED <<hostVars, last, alive, ident, effects, phase>>

\* setProperty() of an object or a transform: applyTransform() and nothing else.
TransformSet(e) ==
    /\ Running /\ e \in Bodies \intersect Statics /\ Held(e)
    /\ loose' = loose \union {e}
    /\ UNCHANGED <<hostVars, last, alive, ident, effects, phase>>

\* getProperty(): what a handle of a kind gives for a property.  "x" stands for the
\* nine numbers of a transform, "vx" for a velocity, "px" for what a body only shows.
Kinds == {"object", "transform", "rigidbody", "sink"}
Props == {"x", "vx", "px", "name", "transform", "rigidbody", "other"}

SinkGivesFault(p) == IF p \in {"rigidbody", "transform"} THEN "null" ELSE "number"
SinkGives(p) == IF p \in {"rigidbody", "transform"} THEN "sink" ELSE "number"

ObjectGives(e, p) ==
    CASE p = "transform" -> "transform"
      [] p = "rigidbody" -> IF e \in Bodies THEN "rigidbody" ELSE "error"
      [] p = "name" -> "text"
      [] OTHER -> IF e \in alive /\ p = "x" THEN "number" ELSE "error"

GetProperty(kind, e, p) ==
    CASE kind = "sink" -> SinkGives(p)
      [] kind = "transform" -> IF e \in alive /\ p = "x" THEN "number" ELSE "error"
      [] kind = "rigidbody" -> IF e \in Bodies /\ p \in {"vx", "px"} THEN "number" ELSE "error"
      [] kind = "object" -> ObjectGives(e, p)
      [] OTHER -> "error"   \* a read on a value that is no handle

\* setProperty()
SetProperty(kind, e, p) ==
    CASE kind = "sink" -> "ok"
      [] kind = "rigidbody" -> IF e \in Bodies /\ p = "vx" THEN "ok" ELSE "error"
      [] OTHER -> IF e \in alive /\ p = "x" THEN "ok" ELSE "error"

Builtins ==
    \/ Spawn
    \/ \E e \in Ids :
           \/ Destroy(e) \/ TransformSet(e)
           \/ \E path \in Paths : Attach(e, path)
    \/ \E what \in {"reset", "blast"} : Ask(what)
    \/ SelfSet

Scheduler ==
    \/ InitEnds \/ Reload \/ AddPlayer \/ LoadEntity \/ LoadPath \/ Loaded
    \/ UpdateScripts \/ DispatchEntity \/ DispatchInstance \/ DispatchEnds

Returns == \E r \in {"ok", "error", "limit"} : EventEnds(r) \/ CompileEnds(r)

Next == Builtins \/ Scheduler \/ Returns

Spec == Init /\ [][Next]_vars

\* The game loop goes on; a script that runs, at whatever depth, is ended by its step budget
\* at the latest, since every call it makes is a step.
Fairness ==
    /\ WF_vars(LoadEntity \/ LoadPath \/ Loaded)
    /\ WF_vars(DispatchEntity \/ DispatchInstance \/ DispatchEnds)
    /\ \A depth \in 1..MaxNest : SF_vars(Len(stack) = depth /\ Returns)

FairSpec == Spec /\ Fairness

-----------------------------------------------------------------------------
(* Properties                                                               *)

\* Types of the variables.
HostTypeOK ==
    /\ last \in 0..MaxEntities /\ alive \subseteq 1..last
    /\ \A e \in Ids \ alive : comp[e] = <<>> /\ ident[e] = <<>>
    /\ task.kind \in {"idle", "load", "join", "start", "update", "overflow"}
    /\ phase \in {"boot", "master", "client"}
    /\ task.pending \subseteq Ids /\ task.e \in Ids \union {0}
    /\ Len(stack) <= MaxNest /\ self \in Ids \union {0}
    /\ effects \in BOOLEAN /\ loose \subseteq Bodies

Instances == UNION {Range(comp[e]) : e \in alive}

\* Whatever the scripts of a frame spawn, destroy and attach: start() of a script ran once
\* before its first update(), each script that was there at the beginning of the frame, is
\* still there and is not disabled gets its update(), once, and one that breached a limit
\* gets no further call (ScriptSystem.cpp 60-112, ScriptInstance::started).
EveryScriptGetsItsTurn ==
    /\ HostTypeOK
    /\ \A x \in Instances :
           x.starts <= 1 /\ x.turns <= 1 /\ (x.turns > 0 => x.starts = 1)
    /\ task.kind = "update" /\ task.pending = {} /\ task.e = 0 =>
           \A x \in Instances : x.new \/ x.disabled \/ x.turns = 1
    /\ Running /\ stack[1].kind # "compile" /\ task.e \in alive =>
           ~comp[task.e][task.i].breached

\* Spawns stop at the body cap, also those of several scripts in one frame.  And once the
\* page of a network game has left init(), its scripts leave the world to the server:
\* nothing is spawned, destroyed, attached, blasted or reset while they run.  In init() they
\* may do all of this: spawn_* is turned off after they were loaded and started.
WorldIsKept ==
    [][Running =>
           /\ BodyCap > 0 /\ Bodies \subseteq Bodies' /\ Bodies # Bodies'
                  => Cardinality(Bodies') <= BodyCap
           /\ phase = "client" => UNCHANGED <<last, alive, ident, effects>>]_vars

\* Where the server's script gets through a chain of properties of what it spawned, the
\* client's gets through it with the sink; and a destroyed object has no numbers.
Chains == {<<p, q>> : p \in {"transform", "rigidbody"}, q \in {"x", "vx", "px"}}
SinkStandsIn ==
    /\ \A e \in Bodies, c \in Chains :
           LET h == GetProperty("object", e, c[1]) IN
           GetProperty(h, e, c[2]) # "error" =>
               GetProperty(GetProperty("sink", 0, c[1]), 0, c[2]) # "error"
    /\ \A e \in Ids \ alive, kind \in Kinds \ {"sink"}, p \in Props :
           GetProperty(kind, e, p) # "number" /\ SetProperty(kind, e, p) = "error"

\* Every pass over the scripts ends, whatever they spawn and attach on the way, unless
\* scripts whose top levels attach scripts exhaust the native stack.
PassEnds == task # Idle ~> task \in {Idle, Overflown}

\* What a comment promises: attach_script "must not be a way to get an unbounded one
\* running" (ScriptHost.cpp 578-580), each compilation having its budget.
NestingEnds == task # Overflown
=============================================================================
