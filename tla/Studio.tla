------------------------------- MODULE Studio -------------------------------
(***************************************************************************)
(* The desktop editor: a scene and its file (core/Scene.cpp), the frame    *)
(* that reloads, tests and restores it (app/Application.cpp), and the      *)
(* panels through which a user edits it (editor/, ecs/ComponentOps.cpp,    *)
(* ecs/Factories.cpp).                                                     *)
(*                                                                         *)
(* A frame is two steps, Frame (everything before the panels) and one      *)
(* event of the user in the panels, or none.  `sc` is a Scene, `ui` the    *)
(* editor's Context; operators that take a scene return what the method    *)
(* leaves.  An object keeps what decides whether it is saved, collides,    *)
(* runs a script, and whether a simulation has moved it; a plane is a cube *)
(* of another size.  Entity numbers stand for EnTT's versioned handles:    *)
(* none is taken again while something still refers to it.                 *)
(* Operators whose name ends in Fault are seeded bugs.                     *)
(***************************************************************************)
EXTENDS Integers, Sequences, FiniteSets, Functions

CONSTANTS
    Ids,         \* entity handles
    MaxObjects,  \* bound: objects in the scene that events and scripts may add to
    MaxEvents,   \* bound: events of the user, and edits of files behind the editor's back
    Main,        \* "scenes/scene.json"
    Temp,        \* "scene.json", which loadFromString writes and removes
    SaveTargets, \* paths that save_as and other programs write
    Written      \* objects that another program puts in a file

Paths == {Main, Temp} \cup SaveTargets
Kinds == {"none", "cube", "static", "lost", "player"}
EntryType == [kind : Kinds, scr : BOOLEAN, sim : BOOLEAN]

ASSUME StudioAssumption ==
    /\ Ids \subseteq Nat \ {0} /\ IsFiniteSet(Ids)
    /\ MaxObjects \in Nat \ {0} /\ MaxEvents \in Nat
    \* The player and what the editor holds may have a handle each, beside the objects.
    /\ Cardinality(Ids) >= MaxObjects + 2
    /\ Main # Temp /\ Temp \notin SaveTargets /\ "" \notin Paths
    /\ Written \subseteq EntryType /\ \A n \in Written : ~n.sim

VARIABLES
    sc,      \* the Scene
    files,   \* the scene files on disk
    ui,      \* the editor's Context
    was,     \* lastTestingMode
    step,    \* "boot", "frame", or "panels"
    events,  \* events so far
    stuck    \* history: a test has ended without its scene being put back

vars == <<sc, files, ui, was, step, events, stuck>>

\* What a file keeps of an object.  "lost": a static object whose mesh does not load.
Entry(o) == [kind |-> o.kind, scr |-> o.scr, sim |-> o.sim]
Object(n) == [kind |-> n.kind, ren |-> TRUE, body |-> TRUE, scr |-> n.scr, sim |-> n.sim]
EmptyObject == [kind |-> "none", ren |-> FALSE, body |-> FALSE, scr |-> FALSE, sim |-> FALSE]
Cube(sim) == Object([kind |-> "cube", scr |-> FALSE, sim |-> sim])
Static == Object([kind |-> "static", scr |-> FALSE, sim |-> FALSE])
Player == [EmptyObject EXCEPT !.kind = "player", !.body = TRUE]

File(objects) == [state |-> "good", objects |-> objects]
Absent == [state |-> "absent", objects |-> <<>>]
Broken == [state |-> "broken", objects |-> <<>>]

NoScene == [
    world |-> <<>>,        \* the registry
    inWorld |-> [e \in Ids |-> 0],  \* how often the body made for e is in the physics world
    phys |-> FALSE,        \* physicsWorld_ is set
    player |-> 0, selected |-> 0,
    tagged |-> {},         \* entities with the tag Selected
    compiled |-> {},       \* entities with a ScriptComponent
    path |-> "",           \* scenePath_
    stale |-> FALSE,       \* the file's time is not lastWriteTime_
    cool |-> FALSE,        \* the last reload was less than reloadDebounce_ ago
    initial |-> Absent,    \* initialJson_
    asked |-> FALSE]       \* resetRequested_
NoContext == [testing |-> FALSE, selection |-> 0, saved |-> "", clip |-> {}]

Live(s) == DOMAIN s.world
Objects(s) == Live(s) \ {s.player}
HasBody(s, e) == e \in Live(s) /\ s.world[e].body

Init ==
    /\ sc = NoScene /\ ui = NoContext /\ was = FALSE /\ step = "boot" /\ events = 0 /\ stuck = FALSE
    /\ files \in [Paths -> {Absent, Broken, File(<<Entry(Static)>>)}]
    /\ \A p \in Paths \ {Main} : files[p] = Absent

-----------------------------------------------------------------------------
(* The registry and the physics world. *)

Count(s, e, by) == [s.inWorld EXCEPT ![e] = @ + by]

\* A factory: the body joins the physics world if the scene knows one.
Create(s, e, o) ==
    [s EXCEPT !.world = [x \in Live(s) \cup {e} |-> IF x = e THEN o ELSE s.world[x]],
              !.inWorld = IF o.body /\ s.phys THEN Count(s, e, 1) ELSE @]

Forget(s, e) ==
    [s EXCEPT !.world = [x \in Live(s) \ {e} |-> s.world[x]],
              !.tagged = @ \ {e}, !.compiled = @ \ {e}]

Destroy(s, e) ==
    IF e \notin Live(s) THEN s ELSE
    [Forget(s, e) EXCEPT !.inWorld = IF s.phys /\ HasBody(s, e) THEN Count(s, e, -1) ELSE @,
                         !.selected = IF @ = e THEN 0 ELSE @,
                         !.player = IF @ = e THEN 0 ELSE @]

\* removePlayer leaves selectedEntity_ alone.
RemovePlayer(s) ==
    IF s.player \notin Live(s) THEN s ELSE
    [Forget(s, s.player) EXCEPT !.inWorld = IF s.phys /\ HasBody(s, s.player) THEN Count(s, s.player, -1) ELSE @,
                                !.player = 0]

SetSelected(s, e) ==
    [s EXCEPT !.tagged = (@ \ {s.selected}) \cup ({e} \cap Live(s)), !.selected = e]

RemovePhysics(s, e) ==
    IF ~HasBody(s, e) THEN s
    ELSE [s EXCEPT !.world[e].body = FALSE, !.inWorld = IF s.phys THEN Count(s, e, -1) ELSE @]

\* emplacePhysics tears down the body that is there and makes the new one.
AddCollider(s, e) ==
    LET t == RemovePhysics(s, e)
    IN  [t EXCEPT !.world[e].body = TRUE, !.inWorld = IF t.phys THEN Count(t, e, 1) ELSE @]

-----------------------------------------------------------------------------
(* Files. *)

\* Handles in use: `held` is the editor's own.
Unused(s, held) == Ids \ (Live(s) \cup {held})
NewId(s, held) == CHOOSE e \in Unused(s, held) : TRUE
HasRoom(s, held) == Cardinality(Objects(s)) < MaxObjects /\ Unused(s, held) # {}

Savable(s) == {e \in Objects(s) : s.world[e].kind # "none"}
Saved(s) ==
    LET order == CHOOSE q \in Bijection(1..Cardinality(Savable(s)), Savable(s)) : TRUE
    IN  File([i \in DOMAIN order |-> Entry(s.world[order[i]])])

\* Everything but the player goes: first the bodies, then the entities.
TeardownFault(s) ==
    [s EXCEPT !.world = [e \in Live(s) \cap {s.player} |-> s.world[e]],
              !.tagged = @ \cap {s.player}, !.compiled = @ \cap {s.player}, !.selected = 0]
Teardown(s) ==
    [s EXCEPT !.world = [e \in Live(s) \cap {s.player} |-> s.world[e]],
              !.tagged = @ \cap {s.player}, !.compiled = @ \cap {s.player}, !.selected = 0,
              !.inWorld = [e \in Ids |-> IF s.phys /\ HasBody(s, e) /\ e # s.player THEN @[e] - 1 ELSE @[e]]]

\* Every object that can be made is created, under a handle of its own.
Built(s, entries, held) ==
    LET made == {i \in DOMAIN entries : entries[i].kind # "lost"}
        id == CHOOSE f \in Injection(made, Unused(s, held)) : TRUE
        of(e) == Object(entries[CHOOSE i \in made : id[i] = e])
    IN  [s EXCEPT !.world = [e \in Live(s) \cup Range(id) |-> IF e \in Live(s) THEN s.world[e] ELSE of(e)],
                  !.inWorld = [e \in Ids |-> IF s.phys /\ e \in Range(id) /\ of(e).body THEN @[e] + 1 ELSE @[e]]]

\* loadFromJSON: a file that cannot be read or parsed changes nothing.
Load(s, p, f, held) ==
    IF f.state # "good" THEN s
    ELSE [Built(Teardown(s), f.objects, held) EXCEPT !.initial = f, !.path = p, !.stale = FALSE]

Watched(s) == s.path # "" /\ files[s.path].state # "absent"

CheckReloadFault(s, held) ==
    IF Watched(s) /\ s.stale THEN [Load(s, s.path, files[s.path], held) EXCEPT !.cool = TRUE, !.stale = TRUE] ELSE s
CheckReload(s, held) ==
    IF Watched(s) /\ s.stale /\ ~s.cool
    THEN [Load(s, s.path, files[s.path], held) EXCEPT !.cool = TRUE] ELSE s

ForceReload(s, held) ==
    IF Watched(s) THEN [Load(s, s.path, files[s.path], held) EXCEPT !.cool = TRUE] ELSE s

\* The captured copy goes through a file of its own, which must not stay the one watched.
ResetToInitial(s, held) ==
    IF s.initial = Absent THEN ForceReload(s, held)
    ELSE [Load(s, Temp, s.initial, held) EXCEPT !.path = s.path, !.stale = s.stale]

\* saveToJSON does not touch lastWriteTime_: its own file looks changed.
Save(p) ==
    /\ files' = [files EXCEPT ![p] = Saved(sc')]
    /\ ui' = [ui EXCEPT !.saved = p]

Touched(s, p) == [s EXCEPT !.stale = @ \/ s.path = p]

-----------------------------------------------------------------------------
(* The frame. *)

\* Application::init.  The factories know no physics world yet.
Boot ==
    /\ step = "boot"
    /\ LET loaded == IF files[Main].state = "good" THEN Load(sc, Main, files[Main], 0)
                     ELSE Create(sc, NewId(sc, 0), Cube(FALSE))
           added == [loaded EXCEPT !.phys = TRUE,
                                   !.inWorld = [e \in Ids |-> IF HasBody(loaded, e) THEN @[e] + 1 ELSE @[e]]]
           p == NewId(added, 0)
       IN  sc' = [Create(added, p, [Player EXCEPT !.scr = TRUE]) EXCEPT !.player = p]
    /\ step' = "panels"
    /\ UNCHANGED <<files, ui, was, events, stuck>>

ReloadScripts(s) == [s EXCEPT !.compiled = {e \in Live(s) : s.world[e].scr}]

\* The user started or stopped the test in the frame before.
EnterTest(s) == ReloadScripts(SetSelected(s, 0))
LeaveTestFault(s, held) == [SetSelected(s, 0) EXCEPT !.compiled = {}]
LeaveTest(s, held) == [ForceReload(SetSelected(s, 0), held) EXCEPT !.compiled = {}]

\* What scripts, and the fixed steps of one frame, may do to a scene under test.
Scripted(s, held) ==
    {s}
    \cup (IF s.compiled # {} THEN {Destroy(s, e) : e \in Live(s)} \cup {[s EXCEPT !.asked = TRUE]} ELSE {})
    \cup (IF s.compiled # {} /\ HasRoom(s, held) THEN {Create(s, NewId(s, held), Cube(TRUE))} ELSE {})
Simulated(s, held) ==
    Scripted(s, held)
    \cup {[s EXCEPT !.world[e].sim = TRUE] : e \in {x \in Objects(s) : HasBody(s, x) \/ s.compiled # {}}}

\* The scripts of the world that was put back start at once; one may ask for a reset again.
ApplyPendingReset(s, held) ==
    IF s.asked THEN Scripted(ReloadScripts(ResetToInitial([s EXCEPT !.asked = FALSE], held)), held) ELSE {s}

EdgeClearedFault(s) == s
\* clearSelection at the edge: the editor's selection goes with the scene's.
EdgeCleared(s) == 0

Frame ==
    /\ step = "frame"
    /\ LET first == CheckReload(sc, ui.selection)
           edge == ui.testing # was
           held == IF edge THEN EdgeCleared(ui.selection) ELSE ui.selection
           second == IF ~edge THEN first
                     ELSE IF ui.testing THEN EnterTest(first) ELSE LeaveTest(first, held)
       IN  \E pressed \in {FALSE} \cup (IF ui.testing /\ events < MaxEvents THEN {TRUE} ELSE {}) :
              LET third == IF pressed THEN ReloadScripts(ForceReload(second, held)) ELSE second
              IN  /\ \E fourth \in IF ui.testing THEN Simulated(third, held) ELSE {third} :
                        /\ sc' \in IF ui.testing THEN ApplyPendingReset(fourth, held) ELSE {fourth}
                        /\ files' = IF ui.testing /\ fourth.asked /\ fourth.initial # Absent
                                    THEN [files EXCEPT ![Temp] = Absent] ELSE files
                  /\ ui' = [ui EXCEPT !.selection = held]
                  /\ events' = IF pressed THEN events + 1 ELSE events
                  /\ stuck' = (stuck \/ (edge /\ ~ui.testing /\ (~Watched(first) \/ files[first.path].state = "broken")))
    /\ was' = ui.testing
    /\ step' = "panels"

-----------------------------------------------------------------------------
(* The panels: one event in a frame. *)

NoEvent == step = "panels" /\ step' = "frame" /\ UNCHANGED <<sc, files, ui, was, events, stuck>>

Event == /\ step = "panels" /\ step' = "frame"
         /\ events < MaxEvents /\ events' = events + 1
         /\ UNCHANGED <<was, stuck>>
Editing == Event /\ ~ui.testing

\* Context::setSelection, on a scene: nothing happens when the entity is selected already.
Select(s, e) == IF ui.selection = e THEN s ELSE SetSelected(s, e)

\* A click on a row, or on a body in the view.  A click on the selected body, or on nothing, deselects.
PickEntity ==
    /\ Editing
    /\ \E e \in Live(sc) \cup {0} :
          /\ sc' = Select(sc, e)
          /\ ui' = [ui EXCEPT !.selection = e]
    /\ UNCHANGED files

\* RuntimePanel: the scene is saved to Main wherever it came from; the test starts all the same.
StartTesting ==
    /\ Editing
    /\ \/ /\ sc' = Touched(sc, Main)
          /\ files' = [files EXCEPT ![Main] = Saved(sc)]
          /\ ui' = [ui EXCEPT !.saved = Main, !.testing = TRUE]
       \/ ui' = [ui EXCEPT !.testing = TRUE] /\ UNCHANGED <<sc, files>>   \* the menu, or a failed save
StopTesting ==
    Event /\ ui.testing /\ ui' = [ui EXCEPT !.testing = FALSE] /\ UNCHANGED <<sc, files>>

SavePath == IF sc.path = "" THEN Main ELSE sc.path
\* The hierarchy's button, the console's save and save_as.
SaveScene ==
    /\ Editing
    /\ \E p \in {SavePath, IF ui.saved = "" THEN SavePath ELSE ui.saved} \cup SaveTargets :
          sc' = Touched(sc, p) /\ Save(p)

ReloadScene ==
    /\ Editing
    /\ sc' = ForceReload(Select(sc, 0), 0)
    /\ ui' = [ui EXCEPT !.selection = 0] /\ UNCHANGED files

\* FileBrowserPanel: after a load clearSelection runs, on the scene that was loaded.
OpenScene ==
    /\ Editing
    /\ \E p \in Paths \ {Temp} :
          /\ files[p].state = "good"
          /\ LET t == Load(sc, p, files[p], ui.selection) IN sc' = Select(t, 0)
          /\ ui' = [ui EXCEPT !.selection = 0]
    /\ UNCHANGED files

\* addObjectToScene saves to Main; the menus of models and of empty entities do not save.
SpawnObject ==
    /\ Editing /\ HasRoom(sc, ui.selection)
    /\ \E o \in {Cube(FALSE), Static} :
          \/ /\ sc' = Touched(Create(sc, NewId(sc, ui.selection), o), Main)
             /\ files' = [files EXCEPT ![Main] = Saved(sc')] /\ UNCHANGED ui
          \/ /\ o = Static /\ sc' = Create(sc, NewId(sc, ui.selection), o) /\ UNCHANGED <<files, ui>>
SpawnEmpty ==
    /\ Editing /\ HasRoom(sc, ui.selection)
    /\ LET e == NewId(sc, ui.selection) IN
          /\ sc' = Select(Create(sc, e, EmptyObject), e)
          /\ ui' = [ui EXCEPT !.selection = e]
    /\ UNCHANGED files

CopyObject ==
    /\ Editing /\ \E e \in Objects(sc) : ui' = [ui EXCEPT !.clip = {sc.world[e]}]
    /\ UNCHANGED <<sc, files>>

\* Without a shape to make, or a mesh that loads, the copy is an empty entity.
Pasted(o) ==
    IF o.ren /\ o.kind \in {"cube", "static"} THEN Object(Entry(o))
    ELSE [EmptyObject EXCEPT !.scr = o.scr, !.sim = o.sim]
PasteInto(s, o) ==
    LET e == NewId(s, ui.selection)
    IN  /\ sc' = Select(Create(s, e, Pasted(o)), e)
        /\ ui' = [ui EXCEPT !.selection = e]
PasteObject ==
    /\ Editing /\ HasRoom(sc, ui.selection) /\ \E o \in ui.clip : PasteInto(sc, o)
    /\ UNCHANGED files
DuplicateObject ==
    /\ Editing /\ HasRoom(sc, ui.selection) /\ \E e \in Objects(sc) : PasteInto(sc, sc.world[e])
    /\ UNCHANGED files

\* The hierarchy deletes any row but the player's, the inspector whatever is selected.
DeleteRow ==
    /\ Editing
    /\ \E e \in Objects(sc) :
          /\ sc' = Destroy(IF ui.selection = e THEN Select(sc, 0) ELSE sc, e)
          /\ ui' = IF ui.selection = e THEN [ui EXCEPT !.selection = 0] ELSE ui
    /\ UNCHANGED files
DeleteSelected ==
    /\ Editing /\ ui.selection \in Live(sc)
    /\ LET e == ui.selection  t == Select(sc, 0)
       IN  sc' = IF e = sc.player THEN RemovePlayer(t) ELSE Destroy(t, e)
    /\ ui' = [ui EXCEPT !.selection = 0] /\ UNCHANGED files

\* The inspector, on a selected entity that is still there.
Inspect ==
    /\ Editing /\ ui.selection \in Live(sc)
    /\ LET e == ui.selection  o == sc.world[e] IN
          \/ \E k \in {"cube", "static"} :
                ~o.ren /\ sc' = [sc EXCEPT !.world[e].ren = TRUE, !.world[e].kind = k]
          \/ o.ren /\ sc' = [sc EXCEPT !.world[e].ren = FALSE]
          \/ o.ren /\ o.kind = "static" /\ sc' = [sc EXCEPT !.world[e].kind = "lost"]
          \/ ~o.body /\ sc' = AddCollider(sc, e)
          \/ o.body /\ sc' = RemovePhysics(sc, e)
          \/ ~o.scr /\ sc' = [sc EXCEPT !.world[e].scr = TRUE, !.compiled = @ \ {e}]
          \/ o.scr /\ sc' = [sc EXCEPT !.world[e].scr = FALSE, !.compiled = @ \ {e}]
    /\ UNCHANGED <<files, ui>>

\* The code tab's Apply: what has no compiled script gets one, in the editor too.  A test
\* asks for the scene tab in every frame (Application.cpp:402): no button of this tab lasts.
ApplyScripts == Editing /\ sc' = ReloadScripts(sc) /\ UNCHANGED <<files, ui>>

-----------------------------------------------------------------------------
(* Another program writes a scene file, and half a second passes. *)

EditFile ==
    /\ step = "frame" /\ events < MaxEvents /\ events' = events + 1
    /\ \E p \in SaveTargets \cup {Main}, f \in {Broken} \cup {File(<<n>>) : n \in Written} :
          files' = [files EXCEPT ![p] = f] /\ sc' = Touched(sc, p)
    /\ UNCHANGED <<ui, was, step, stuck>>
Cools == step = "frame" /\ sc.cool /\ sc' = [sc EXCEPT !.cool = FALSE] /\ UNCHANGED <<files, ui, was, step, events, stuck>>

Panels ==
    \/ NoEvent \/ PickEntity \/ StartTesting \/ StopTesting \/ SaveScene \/ ReloadScene \/ OpenScene
    \/ SpawnObject \/ SpawnEmpty \/ CopyObject \/ PasteObject \/ DuplicateObject
    \/ DeleteRow \/ DeleteSelected \/ Inspect \/ ApplyScripts
Next == Boot \/ Frame \/ Panels \/ EditFile \/ Cools

Spec == Init /\ [][Next]_vars
\* The main loop goes on: whatever else a frame does, it ends, and so do the panels; time passes.
Passes(from, to) == step = from /\ step' = to
FairSpec ==
    /\ Spec
    /\ WF_step(Passes("boot", "panels")) /\ WF_step(Passes("frame", "panels")) /\ WF_step(Passes("panels", "frame"))
    /\ SF_vars(Cools)

-----------------------------------------------------------------------------
\* Types of the variables; the path that is watched names a file, also after a reset went
\* through a temporary one (Scene.cpp:515-530).
StudioTypeOK ==
    /\ Live(sc) \subseteq Ids /\ sc.player \in {0} \cup Live(sc) /\ sc.tagged \subseteq Live(sc)
    /\ sc.compiled \subseteq Live(sc) /\ sc.path \in {""} \cup Paths
    /\ \A p \in Paths : Range(files[p].objects) \subseteq EntryType
    /\ ui.selection \in {0} \cup Ids /\ ui.saved \in {""} \cup Paths
    /\ sc.asked \in BOOLEAN /\ ui.testing \in BOOLEAN
    /\ sc.path # "" => files[sc.path].state # "absent"

\* The physics world holds each body of a living entity once, and no body whose entity or
\* component is gone: Bullet steps what it was given, by pointer (Scene.cpp:776-789, ComponentOps.cpp).
BodiesAreOwned ==
    /\ StudioTypeOK
    /\ sc.phys => \A e \in Ids : sc.inWorld[e] = IF HasBody(sc, e) THEN 1 ELSE 0

\* What the editor holds as its selection is the object shown as selected, or has gone: through
\* reloads behind the user's back, tests, pastes and deletions (EditorContext.cpp:45-53).
SelectionIsShown == ui.selection \in Live(sc) => ui.selection \in sc.tagged

\* No scene file ever holds what a test did to the world, unless a test ended that could not be
\* undone because the scene has no file, or one that no longer parses (Application.cpp:391-414).
SimulationIsNotSaved ==
    ~stuck => \A p \in Paths : \A n \in Range(files[p].objects) : ~n.sim

\* A changed scene file is loaded in the end, unless it no longer parses (Scene.cpp:496-513).
ChangesAreLoaded == (sc.stale /\ files[sc.path].state = "good") ~> (~sc.stale \/ files[sc.path].state # "good")

\* help.md:117, "runs every frame while testing": in a test every object with a script runs it.
UpdatesRun ==
    ui.testing /\ was /\ step = "panels" => \A e \in Live(sc) : sc.world[e].scr => e \in sc.compiled
=============================================================================
