---------------------------- MODULE StudioProofs ----------------------------
(***************************************************************************)
(* Proofs about Studio, for any number of objects, events, files and       *)
(* programs that write them.                                               *)
(*                                                                         *)
(* What a method of Scene may do to a scene is said by a few relations:    *)
(* Shape (its own invariant), Keeps, Shrinks and KeepsTags.  One lemma     *)
(* states them for each method; the steps of the editor only combine them. *)
(***************************************************************************)
EXTENDS Studio, FiniteSetTheorems, SequenceTheorems, TLAPS

ObjectType == [kind : Kinds, ren : BOOLEAN, body : BOOLEAN, scr : BOOLEAN, sim : BOOLEAN]
Worlds == UNION {[D -> ObjectType] : D \in SUBSET Ids}
\* A file never holds more objects than there are handles for.
FileType ==
    {f \in [state : {"absent", "broken", "good"}, objects : Seq(EntryType)] :
        Len(f.objects) <= MaxObjects}
PathNames == {""} \cup Paths
Scenes == [world : Worlds, inWorld : [Ids -> Int], phys : BOOLEAN, player : {0} \cup Ids,
           selected : {0} \cup Ids, tagged : SUBSET Ids, compiled : SUBSET Ids, path : PathNames,
           stale : BOOLEAN, cool : BOOLEAN, initial : FileType, asked : BOOLEAN]

-----------------------------------------------------------------------------
(* What is true of every scene, and what a method leaves of it.            *)

\* A body is in the physics world, once, if and only if its component is there.
Owned(s) == \A e \in Ids : s.inWorld[e] = IF s.phys /\ HasBody(s, e) THEN 1 ELSE 0
Shape(s) ==
    /\ s \in Scenes
    /\ s.player \in {0} \cup Live(s) /\ s.tagged \subseteq Live(s) /\ s.compiled \subseteq Live(s)
    /\ Owned(s)
\* There is a handle for every object that a file of this scene can hold.
Fits(s) == Cardinality(Objects(s)) <= MaxObjects
Shown(s, h) == h \in Live(s) => h \in s.tagged
\* No simulation has moved an object: neither in the scene, nor in a file.
Clean(s) == \A e \in Objects(s) : ~s.world[e].sim
CleanFile(f) == \A i \in DOMAIN f.objects : ~f.objects[i].sim

Keeps(s, t) == t.phys = s.phys /\ t.path = s.path
Shrinks(s, t) ==
    /\ Live(t) \subseteq Live(s) /\ Objects(t) \subseteq Objects(s)
    /\ \A e \in Live(t) : t.world[e].sim = s.world[e].sim
KeepsTags(s, t) == s.tagged \cap Live(t) \subseteq t.tagged

-----------------------------------------------------------------------------
(* Sets of handles.                                                         *)

LEMMA Bounds == MaxObjects \in Nat /\ MaxObjects >= 1
  <1>1. MaxObjects \in Nat \ {0}
    BY StudioAssumption, Zenon DEF StudioAssumption
  <1>. QED  BY <1>1

LEMMA WorldIs ==
  ASSUME NEW D \in SUBSET Ids, NEW w \in [D -> ObjectType]
  PROVE  w \in Worlds
  BY DEF Worlds

LEMMA WorldHas ==
  ASSUME NEW s \in Scenes
  PROVE  /\ Live(s) \subseteq Ids /\ s.world \in [Live(s) -> ObjectType]
         /\ 0 \notin Live(s)
  <1>1. s.world \in Worlds
    BY DEF Scenes
  <1>2. PICK D \in SUBSET Ids : s.world \in [D -> ObjectType]
    BY <1>1 DEF Worlds
  <1>. QED  BY <1>2, StudioAssumption DEF Live, StudioAssumption

LEMMA FewerFit ==
  ASSUME NEW s \in Scenes, NEW t \in Scenes, Fits(s), Shrinks(s, t)
  PROVE  Fits(t)
  <1>1. Objects(s) \subseteq Ids
    BY WorldHas DEF Objects
  <1>2. IsFiniteSet(Objects(s))
    BY <1>1, StudioAssumption, FS_Subset DEF StudioAssumption
  <1>3. Objects(t) \in SUBSET Objects(s)
    BY DEF Shrinks
  <1>4. Cardinality(Objects(t)) <= Cardinality(Objects(s))
    BY <1>2, <1>3, FS_Subset
  <1>5. Cardinality(Objects(t)) \in Nat /\ Cardinality(Objects(s)) \in Nat
    BY <1>2, <1>3, FS_Subset, FS_CardinalityType
  <1>. QED  BY <1>4, <1>5, Bounds DEF Fits

\* What is smaller, is as clean as it was, and its selection is shown as it was.
LEMMA ShrinksKeeps ==
  ASSUME NEW s, NEW t, Shrinks(s, t), Objects(t) \subseteq Live(t)
  PROVE  /\ Clean(s) => Clean(t)
         /\ \A h : KeepsTags(s, t) /\ Shown(s, h) => Shown(t, h)
  BY DEF Shrinks, KeepsTags, Clean, Shown

LEMMA ShrinksOn ==
  ASSUME NEW s, NEW t, NEW u, Shrinks(s, t), Shrinks(t, u)
  PROVE  Shrinks(s, u)
  BY DEF Shrinks

-----------------------------------------------------------------------------
(* The methods of a scene.                                                  *)

LEMMA CountIs ==
  ASSUME NEW s, s.inWorld \in [Ids -> Int], NEW e \in Ids, NEW by \in Int
  PROVE  /\ Count(s, e, by) \in [Ids -> Int] /\ Count(s, e, by)[e] = s.inWorld[e] + by
         /\ \A x \in Ids \ {e} : Count(s, e, by)[x] = s.inWorld[x]
  BY DEF Count

LEMMA CreateMakes ==
  ASSUME NEW s, Shape(s), NEW e \in Ids \ Live(s), NEW o \in ObjectType
  PROVE  LET t == Create(s, e, o)
         IN  /\ Shape(t) /\ Keeps(s, t) /\ t.player = s.player /\ t.tagged = s.tagged
             /\ Live(t) = Live(s) \cup {e} /\ t.world[e] = o
             /\ \A x \in Live(s) : t.world[x] = s.world[x]
  <1> DEFINE w == [x \in Live(s) \cup {e} |-> IF x = e THEN o ELSE s.world[x]]
             n == IF o.body /\ s.phys THEN Count(s, e, 1) ELSE s.inWorld
             t == Create(s, e, o)
  <1>1. s \in Scenes /\ Live(s) \subseteq Ids /\ s.world \in [Live(s) -> ObjectType]
    BY WorldHas DEF Shape
  <1>2. w \in [Live(s) \cup {e} -> ObjectType] /\ Live(s) \cup {e} \in SUBSET Ids
    BY <1>1
  <1>3. w \in Worlds
    BY <1>2, WorldIs
  <1>4. n \in [Ids -> Int]
    <2>1. s.inWorld \in [Ids -> Int]
      BY <1>1 DEF Scenes
    <2>. QED  BY <2>1 DEF Count
  <1>5. \A x \in Ids : n[x] = IF s.phys /\ x \in DOMAIN w /\ w[x].body THEN 1 ELSE 0
    <2>1. o.body \in BOOLEAN /\ s.phys \in BOOLEAN /\ s.inWorld \in [Ids -> Int]
      BY <1>1 DEF ObjectType, Scenes
    <2>2. TAKE x \in Ids
    <2>3. s.inWorld[x] = IF s.phys /\ x \in Live(s) /\ s.world[x].body THEN 1 ELSE 0
      BY DEF Shape, Owned, HasBody
    <2>4. CASE x = e
      BY <2>1, <2>3, <2>4 DEF Count
    <2>5. CASE x # e
      <3>1. n[x] = s.inWorld[x]
        BY <2>1, <2>5 DEF Count
      <3>. QED  BY <3>1, <2>3, <2>5
    <2>. QED  BY <2>4, <2>5
  <1> HIDE DEF w, n
  <1>6. t = [s EXCEPT !.world = w, !.inWorld = n]
    BY DEF w, n, Create
  <1>7. /\ t \in Scenes /\ t.world = w /\ t.inWorld = n /\ Keeps(s, t)
        /\ t.player = s.player /\ t.tagged = s.tagged /\ t.compiled = s.compiled
    BY <1>1, <1>3, <1>4, <1>6 DEF Scenes, Keeps
  <1> HIDE DEF t
  <1>8. DOMAIN w = Live(s) \cup {e} /\ w[e] = o /\ \A x \in Live(s) : w[x] = s.world[x]
    BY DEF w
  <1>9. Owned(t)
    BY <1>5, <1>7 DEF Owned, HasBody, Live, Keeps
  <1>10. Shape(t)
    BY <1>7, <1>8, <1>9 DEF Shape, Live
  <1>11. Live(t) = Live(s) \cup {e}
    BY <1>7, <1>8 DEF Live
  <1>. QED  BY <1>7, <1>8, <1>10, <1>11 DEF t

\* An entity goes, and with it its tag, its script and its body.
TakenOut(s, e, sel) ==
    [s EXCEPT !.world = [x \in Live(s) \ {e} |-> s.world[x]],
              !.tagged = @ \ {e}, !.compiled = @ \ {e},
              !.inWorld = IF s.phys /\ HasBody(s, e) THEN Count(s, e, -1) ELSE @,
              !.selected = sel, !.player = IF @ = e THEN 0 ELSE @]

LEMMA TakenOutLeaves ==
  ASSUME NEW s, Shape(s), NEW e \in Live(s), NEW sel \in {0} \cup Ids
  PROVE  LET t == TakenOut(s, e, sel)
         IN  /\ Shape(t) /\ Keeps(s, t) /\ Shrinks(s, t) /\ KeepsTags(s, t)
             /\ Live(t) = Live(s) \ {e}
  <1> DEFINE w == [x \in Live(s) \ {e} |-> s.world[x]]
             n == IF s.phys /\ HasBody(s, e) THEN Count(s, e, -1) ELSE s.inWorld
             p == IF s.player = e THEN 0 ELSE s.player
             t == TakenOut(s, e, sel)
  <1>1. s \in Scenes /\ Live(s) \subseteq Ids /\ s.world \in [Live(s) -> ObjectType] /\ 0 \notin Live(s)
    BY WorldHas DEF Shape
  <1>2. w \in [Live(s) \ {e} -> ObjectType] /\ Live(s) \ {e} \in SUBSET Ids
    BY <1>1
  <1>3. w \in Worlds
    BY <1>2, WorldIs
  <1>4. s.inWorld \in [Ids -> Int]
    BY <1>1 DEF Scenes
  <1>5. n \in [Ids -> Int]
    BY <1>1, <1>4, CountIs, -1 \in Int
  <1>6. \A x \in Ids : n[x] = IF s.phys /\ x \in DOMAIN w /\ w[x].body THEN 1 ELSE 0
    <2>2. TAKE x \in Ids
    <2>3. s.inWorld[x] = IF s.phys /\ x \in Live(s) /\ s.world[x].body THEN 1 ELSE 0
      BY DEF Shape, Owned, HasBody
    <2>4. CASE x = e
      BY <1>1, <1>4, <2>3, <2>4, CountIs, -1 \in Int DEF HasBody
    <2>5. CASE x # e
      <3>1. n[x] = s.inWorld[x]
        BY <1>1, <1>4, <2>5, CountIs, -1 \in Int
      <3>. QED  BY <3>1, <2>3, <2>5
    <2>. QED  BY <2>4, <2>5
  <1>7. DOMAIN w = Live(s) \ {e} /\ \A x \in DOMAIN w : w[x] = s.world[x]
    OBVIOUS
  <1>8. p \in {0} \cup DOMAIN w
    BY <1>1 DEF Shape
  <1> HIDE DEF w, n, p
  <1>9. t = [s EXCEPT !.world = w, !.tagged = @ \ {e}, !.compiled = @ \ {e}, !.inWorld = n,
                      !.selected = sel, !.player = p]
    BY DEF w, n, p, TakenOut
  <1>10. p \in {0} \cup Ids
    BY <1>1, <1>7, <1>8
  <1>11. /\ t \in Scenes /\ t.world = w /\ t.inWorld = n /\ Keeps(s, t)
         /\ t.player = p /\ t.tagged = s.tagged \ {e} /\ t.compiled = s.compiled \ {e}
    BY <1>1, <1>3, <1>5, <1>9, <1>10 DEF Scenes, Keeps
  <1> HIDE DEF t
  <1>12. Live(t) = Live(s) \ {e}
    BY <1>7, <1>11 DEF Live
  <1>13. Owned(t)
    BY <1>6, <1>11 DEF Owned, HasBody, Live, Keeps
  <1>14. Shape(t)
    BY <1>1, <1>7, <1>8, <1>11, <1>12, <1>13 DEF Shape
  <1>15. Objects(t) \subseteq Objects(s)
    BY <1>1, <1>11, <1>12 DEF Objects, p
  <1>16. Shrinks(s, t) /\ KeepsTags(s, t)
    BY <1>7, <1>11, <1>12, <1>15 DEF Shrinks, KeepsTags
  <1>. QED  BY <1>11, <1>12, <1>14, <1>16 DEF t

\* destroyEntity, which does nothing when the entity has gone already.
LEMMA DestroyTakes ==
  ASSUME NEW s, Shape(s), NEW e
  PROVE  LET t == Destroy(s, e)
         IN  Shape(t) /\ Keeps(s, t) /\ Shrinks(s, t) /\ KeepsTags(s, t)
  <1>1. CASE e \notin Live(s)
    BY <1>1 DEF Destroy, Keeps, Shrinks, KeepsTags
  <1>2. CASE e \in Live(s)
    <2> DEFINE sel == IF s.selected = e THEN 0 ELSE s.selected
    <2>1. s \in Scenes
      BY DEF Shape
    <2>2. sel \in {0} \cup Ids
      BY <2>1 DEF Scenes
    <2>3. Destroy(s, e) = TakenOut(s, e, sel)
      BY <1>2, <2>1 DEF Destroy, Forget, TakenOut, Scenes
    <2> HIDE DEF sel
    <2> DEFINE t == TakenOut(s, e, sel)
    <2>4. Shape(t) /\ Keeps(s, t) /\ Shrinks(s, t) /\ KeepsTags(s, t)
      BY <1>2, <2>2, TakenOutLeaves
    <2>. QED  BY <2>3, <2>4
  <1>. QED  BY <1>1, <1>2

LEMMA RemovePlayerTakes ==
  ASSUME NEW s, Shape(s)
  PROVE  LET t == RemovePlayer(s)
         IN  Shape(t) /\ Keeps(s, t) /\ Shrinks(s, t) /\ KeepsTags(s, t)
  <1>1. CASE s.player \notin Live(s)
    BY <1>1 DEF RemovePlayer, Keeps, Shrinks, KeepsTags
  <1>2. CASE s.player \in Live(s)
    <2>1. s \in Scenes
      BY DEF Shape
    <2>2. s.selected \in {0} \cup Ids
      BY <2>1 DEF Scenes
    <2>3. RemovePlayer(s) = TakenOut(s, s.player, s.selected)
      BY <1>2, <2>1 DEF RemovePlayer, Forget, TakenOut, Scenes
    <2> DEFINE t == TakenOut(s, s.player, s.selected)
    <2>4. Shape(t) /\ Keeps(s, t) /\ Shrinks(s, t) /\ KeepsTags(s, t)
      BY <1>2, <2>2, TakenOutLeaves
    <2>. QED  BY <2>3, <2>4
  <1>. QED  BY <1>1, <1>2

\* setSelectedEntity moves the tag.
LEMMA SetSelectedMarks ==
  ASSUME NEW s, Shape(s), NEW e \in {0} \cup Ids
  PROVE  LET t == SetSelected(s, e)
         IN  Shape(t) /\ Keeps(s, t) /\ Shrinks(s, t) /\ Shown(t, e) /\ t.world = s.world
  <1> DEFINE t == SetSelected(s, e)
  <1>1. s \in Scenes /\ Live(s) \subseteq Ids
    BY WorldHas DEF Shape
  <1>2. (s.tagged \ {s.selected}) \cup ({e} \cap Live(s)) \in SUBSET Ids
    BY <1>1 DEF Shape
  <1>3. /\ t \in Scenes /\ t.world = s.world /\ t.inWorld = s.inWorld /\ Keeps(s, t) /\ t.player = s.player
        /\ t.compiled = s.compiled /\ t.tagged = (s.tagged \ {s.selected}) \cup ({e} \cap Live(s))
    BY <1>1, <1>2 DEF SetSelected, Scenes, Keeps
  <1> HIDE DEF t
  <1>4. Live(t) = Live(s) /\ Objects(t) = Objects(s)
    BY <1>3 DEF Live, Objects
  <1>5. Owned(t)
    BY <1>3, <1>4 DEF Owned, HasBody, Keeps, Shape
  <1>6. Shape(t)
    BY <1>3, <1>4, <1>5 DEF Shape
  <1>. QED  BY <1>3, <1>4, <1>6 DEF Shrinks, Shown, t

\* What a step leaves of the registry when only components of one entity change.
LEMMA ChangedFits ==
  ASSUME NEW s, Shape(s), NEW t \in Scenes, Live(t) = Live(s), t.player = s.player,
         t.tagged = s.tagged, t.compiled \subseteq Live(s), Owned(t), Keeps(s, t),
         \A x \in Live(s) : t.world[x].sim = s.world[x].sim
  PROVE  Shape(t) /\ Shrinks(s, t) /\ KeepsTags(s, t)
  BY DEF Shape, Shrinks, KeepsTags, Objects

\* A body joins or leaves the physics world with its component.
Switched(s, e, b) ==
    [s EXCEPT !.world[e].body = b,
              !.inWorld = IF s.phys THEN Count(s, e, IF b THEN 1 ELSE -1) ELSE s.inWorld]

LEMMA BodyChanges ==
  ASSUME NEW s, Shape(s), NEW e \in Live(s), NEW b \in BOOLEAN, s.world[e].body # b
  PROVE  LET t == Switched(s, e, b)
         IN  /\ Shape(t) /\ Keeps(s, t) /\ Shrinks(s, t) /\ KeepsTags(s, t)
             /\ Live(t) = Live(s) /\ t.world[e].body = b
  <1> DEFINE o == [s.world[e] EXCEPT !.body = b]
             w == [s.world EXCEPT ![e] = o]
             by == IF b THEN 1 ELSE -1
             t == Switched(s, e, b)
             n == IF s.phys THEN Count(s, e, by) ELSE s.inWorld
  <1>1. s \in Scenes /\ Live(s) \subseteq Ids /\ s.world \in [Live(s) -> ObjectType]
    BY WorldHas DEF Shape
  <1>2. s.world[e] \in ObjectType /\ o \in ObjectType /\ o.body = b /\ o.sim = s.world[e].sim
    BY <1>1 DEF ObjectType
  <1> HIDE DEF o
  <1>3. /\ w \in [Live(s) -> ObjectType] /\ DOMAIN w = Live(s) /\ w[e] = o
        /\ \A x \in Live(s) \ {e} : w[x] = s.world[x]
    BY <1>1, <1>2
  <1>4. w \in Worlds
    BY <1>1, <1>3, WorldIs
  <1>5. s.inWorld \in [Ids -> Int]
    BY <1>1 DEF Scenes
  <1>a. by \in Int
    OBVIOUS
  <1>b. (b = TRUE => by = 1) /\ (b = FALSE => by = -1)
    OBVIOUS
  <1> HIDE DEF by
  <1>c. e \in Ids
    BY <1>1
  <1>d. /\ Count(s, e, by) \in [Ids -> Int] /\ Count(s, e, by)[e] = s.inWorld[e] + by
        /\ \A x \in Ids \ {e} : Count(s, e, by)[x] = s.inWorld[x]
    BY <1>5, <1>a, <1>c, CountIs
  <1>6. n \in [Ids -> Int]
    BY <1>5, <1>d
  <1>e. /\ n[e] = IF s.phys THEN s.inWorld[e] + by ELSE s.inWorld[e]
        /\ \A x \in Ids \ {e} : n[x] = s.inWorld[x]
    BY <1>d
  <1> HIDE DEF w, n
  <1>7. \A x \in Ids : n[x] = IF s.phys /\ x \in Live(s) /\ w[x].body THEN 1 ELSE 0
    <2>1. TAKE x \in Ids
    <2>2. s.inWorld[x] = IF s.phys /\ x \in Live(s) /\ s.world[x].body THEN 1 ELSE 0
      BY DEF Shape, Owned, HasBody
    <2>3. CASE x = e
      <3>1. w[e].body = b
        BY <1>2, <1>3
      <3>2. CASE b = TRUE
        <4>1. s.world[e].body = FALSE
          BY <1>2, <3>2, Zenon DEF ObjectType
        <4>2. s.inWorld[e] = 0
          BY <2>2, <2>3, <4>1
        <4>. QED  BY <1>b, <1>e, <2>3, <3>1, <3>2, <4>2
      <3>3. CASE b = FALSE
        <4>1. s.world[e].body = TRUE
          <5>1. s.world[e].body \in BOOLEAN
            BY <1>2 DEF ObjectType
          <5>. QED  BY <5>1, <3>3, Zenon
        <4>2. s.inWorld[e] = IF s.phys THEN 1 ELSE 0
          BY <2>2, <2>3, <4>1
        <4>. QED  BY <1>b, <1>e, <2>3, <3>1, <3>3, <4>2
      <3>. QED  BY <3>2, <3>3
    <2>4. CASE x # e
      <3>1. n[x] = s.inWorld[x]
        BY <1>e, <2>4
      <3>. QED  BY <3>1, <2>2, <2>4, <1>3
    <2>. QED  BY <2>3, <2>4
  <1>8. t = [s EXCEPT !.world = w, !.inWorld = n]
    BY <1>1 DEF w, n, o, by, Scenes, Switched
  <1>9. /\ t \in Scenes /\ t.world = w /\ t.inWorld = n /\ Keeps(s, t) /\ t.player = s.player
        /\ t.tagged = s.tagged /\ t.compiled = s.compiled
    BY <1>1, <1>4, <1>6, <1>8 DEF Scenes, Keeps
  <1> HIDE DEF t
  <1>10. Live(t) = Live(s)
    BY <1>3, <1>9 DEF Live
  <1>11. Owned(t)
    BY <1>7, <1>9, <1>10 DEF Owned, HasBody, Keeps
  <1>12. s.compiled \subseteq Live(s) /\ \A x \in Live(s) : t.world[x].sim = s.world[x].sim
    BY <1>2, <1>3, <1>9 DEF Shape
  <1>13. Shape(t) /\ Shrinks(s, t) /\ KeepsTags(s, t)
    BY <1>9, <1>10, <1>11, <1>12, ChangedFits
  <1>. QED  BY <1>2, <1>3, <1>9, <1>10, <1>13 DEF t

LEMMA RemovePhysicsTakes ==
  ASSUME NEW s, Shape(s), NEW e
  PROVE  LET t == RemovePhysics(s, e)
         IN  /\ Shape(t) /\ Keeps(s, t) /\ Shrinks(s, t) /\ KeepsTags(s, t) /\ Live(t) = Live(s)
             /\ e \in Live(s) => t.world[e].body = FALSE
  <1>1. s \in Scenes /\ s.world \in [Live(s) -> ObjectType]
    BY WorldHas DEF Shape
  <1>2. CASE ~HasBody(s, e)
    <2>1. e \in Live(s) => s.world[e].body = FALSE
      <3>1. e \in Live(s) => s.world[e].body \in BOOLEAN
        BY <1>1 DEF ObjectType
      <3>. QED  BY <3>1, <1>2, Zenon DEF HasBody
    <2>. QED  BY <1>2, <2>1 DEF RemovePhysics, Keeps, Shrinks, KeepsTags
  <1>3. CASE HasBody(s, e)
    <2> DEFINE t == Switched(s, e, FALSE)
    <2>1. e \in Live(s) /\ s.world[e].body # FALSE
      BY <1>3 DEF HasBody
    <2>2. RemovePhysics(s, e) = t
      BY <1>1, <1>3 DEF RemovePhysics, Scenes, Switched
    <2>3. /\ Shape(t) /\ Keeps(s, t) /\ Shrinks(s, t) /\ KeepsTags(s, t)
          /\ Live(t) = Live(s) /\ t.world[e].body = FALSE
      BY <2>1, BodyChanges
    <2>. QED  BY <2>2, <2>3
  <1>. QED  BY <1>2, <1>3

LEMMA AddColliderGives ==
  ASSUME NEW s, Shape(s), NEW e \in Live(s)
  PROVE  LET t == AddCollider(s, e)
         IN  Shape(t) /\ Keeps(s, t) /\ Shrinks(s, t) /\ KeepsTags(s, t)
  <1> DEFINE r == RemovePhysics(s, e)
             t == Switched(r, e, TRUE)
  <1>1. /\ Shape(r) /\ Keeps(s, r) /\ Shrinks(s, r) /\ KeepsTags(s, r) /\ Live(r) = Live(s)
        /\ r.world[e].body = FALSE
    BY RemovePhysicsTakes
  <1>2. AddCollider(s, e) = t
    <2>1. r \in Scenes
      BY <1>1 DEF Shape
    <2> HIDE DEF r
    <2>. QED  BY <2>1 DEF AddCollider, r, Scenes, Switched
  <1> HIDE DEF r
  <1>3. e \in Live(r) /\ r.world[e].body # TRUE
    BY <1>1
  <1>5. Shape(t) /\ Keeps(r, t) /\ Shrinks(r, t) /\ KeepsTags(r, t)
    BY <1>1, <1>3, BodyChanges
  <1>6. Keeps(s, t) /\ Shrinks(s, t) /\ KeepsTags(s, t)
    BY <1>1, <1>5 DEF Keeps, Shrinks, KeepsTags
  <1>. QED  BY <1>2, <1>5, <1>6

\* What differs from a scene in nothing that the relations speak of.
Still(s, t) == t.world = s.world /\ t.inWorld = s.inWorld /\ t.tagged = s.tagged /\ t.player = s.player /\ t.phys = s.phys

LEMMA StillFits ==
  ASSUME NEW s, Shape(s), NEW t \in Scenes, Still(s, t), t.compiled \subseteq Live(s)
  PROVE  /\ Shape(t) /\ Shrinks(s, t) /\ KeepsTags(s, t) /\ Live(t) = Live(s) /\ Objects(t) = Objects(s)
         /\ Clean(s) <=> Clean(t)
         /\ \A h : Shown(s, h) <=> Shown(t, h)
  <1>1. Live(t) = Live(s) /\ Objects(t) = Objects(s)
    BY DEF Still, Live, Objects
  <1>2. Owned(t)
    BY <1>1 DEF Shape, Still, Owned, HasBody
  <1>3. Shape(t)
    BY <1>1, <1>2 DEF Shape, Still
  <1>. QED  BY <1>1, <1>3 DEF Still, Shrinks, KeepsTags, Clean, Shown

\* The flags of a scene, its path and what it was loaded from.
LEMMA AskedFits ==
  ASSUME NEW s, Shape(s), NEW a \in BOOLEAN
  PROVE  LET t == [s EXCEPT !.asked = a] IN Shape(t) /\ Still(s, t) /\ Keeps(s, t)
  <1> DEFINE t == [s EXCEPT !.asked = a]
  <1>1. s \in Scenes /\ s.compiled \subseteq Live(s)
    BY DEF Shape
  <1>2. t \in Scenes /\ Still(s, t) /\ Keeps(s, t) /\ t.compiled \subseteq Live(s)
    BY <1>1 DEF Scenes, Still, Keeps
  <1> HIDE DEF t
  <1>3. Shape(t)
    BY <1>2, StillFits
  <1>. QED  BY <1>2, <1>3 DEF t

LEMMA CoolFits ==
  ASSUME NEW s, Shape(s), NEW a \in BOOLEAN
  PROVE  LET t == [s EXCEPT !.cool = a] IN Shape(t) /\ Still(s, t) /\ Keeps(s, t)
  <1> DEFINE t == [s EXCEPT !.cool = a]
  <1>1. s \in Scenes /\ s.compiled \subseteq Live(s)
    BY DEF Shape
  <1>2. t \in Scenes /\ Still(s, t) /\ Keeps(s, t) /\ t.compiled \subseteq Live(s)
    BY <1>1 DEF Scenes, Still, Keeps
  <1> HIDE DEF t
  <1>3. Shape(t)
    BY <1>2, StillFits
  <1>. QED  BY <1>2, <1>3 DEF t

LEMMA StaleFits ==
  ASSUME NEW s, Shape(s), NEW a \in BOOLEAN
  PROVE  LET t == [s EXCEPT !.stale = a] IN Shape(t) /\ Still(s, t) /\ Keeps(s, t)
  <1> DEFINE t == [s EXCEPT !.stale = a]
  <1>1. s \in Scenes /\ s.compiled \subseteq Live(s)
    BY DEF Shape
  <1>2. t \in Scenes /\ Still(s, t) /\ Keeps(s, t) /\ t.compiled \subseteq Live(s)
    BY <1>1 DEF Scenes, Still, Keeps
  <1> HIDE DEF t
  <1>3. Shape(t)
    BY <1>2, StillFits
  <1>. QED  BY <1>2, <1>3 DEF t

\* Where a scene comes from.
PathSet(s, p, a) == [s EXCEPT !.path = p, !.stale = a]
LoadedFrom(s, f, p) == [s EXCEPT !.initial = f, !.path = p, !.stale = FALSE]

LEMMA PathFits ==
  ASSUME NEW s, Shape(s), NEW a \in BOOLEAN, NEW p \in PathNames
  PROVE  LET t == PathSet(s, p, a)
         IN  Shape(t) /\ Still(s, t) /\ t.path = p
  <1> DEFINE t == PathSet(s, p, a)
  <1>1. s \in Scenes /\ s.compiled \subseteq Live(s)
    BY DEF Shape
  <1>2. t \in Scenes /\ Still(s, t) /\ t.compiled \subseteq Live(s) /\ t.path = p
    BY <1>1 DEF Scenes, Still, PathSet, LoadedFrom
  <1> HIDE DEF t
  <1>3. Shape(t)
    BY <1>2, StillFits
  <1>. QED  BY <1>2, <1>3 DEF t

LEMMA LoadedFits ==
  ASSUME NEW s, Shape(s), NEW f \in FileType, NEW p \in PathNames
  PROVE  LET t == LoadedFrom(s, f, p)
         IN  Shape(t) /\ Still(s, t) /\ t.path = p
  <1> DEFINE t == LoadedFrom(s, f, p)
  <1>1. s \in Scenes /\ s.compiled \subseteq Live(s)
    BY DEF Shape
  <1>2. t \in Scenes /\ Still(s, t) /\ t.compiled \subseteq Live(s) /\ t.path = p
    BY <1>1 DEF Scenes, Still, PathSet, LoadedFrom
  <1> HIDE DEF t
  <1>3. Shape(t)
    BY <1>2, StillFits
  <1>. QED  BY <1>2, <1>3 DEF t

LEMMA ReloadScriptsFits ==
  ASSUME NEW s, Shape(s)
  PROVE  LET t == ReloadScripts(s) IN Shape(t) /\ Still(s, t) /\ Keeps(s, t) /\ t.compiled \subseteq Live(s)
  <1> DEFINE t == ReloadScripts(s)
  <1>1. s \in Scenes /\ Live(s) \subseteq Ids
    BY WorldHas DEF Shape
  <1>2. t \in Scenes /\ Still(s, t) /\ Keeps(s, t) /\ t.compiled \subseteq Live(s)
    BY <1>1 DEF ReloadScripts, Scenes, Still, Keeps
  <1> HIDE DEF t
  <1>3. Shape(t)
    BY <1>2, StillFits
  <1>. QED  BY <1>2, <1>3 DEF t

-----------------------------------------------------------------------------
(* Loading and saving.                                                      *)

LEMMA TeardownLeaves ==
  ASSUME NEW s, Shape(s)
  PROVE  LET t == Teardown(s)
         IN  /\ Shape(t) /\ Keeps(s, t) /\ Shrinks(s, t) /\ KeepsTags(s, t)
             /\ t.player = s.player /\ Live(t) = Live(s) \cap {s.player}
  <1> DEFINE w == [e \in Live(s) \cap {s.player} |-> s.world[e]]
             n == [e \in Ids |-> IF s.phys /\ HasBody(s, e) /\ e # s.player
                                 THEN s.inWorld[e] - 1 ELSE s.inWorld[e]]
             t == Teardown(s)
  <1>1. s \in Scenes /\ Live(s) \subseteq Ids /\ s.world \in [Live(s) -> ObjectType]
    BY WorldHas DEF Shape
  <1>2. w \in [Live(s) \cap {s.player} -> ObjectType] /\ Live(s) \cap {s.player} \in SUBSET Ids
    BY <1>1
  <1>3. w \in Worlds
    BY <1>2, WorldIs
  <1>4. s.inWorld \in [Ids -> Int]
    BY <1>1 DEF Scenes
  <1>5. n \in [Ids -> Int]
    BY <1>4
  <1>6. \A x \in Ids : n[x] = IF s.phys /\ x \in DOMAIN w /\ w[x].body THEN 1 ELSE 0
    <2>1. TAKE x \in Ids
    <2>2. s.inWorld[x] = IF s.phys /\ x \in Live(s) /\ s.world[x].body THEN 1 ELSE 0
      BY DEF Shape, Owned, HasBody
    <2>3. CASE x = s.player
      BY <2>2, <2>3
    <2>4. CASE x # s.player
      BY <2>2, <2>4 DEF HasBody
    <2>. QED  BY <2>3, <2>4
  <1>7. DOMAIN w = Live(s) \cap {s.player} /\ \A x \in DOMAIN w : w[x] = s.world[x]
    OBVIOUS
  <1> HIDE DEF w, n
  <1>8. t = [s EXCEPT !.world = w, !.tagged = @ \cap {s.player}, !.compiled = @ \cap {s.player},
                      !.selected = 0, !.inWorld = n]
    BY <1>1 DEF w, n, Teardown, Scenes
  <1>9. /\ t \in Scenes /\ t.world = w /\ t.inWorld = n /\ Keeps(s, t) /\ t.player = s.player
        /\ t.tagged = s.tagged \cap {s.player} /\ t.compiled = s.compiled \cap {s.player}
    BY <1>1, <1>3, <1>5, <1>8 DEF Scenes, Keeps
  <1> HIDE DEF t
  <1>10. Live(t) = Live(s) \cap {s.player}
    BY <1>7, <1>9 DEF Live
  <1>11. Owned(t)
    BY <1>6, <1>9 DEF Owned, HasBody, Live, Keeps
  <1>12. Shape(t)
    BY <1>9, <1>10, <1>11 DEF Shape
  <1>13. Shrinks(s, t) /\ KeepsTags(s, t)
    BY <1>7, <1>9, <1>10 DEF Shrinks, KeepsTags, Objects
  <1>. QED  BY <1>9, <1>10, <1>12, <1>13 DEF t

\* When only the player is left, there are handles for every object a file can hold.
LEMMA HandlesLeft ==
  ASSUME NEW s, Live(s) \subseteq {s.player}, NEW h
  PROVE  IsFiniteSet(Unused(s, h)) /\ Cardinality(Unused(s, h)) >= MaxObjects
  <1> DEFINE A == Ids \ {s.player}
             B == A \ {h}
  <1>1. IsFiniteSet(Ids) /\ Cardinality(Ids) \in Nat /\ Cardinality(Ids) >= MaxObjects + 2
    BY StudioAssumption, FS_CardinalityType DEF StudioAssumption
  <1>2. IsFiniteSet(A) /\ Cardinality(A) >= Cardinality(Ids) - 1 /\ Cardinality(A) \in Nat
    <2>1. /\ IsFiniteSet(A)
          /\ Cardinality(A) = IF s.player \in Ids THEN Cardinality(Ids) - 1 ELSE Cardinality(Ids)
      BY <1>1, FS_RemoveElement
    <2>2. Cardinality(A) \in Nat
      BY <2>1, FS_CardinalityType
    <2>. QED  BY <1>1, <2>1, <2>2
  <1> HIDE DEF A
  <1>3. IsFiniteSet(B) /\ Cardinality(B) >= Cardinality(A) - 1 /\ Cardinality(B) \in Nat
    <2>1. /\ IsFiniteSet(B)
          /\ Cardinality(B) = IF h \in A THEN Cardinality(A) - 1 ELSE Cardinality(A)
      BY <1>2, FS_RemoveElement
    <2>2. Cardinality(B) \in Nat
      BY <2>1, FS_CardinalityType
    <2>. QED  BY <1>2, <2>1, <2>2
  <1>4. Unused(s, h) \in SUBSET Ids /\ B \in SUBSET Unused(s, h)
    BY DEF Unused, A
  <1> HIDE DEF B
  <1>5. IsFiniteSet(Unused(s, h)) /\ Cardinality(Unused(s, h)) \in Nat
    BY <1>1, <1>4, FS_Subset, FS_CardinalityType
  <1>6. Cardinality(B) <= Cardinality(Unused(s, h))
    BY <1>4, <1>5, FS_Subset
  <1>. QED  BY <1>1, <1>2, <1>3, <1>5, <1>6, Bounds

\* As many different handles as there are places in a file, for some of the places.
LEMMA HandlesFor ==
  ASSUME NEW n \in Nat, NEW M \in SUBSET (1..n), NEW U, IsFiniteSet(U), Cardinality(U) >= n
  PROVE  Injection(M, U) # {}
  <1>1. Cardinality(U) \in Nat /\ ExistsBijection(1..Cardinality(U), U)
    BY FS_CardinalityType
  <1>2. PICK g : g \in Bijection(1..Cardinality(U), U)
    BY <1>1 DEF ExistsBijection
  <1>3. /\ g \in [1..Cardinality(U) -> U]
        /\ \A a, b \in 1..Cardinality(U) : g[a] = g[b] => a = b
    BY <1>2 DEF Bijection, Injection, IsInjective
  <1> DEFINE f == [i \in M |-> g[i]]
  <1>4. M \subseteq 1..Cardinality(U)
    BY <1>1
  <1>5. f \in [M -> U] /\ \A a, b \in M : f[a] = f[b] => a = b
    BY <1>3, <1>4
  <1>6. f \in Injection(M, U)
    BY <1>5 DEF Injection, IsInjective
  <1>. QED  BY <1>6

\* What is built into a world with nothing but a player: one object for each that can be made.
LEMMA BuiltMakes ==
  ASSUME NEW s, Shape(s), Live(s) \subseteq {s.player}, NEW q \in Seq(EntryType), Len(q) <= MaxObjects, NEW h
  PROVE  LET t == Built(s, q, h)
         IN  /\ Shape(t) /\ Fits(t) /\ Keeps(s, t) /\ t.player = s.player /\ t.tagged = s.tagged
             /\ Live(s) \subseteq Live(t) /\ h \notin Live(t) \ Live(s)
             /\ (\A i \in DOMAIN q : ~q[i].sim) => Clean(t)
  <1> DEFINE made == {i \in DOMAIN q : q[i].kind # "lost"}
             U == Unused(s, h)
             id == CHOOSE f \in Injection(made, U) : TRUE
             at(e) == CHOOSE i \in made : id[i] = e
             of(e) == Object(q[at(e)])
             w == [e \in Live(s) \cup Range(id) |-> IF e \in Live(s) THEN s.world[e] ELSE of(e)]
             n == [e \in Ids |-> IF s.phys /\ e \in Range(id) /\ of(e).body THEN s.inWorld[e] + 1 ELSE s.inWorld[e]]
             t == Built(s, q, h)
  <1>1. s \in Scenes /\ Live(s) \subseteq Ids /\ s.world \in [Live(s) -> ObjectType] /\ 0 \notin Live(s)
    BY WorldHas DEF Shape
  <1>2. U \subseteq Ids /\ U \cap Live(s) = {} /\ h \notin U
    BY DEF Unused
  <1>3. Len(q) \in Nat /\ DOMAIN q = 1..Len(q) /\ made \in SUBSET (1..Len(q))
    OBVIOUS
  <1>4. IsFiniteSet(U) /\ Cardinality(U) \in Nat /\ Cardinality(U) >= Len(q)
    <2>1. IsFiniteSet(U) /\ Cardinality(U) >= MaxObjects
      BY HandlesLeft
    <2> HIDE DEF U
    <2>2. Cardinality(U) \in Nat
      BY <2>1, FS_CardinalityType
    <2>. QED  BY <1>3, <2>1, <2>2, Bounds
  <1> HIDE DEF U, made
  <1>5. id \in Injection(made, U)
    <2>1. Injection(made, U) # {}
      BY <1>3, <1>4, HandlesFor
    <2>. QED  BY <2>1
  <1> HIDE DEF id
  <1>6. id \in [made -> U] /\ Range(id) \subseteq U
    BY <1>5 DEF Injection, Range
  <1>7. \A e \in Range(id) : at(e) \in DOMAIN q /\ id[at(e)] = e
    <2>1. TAKE e \in Range(id)
    <2>2. \E i \in made : id[i] = e
      BY <1>6 DEF Range
    <2>3. at(e) \in made /\ id[at(e)] = e
      BY <2>2
    <2>. QED  BY <2>3 DEF made
  <1>8. \A e \in Range(id) : of(e) \in ObjectType /\ of(e).body = TRUE /\ of(e).sim = q[at(e)].sim
    <2>1. TAKE e \in Range(id)
    <2> HIDE DEF at
    <2>2. q[at(e)] \in EntryType
      BY <1>7, \A i \in DOMAIN q : q[i] \in EntryType
    <2>. QED  BY <2>2 DEF Object, ObjectType, EntryType
  <1> HIDE DEF at, of
  <1>9. w \in [Live(s) \cup Range(id) -> ObjectType] /\ Live(s) \cup Range(id) \in SUBSET Ids
    BY <1>1, <1>2, <1>6, <1>8
  <1>10. w \in Worlds
    BY <1>9, WorldIs
  <1>11. s.inWorld \in [Ids -> Int]
    BY <1>1 DEF Scenes
  <1>12. n \in [Ids -> Int]
    BY <1>11
  <1>13. /\ DOMAIN w = Live(s) \cup Range(id)
         /\ \A x \in Live(s) : w[x] = s.world[x]
         /\ \A x \in Range(id) : x \notin Live(s) /\ w[x] = of(x)
    BY <1>2, <1>6
  <1>14. \A x \in Ids : n[x] = IF s.phys /\ x \in DOMAIN w /\ w[x].body THEN 1 ELSE 0
    <2>1. TAKE x \in Ids
    <2>2. s.inWorld[x] = IF s.phys /\ x \in Live(s) /\ s.world[x].body THEN 1 ELSE 0
      BY DEF Shape, Owned, HasBody
    <2>3. n[x] = IF s.phys /\ x \in Range(id) /\ of(x).body THEN s.inWorld[x] + 1 ELSE s.inWorld[x]
      OBVIOUS
    <2> HIDE DEF w, n
    <2>4. CASE x \in Range(id)
      <3>1. w[x] = of(x) /\ of(x).body = TRUE /\ x \notin Live(s) /\ x \in DOMAIN w
        BY <1>8, <1>13, <2>4
      <3>. QED  BY <2>2, <2>3, <2>4, <3>1
    <2>5. CASE x \notin Range(id)
      <3>1. n[x] = s.inWorld[x] /\ (x \in DOMAIN w <=> x \in Live(s))
        BY <1>13, <2>3, <2>5
      <3>. QED  BY <1>13, <2>2, <3>1
    <2>. QED  BY <2>4, <2>5
  <1> HIDE DEF w, n
  <1>15. t = [s EXCEPT !.world = w, !.inWorld = n]
    BY <1>1 DEF w, n, of, at, id, made, U, Built, Scenes
  <1>16. /\ t \in Scenes /\ t.world = w /\ t.inWorld = n /\ Keeps(s, t) /\ t.player = s.player
         /\ t.tagged = s.tagged /\ t.compiled = s.compiled
    BY <1>1, <1>10, <1>12, <1>15 DEF Scenes, Keeps
  <1> HIDE DEF t
  <1>17. Live(t) = Live(s) \cup Range(id)
    BY <1>13, <1>16 DEF Live
  <1>18. Owned(t)
    BY <1>14, <1>16 DEF Owned, HasBody, Live, Keeps
  <1>19. Shape(t)
    BY <1>16, <1>17, <1>18 DEF Shape
  <1>20. Objects(t) \subseteq Range(id)
    BY <1>16, <1>17 DEF Objects
  <1>21. Fits(t)
    <2>1. id \in Surjection(made, Range(id))
      BY <1>6 DEF Surjection, Range
    <2>2. IsFiniteSet(1..Len(q)) /\ Cardinality(1..Len(q)) = Len(q)
      <3>1. 1 \in Int /\ Len(q) \in Int /\ ~(1 > Len(q)) => Len(q) - 1 + 1 = Len(q)
        BY <1>3
      <3>2. /\ IsFiniteSet(1..Len(q))
            /\ Cardinality(1..Len(q)) = IF 1 > Len(q) THEN 0 ELSE Len(q) - 1 + 1
        BY <1>3, FS_Interval
      <3>. QED  BY <1>3, <3>1, <3>2
    <2>3. IsFiniteSet(made) /\ Cardinality(made) <= Len(q) /\ Cardinality(made) \in Nat
      <3>1. IsFiniteSet(made) /\ Cardinality(made) <= Cardinality(1..Len(q))
        BY <1>3, <2>2, FS_Subset
      <3>. QED  BY <2>2, <3>1, FS_CardinalityType
    <2>4. /\ IsFiniteSet(Range(id)) /\ Cardinality(Range(id)) <= Cardinality(made)
          /\ Cardinality(Range(id)) \in Nat
      BY <2>1, <2>3, FS_Surjection, FS_CardinalityType
    <2>5. Cardinality(Objects(t)) <= Cardinality(Range(id)) /\ Cardinality(Objects(t)) \in Nat
      BY <1>20, <2>4, FS_Subset, FS_CardinalityType
    <2>. QED  BY <1>3, <2>3, <2>4, <2>5, Bounds DEF Fits
  <1>22. (\A i \in DOMAIN q : ~q[i].sim) => Clean(t)
    BY <1>7, <1>8, <1>13, <1>16, <1>20 DEF Clean
  <1>23. h \notin Live(t) \ Live(s)
    BY <1>2, <1>6, <1>17
  <1>. QED  BY <1>16, <1>17, <1>19, <1>21, <1>22, <1>23 DEF t

\* A file that does not parse changes nothing; any other one is what the scene then consists of.
LEMMA LoadGives ==
  ASSUME NEW s, Shape(s), Fits(s), NEW p \in PathNames, NEW f \in FileType, NEW h
  PROVE  LET t == Load(s, p, f, h)
         IN  /\ Shape(t) /\ Fits(t) /\ t.phys = s.phys
             /\ Shown(s, h) => Shown(t, h)
             /\ f.state # "good" => t = s
             /\ f.state = "good" => /\ t.path = p
                                    /\ CleanFile(f) => Clean(t)
  <1> DEFINE d == Teardown(s)
             b == Built(d, f.objects, h)
             t == Load(s, p, f, h)
  <1>1. CASE f.state # "good"
    BY <1>1 DEF Load
  <1>2. CASE f.state = "good"
    <2>1. f.objects \in Seq(EntryType) /\ Len(f.objects) <= MaxObjects
      BY DEF FileType
    <2>2. /\ Shape(d) /\ Keeps(s, d) /\ Shrinks(s, d) /\ KeepsTags(s, d)
          /\ Live(d) = Live(s) \cap {s.player} /\ d.player = s.player
      BY TeardownLeaves
    <2> HIDE DEF d
    <2>3. /\ Shape(b) /\ Fits(b) /\ Keeps(d, b) /\ b.tagged = d.tagged
          /\ Live(d) \subseteq Live(b) /\ h \notin Live(b) \ Live(d)
          /\ (\A i \in DOMAIN f.objects : ~f.objects[i].sim) => Clean(b)
      BY <2>1, <2>2, BuiltMakes
    <2>4. t = [b EXCEPT !.initial = f, !.path = p, !.stale = FALSE]
      BY <1>2 DEF t, Load, b, d
    <2> HIDE DEF b
    <2> DEFINE v == LoadedFrom(b, f, p)
    <2>a. Shape(v) /\ Still(b, v) /\ v.path = p
      BY <2>3, LoadedFits
    <2> HIDE DEF t, v
    <2>5. Shape(t) /\ Still(b, t) /\ t.path = p
      BY <2>4, <2>a DEF v, LoadedFrom, PathSet
    <2>6. t \in Scenes /\ t.compiled \subseteq Live(b)
      BY <2>5 DEF Shape, Still, Live
    <2>7. Live(t) = Live(b) /\ Objects(t) = Objects(b) /\ (Clean(b) <=> Clean(t))
      BY <2>3, <2>5, <2>6, StillFits
    <2>8. Fits(t) /\ t.phys = s.phys
      BY <2>2, <2>3, <2>5, <2>7 DEF Fits, Keeps, Still
    <2>9. Shown(s, h) => Shown(t, h)
      BY <2>2, <2>3, <2>5, <2>7 DEF Shown, Still, Shrinks, KeepsTags
    <2>10. CleanFile(f) => Clean(t)
      BY <2>3, <2>7 DEF CleanFile
    <2>. QED  BY <1>2, <2>5, <2>8, <2>9, <2>10 DEF t
  <1>. QED  BY <1>1, <1>2

\* What is in the files.
FilesOK == files \in [Paths -> FileType]

\* A scene that has no file, or one that does not parse, is left alone by a reload.
Reloads(s, t, h) ==
    /\ Shape(t) /\ Fits(t) /\ t.phys = s.phys /\ t.path = s.path
    /\ Shown(s, h) => Shown(t, h)
    /\ Clean(s) /\ (\A p \in Paths : CleanFile(files[p])) => Clean(t)

LEMMA ForceReloadGives ==
  ASSUME NEW s, Shape(s), Fits(s), FilesOK, NEW h
  PROVE  LET t == ForceReload(s, h)
         IN  /\ Reloads(s, t, h)
             /\ Watched(s) /\ files[s.path].state = "good" /\ CleanFile(files[s.path]) => Clean(t)
  <1> DEFINE u == Load(s, s.path, files[s.path], h)
             t == ForceReload(s, h)
  <1>1. CASE ~Watched(s)
    BY <1>1 DEF ForceReload, Reloads
  <1>2. CASE Watched(s)
    <2>1. s.path \in Paths
      BY <1>2 DEF Watched, Shape, Scenes, PathNames
    <2>2. files[s.path] \in FileType /\ s.path \in PathNames
      BY <2>1 DEF FilesOK, PathNames
    <2>3. /\ Shape(u) /\ Fits(u) /\ u.phys = s.phys
          /\ Shown(s, h) => Shown(u, h)
          /\ files[s.path].state # "good" => u = s
          /\ files[s.path].state = "good" => /\ u.path = s.path
                                             /\ CleanFile(files[s.path]) => Clean(u)
      BY <2>2, LoadGives
    <2>4. t = [u EXCEPT !.cool = TRUE]
      BY <1>2 DEF ForceReload
    <2> HIDE DEF u, t
    <2>5. Shape(t) /\ Still(u, t) /\ Keeps(u, t)
      <3> DEFINE v == [u EXCEPT !.cool = TRUE]
      <3>1. Shape(v) /\ Still(u, v) /\ Keeps(u, v)
        BY <2>3, CoolFits
      <3>. QED  BY <2>4, <3>1
    <2>6. t \in Scenes /\ t.compiled \subseteq Live(u)
      BY <2>5 DEF Shape, Still, Live
    <2>7. Objects(t) = Objects(u) /\ (Clean(u) <=> Clean(t)) /\ \A x : Shown(u, x) <=> Shown(t, x)
      BY <2>3, <2>5, <2>6, StillFits
    <2>8. Fits(t)
      BY <2>3, <2>7 DEF Fits
    <2>9. Reloads(s, t, h)
      BY <2>1, <2>3, <2>5, <2>7, <2>8 DEF Reloads, Keeps
    <2>10. files[s.path].state = "good" /\ CleanFile(files[s.path]) => Clean(t)
      BY <2>3, <2>7
    <2>. QED  BY <2>9, <2>10 DEF t
  <1>. QED  BY <1>1, <1>2

LEMMA CheckReloadGives ==
  ASSUME NEW s, Shape(s), Fits(s), FilesOK, NEW h
  PROVE  Reloads(s, CheckReload(s, h), h)
  <1>1. CheckReload(s, h) \in {s, ForceReload(s, h)}
    BY DEF CheckReload, ForceReload
  <1>2. Reloads(s, s, h)
    BY DEF Reloads
  <1>3. Reloads(s, ForceReload(s, h), h)
    BY ForceReloadGives
  <1>. QED  BY <1>1, <1>2, <1>3

\* resetToInitial keeps the path of the scene, though it loads another file.
LEMMA ResetToInitialGives ==
  ASSUME NEW s, Shape(s), Fits(s), FilesOK, NEW h
  PROVE  LET t == ResetToInitial(s, h)
         IN  /\ Shape(t) /\ Fits(t) /\ t.phys = s.phys /\ t.path = s.path
             /\ Shown(s, h) => Shown(t, h)
  <1>1. CASE s.initial = Absent
    BY <1>1, ForceReloadGives DEF ResetToInitial, Reloads
  <1>2. CASE s.initial # Absent
    <2> DEFINE u == Load(s, Temp, s.initial, h)
               t == ResetToInitial(s, h)
    <2>1. s.initial \in FileType /\ s.path \in PathNames /\ s.stale \in BOOLEAN
      BY DEF Shape, Scenes
    <2>2. Temp \in PathNames
      BY DEF Paths, PathNames
    <2>3. /\ Shape(u) /\ Fits(u) /\ u.phys = s.phys
          /\ Shown(s, h) => Shown(u, h)
          /\ s.initial.state # "good" => u = s
      <3> DEFINE f == s.initial
      <3>1. f \in FileType
        BY <2>1
      <3> HIDE DEF f
      <3> DEFINE v == Load(s, Temp, f, h)
      <3>2. /\ Shape(v) /\ Fits(v) /\ v.phys = s.phys
            /\ Shown(s, h) => Shown(v, h)
            /\ f.state # "good" => v = s
        BY <3>1, <2>2, LoadGives
      <3>. QED  BY <3>2 DEF f
    <2>4. t = [u EXCEPT !.path = s.path, !.stale = s.stale]
      BY <1>2 DEF ResetToInitial
    <2> HIDE DEF u
    <2> DEFINE v == PathSet(u, s.path, s.stale)
    <2>a. Shape(v) /\ Still(u, v) /\ v.path = s.path
      BY <2>1, <2>3, PathFits
    <2> HIDE DEF t, v
    <2>5. Shape(t) /\ Still(u, t) /\ t.path = s.path
      BY <2>4, <2>a DEF v, LoadedFrom, PathSet
    <2>6. t \in Scenes /\ t.compiled \subseteq Live(u)
      BY <2>5 DEF Shape, Still, Live
    <2>7. Objects(t) = Objects(u) /\ \A x : Shown(u, x) <=> Shown(t, x)
      BY <2>3, <2>5, <2>6, StillFits
    <2>8. Fits(t)
      BY <2>3, <2>7 DEF Fits
    <2>. QED  BY <2>3, <2>5, <2>7, <2>8 DEF Still, t
  <1>. QED  BY <1>1, <1>2

LEMMA SavedGives ==
  ASSUME NEW s, Shape(s), Fits(s)
  PROVE  /\ Saved(s) \in FileType /\ Saved(s).state = "good"
         /\ Clean(s) => CleanFile(Saved(s))
  <1> DEFINE S == Savable(s)
             n == Cardinality(S)
             order == CHOOSE q \in Bijection(1..n, S) : TRUE
             q == [i \in DOMAIN order |-> Entry(s.world[order[i]])]
  <1>1. s \in Scenes /\ Live(s) \subseteq Ids /\ s.world \in [Live(s) -> ObjectType]
    BY WorldHas DEF Shape
  <1>2. S \subseteq Objects(s) /\ Objects(s) \subseteq Live(s)
    BY DEF Savable, Objects
  <1>3. IsFiniteSet(Objects(s))
    <2>1. Objects(s) \in SUBSET Ids
      BY <1>1, <1>2
    <2>. QED  BY <2>1, StudioAssumption, FS_Subset DEF StudioAssumption
  <1>4. IsFiniteSet(S) /\ n \in Nat /\ n <= MaxObjects
    <2>1. IsFiniteSet(S) /\ n <= Cardinality(Objects(s))
      BY <1>2, <1>3, FS_Subset
    <2>2. n \in Nat /\ Cardinality(Objects(s)) \in Nat
      BY <1>3, <2>1, FS_CardinalityType
    <2>. QED  BY <2>1, <2>2, Bounds DEF Fits
  <1> HIDE DEF S
  <1>5. order \in Bijection(1..n, S)
    <2>1. Bijection(1..n, S) # {}
      BY <1>4, FS_CardinalityType DEF ExistsBijection
    <2> HIDE DEF n
    <2>. QED  BY <2>1
  <1> HIDE DEF order
  <1>6. order \in [1..n -> S]
    BY <1>5 DEF Bijection, Injection
  <1>7. \A i \in 1..n : /\ Entry(s.world[order[i]]) \in EntryType
                        /\ Clean(s) => ~Entry(s.world[order[i]]).sim
    <2>1. TAKE i \in 1..n
    <2>2. order[i] \in Objects(s) /\ s.world[order[i]] \in ObjectType
      BY <1>1, <1>2, <1>6
    <2>. QED  BY <2>2 DEF Entry, EntryType, ObjectType, Clean
  <1> HIDE DEF n
  <1>8. /\ q \in Seq(EntryType) /\ Len(q) <= MaxObjects /\ DOMAIN q = 1..n
        /\ \A i \in 1..n : q[i] = Entry(s.world[order[i]])
    <2>1. DOMAIN order = 1..n
      BY <1>6
    <2>2. q \in [1..n -> EntryType]
      BY <1>7, <2>1
    <2>3. Len(q) = n /\ q \in Seq(EntryType)
      BY <1>4, <2>2, LenProperties, SeqDef
    <2>. QED  BY <1>4, <2>1, <2>2, <2>3
  <1> HIDE DEF q
  <1>9. Saved(s) = File(q)
    BY DEF Saved, q, order, n, S
  <1>10. Saved(s).objects = q /\ Saved(s).state = "good" /\ Saved(s) \in FileType
    BY <1>8, <1>9 DEF File, FileType
  <1>11. Clean(s) => CleanFile(Saved(s))
    BY <1>7, <1>8, <1>10 DEF CleanFile
  <1>. QED  BY <1>10, <1>11

-----------------------------------------------------------------------------
(* What a frame does to a scene.                                            *)

\* A new object, under a handle that neither the scene nor the editor knows.
LEMMA SpawnGives ==
  ASSUME NEW s, Shape(s), NEW h, HasRoom(s, h), NEW o \in ObjectType
  PROVE  LET e == NewId(s, h)
             t == Create(s, e, o)
         IN  /\ e \in Ids /\ e # h /\ e \in Live(t)
             /\ Shape(t) /\ Fits(t) /\ Keeps(s, t)
             /\ Shown(s, h) => Shown(t, h)
             /\ Clean(s) /\ o.sim = FALSE => Clean(t)
  <1> DEFINE e == NewId(s, h)
             t == Create(s, e, o)
  <1>1. s \in Scenes /\ Live(s) \subseteq Ids
    BY WorldHas DEF Shape
  <1>2. e \in Ids /\ e \notin Live(s) /\ e # h
    <2>1. e \in Unused(s, h)
      BY DEF HasRoom, NewId
    <2>. QED  BY <2>1 DEF Unused
  <1> HIDE DEF e
  <1>3. /\ Shape(t) /\ Keeps(s, t) /\ t.player = s.player /\ t.tagged = s.tagged
        /\ Live(t) = Live(s) \cup {e} /\ t.world[e] = o
        /\ \A x \in Live(s) : t.world[x] = s.world[x]
    BY <1>2, CreateMakes
  <1> HIDE DEF t
  <1>4. Objects(t) \subseteq Objects(s) \cup {e} /\ Objects(s) \subseteq Live(s)
    BY <1>3 DEF Objects
  <1>5. Fits(t)
    <2>1. Objects(s) \in SUBSET Ids
      BY <1>1, <1>4
    <2>2. IsFiniteSet(Objects(s)) /\ Cardinality(Objects(s)) \in Nat
      BY <2>1, StudioAssumption, FS_Subset, FS_CardinalityType DEF StudioAssumption
    <2>3. /\ IsFiniteSet(Objects(s) \cup {e})
          /\ Cardinality(Objects(s) \cup {e}) <= Cardinality(Objects(s)) + 1
          /\ Cardinality(Objects(s) \cup {e}) \in Nat
      <3>1. /\ IsFiniteSet(Objects(s) \cup {e})
            /\ Cardinality(Objects(s) \cup {e}) =
                  IF e \in Objects(s) THEN Cardinality(Objects(s)) ELSE Cardinality(Objects(s)) + 1
        BY <2>2, FS_AddElement
      <3>. QED  BY <2>2, <3>1
    <2>4. /\ Cardinality(Objects(t)) <= Cardinality(Objects(s) \cup {e})
          /\ IsFiniteSet(Objects(t))
      BY <1>4, <2>3, FS_Subset
    <2>5. Cardinality(Objects(t)) \in Nat
      BY <2>4, FS_CardinalityType
    <2>6. Cardinality(Objects(s)) < MaxObjects
      BY DEF HasRoom
    <2>. QED  BY <2>2, <2>3, <2>4, <2>5, <2>6, Bounds DEF Fits
  <1>6. Shown(s, h) => Shown(t, h)
    BY <1>2, <1>3 DEF Shown
  <1>7. Clean(s) /\ o.sim = FALSE => Clean(t)
    BY <1>2, <1>3, <1>4 DEF Clean
  <1>. QED  BY <1>2, <1>3, <1>5, <1>6, <1>7 DEF t, e

\* What a step of scripts and physics keeps.
Runs(s, t, h) == Shape(t) /\ Fits(t) /\ Keeps(s, t) /\ (Shown(s, h) => Shown(t, h))

\* Whatever only shrinks, runs.
LEMMA ShrinksRuns ==
  ASSUME NEW s, Shape(s), Fits(s), NEW t, Shape(t), Keeps(s, t), Shrinks(s, t), KeepsTags(s, t), NEW h
  PROVE  Runs(s, t, h) /\ (Clean(s) => Clean(t))
  <1>1. s \in Scenes /\ t \in Scenes /\ Objects(t) \subseteq Live(t)
    BY DEF Shape, Objects
  <1>2. Fits(t)
    BY <1>1, FewerFit
  <1>3. (Clean(s) => Clean(t)) /\ (KeepsTags(s, t) /\ Shown(s, h) => Shown(t, h))
    BY <1>1, ShrinksKeeps
  <1>. QED  BY <1>2, <1>3 DEF Runs

LEMMA StillRuns ==
  ASSUME NEW s, Shape(s), Fits(s), NEW t, Shape(t), Still(s, t), Keeps(s, t), NEW h
  PROVE  Runs(s, t, h) /\ (Clean(s) => Clean(t))
  <1>1. t \in Scenes /\ t.compiled \subseteq Live(s)
    BY DEF Shape, Still, Live
  <1>2. Shrinks(s, t) /\ KeepsTags(s, t)
    BY <1>1, StillFits
  <1>. QED  BY <1>2, ShrinksRuns

LEMMA ScriptedRuns ==
  ASSUME NEW s, Shape(s), Fits(s), NEW h, NEW t \in Scripted(s, h)
  PROVE  Runs(s, t, h)
  <1>1. CASE t = s
    BY <1>1 DEF Runs, Keeps
  <1>2. ASSUME NEW e, t = Destroy(s, e) PROVE Runs(s, t, h)
    <2>1. Shape(t) /\ Keeps(s, t) /\ Shrinks(s, t) /\ KeepsTags(s, t)
      BY <1>2, DestroyTakes
    <2>. QED  BY <2>1, ShrinksRuns
  <1>3. CASE t = [s EXCEPT !.asked = TRUE]
    <2> DEFINE v == [s EXCEPT !.asked = TRUE]
    <2>1. Shape(v) /\ Still(s, v) /\ Keeps(s, v)
      BY AskedFits
    <2>2. Shape(t) /\ Still(s, t) /\ Keeps(s, t)
      BY <1>3, <2>1
    <2>. QED  BY <2>2, StillRuns
  <1>4. CASE HasRoom(s, h) /\ t = Create(s, NewId(s, h), Cube(TRUE))
    <2> DEFINE o == Cube(TRUE)
               v == Create(s, NewId(s, h), o)
    <2>1. o \in ObjectType
      BY DEF Cube, Object, ObjectType, Kinds
    <2> HIDE DEF o
    <2>2. Shape(v) /\ Fits(v) /\ Keeps(s, v) /\ (Shown(s, h) => Shown(v, h))
      BY <1>4, <2>1, SpawnGives
    <2>. QED  BY <1>4, <2>2 DEF Runs, o
  <1>. QED  BY <1>1, <1>2, <1>3, <1>4 DEF Scripted

\* A component other than the body changes.
Altered(s, e, o, c) == [s EXCEPT !.world[e] = o, !.compiled = c]

LEMMA AlteredKeeps ==
  ASSUME NEW s, Shape(s), NEW e \in Live(s), NEW o \in ObjectType, o.body = s.world[e].body,
         NEW c \in SUBSET s.compiled
  PROVE  LET t == Altered(s, e, o, c)
         IN  /\ Shape(t) /\ Keeps(s, t) /\ KeepsTags(s, t) /\ Live(t) = Live(s) /\ Objects(t) = Objects(s)
             /\ o.sim = s.world[e].sim => Shrinks(s, t)
  <1> DEFINE w == [s.world EXCEPT ![e] = o]
             t == Altered(s, e, o, c)
  <1>1. s \in Scenes /\ Live(s) \subseteq Ids /\ s.world \in [Live(s) -> ObjectType] /\ s.compiled \subseteq Live(s)
    BY WorldHas DEF Shape
  <1>2. /\ w \in [Live(s) -> ObjectType] /\ DOMAIN w = Live(s) /\ w[e] = o
        /\ \A x \in Live(s) \ {e} : w[x] = s.world[x]
    BY <1>1
  <1>3. w \in Worlds
    BY <1>1, <1>2, WorldIs
  <1> HIDE DEF w
  <1>4. t = [s EXCEPT !.world = w, !.compiled = c]
    BY <1>1 DEF w, Altered, Scenes
  <1>5. c \in SUBSET Ids
    BY <1>1
  <1>6. /\ t \in Scenes /\ t.world = w /\ t.inWorld = s.inWorld /\ Keeps(s, t) /\ t.player = s.player
        /\ t.tagged = s.tagged /\ t.compiled = c
    BY <1>1, <1>3, <1>4, <1>5 DEF Scenes, Keeps
  <1> HIDE DEF t
  <1>7. Live(t) = Live(s) /\ Objects(t) = Objects(s)
    BY <1>2, <1>6 DEF Live, Objects
  <1>8. Owned(t)
    <2>1. \A x \in Live(s) : t.world[x].body = s.world[x].body
      BY <1>2, <1>6
    <2>. QED  BY <2>1, <1>6, <1>7 DEF Owned, HasBody, Keeps, Shape
  <1>9. Shape(t)
    BY <1>1, <1>6, <1>7, <1>8 DEF Shape
  <1>10. o.sim = s.world[e].sim => Shrinks(s, t)
    BY <1>2, <1>6, <1>7 DEF Shrinks
  <1>. QED  BY <1>6, <1>7, <1>9, <1>10 DEF KeepsTags, t

LEMMA SimulatedRuns ==
  ASSUME NEW s, Shape(s), Fits(s), NEW h, NEW t \in Simulated(s, h)
  PROVE  Runs(s, t, h)
  <1>1. CASE t \in Scripted(s, h)
    BY <1>1, ScriptedRuns
  <1>2. ASSUME NEW e \in Objects(s), t = [s EXCEPT !.world[e].sim = TRUE]
        PROVE  Runs(s, t, h)
    <2> DEFINE o == [s.world[e] EXCEPT !.sim = TRUE]
               c == s.compiled
               v == Altered(s, e, o, c)
    <2>1. s \in Scenes /\ s.world \in [Live(s) -> ObjectType] /\ e \in Live(s)
      BY WorldHas DEF Shape, Objects
    <2>2. o \in ObjectType /\ o.body = s.world[e].body
      BY <2>1 DEF ObjectType
    <2>3. t = v
      BY <1>2, <2>1 DEF Altered, Scenes
    <2>4. c \in SUBSET s.compiled
      OBVIOUS
    <2> HIDE DEF o, c
    <2>5. Shape(v) /\ Keeps(s, v) /\ KeepsTags(s, v) /\ Live(v) = Live(s) /\ Objects(v) = Objects(s)
      BY <2>1, <2>2, <2>4, AlteredKeeps
    <2> HIDE DEF v
    <2>6. Shown(s, h) => Shown(v, h)
      BY <2>5 DEF Shown, KeepsTags
    <2>. QED  BY <2>3, <2>5, <2>6 DEF Runs, Fits
  <1>. QED  BY <1>1, <1>2 DEF Simulated

LEMMA ApplyPendingResetGives ==
  ASSUME NEW s, Shape(s), Fits(s), FilesOK, NEW h, NEW t \in ApplyPendingReset(s, h)
  PROVE  Runs(s, t, h)
  <1>1. CASE ~s.asked
    BY <1>1 DEF ApplyPendingReset, Runs, Keeps
  <1>2. CASE s.asked
    <2> DEFINE a == [s EXCEPT !.asked = FALSE]
               b == ResetToInitial(a, h)
               c == ReloadScripts(b)
    <2>1. Shape(a) /\ Still(s, a) /\ Keeps(s, a)
      BY AskedFits
    <2>2. t \in Scripted(c, h)
      BY <1>2 DEF ApplyPendingReset
    <2> HIDE DEF a
    <2>3. Runs(s, a, h)
      BY <2>1, StillRuns
    <2>4. /\ Shape(b) /\ Fits(b) /\ b.phys = a.phys /\ b.path = a.path
          /\ Shown(a, h) => Shown(b, h)
      BY <2>1, <2>3, ResetToInitialGives DEF Runs
    <2> HIDE DEF b
    <2>5. Shape(c) /\ Still(b, c) /\ Keeps(b, c)
      BY <2>4, ReloadScriptsFits
    <2> HIDE DEF c
    <2>6. Runs(b, c, h)
      BY <2>4, <2>5, StillRuns
    <2>7. Runs(c, t, h)
      BY <2>2, <2>6, ScriptedRuns DEF Runs
    <2>. QED  BY <2>3, <2>4, <2>6, <2>7 DEF Runs, Keeps
  <1>. QED  BY <1>1, <1>2

LEMMA EnterTestGives ==
  ASSUME NEW s, Shape(s), Fits(s)
  PROVE  LET t == EnterTest(s) IN Shape(t) /\ Fits(t) /\ Keeps(s, t) /\ (Clean(s) => Clean(t)) /\ Shown(t, 0)
  <1> DEFINE u == SetSelected(s, 0)
             t == ReloadScripts(u)
  <1>0. 0 \in {0} \cup Ids
    OBVIOUS
  <1>1. Shape(u) /\ Keeps(s, u) /\ Shrinks(s, u)
    BY <1>0, SetSelectedMarks
  <1>2. u \in Scenes /\ s \in Scenes /\ Objects(u) \subseteq Live(u)
    BY <1>1 DEF Shape, Objects
  <1>3. Fits(u) /\ (Clean(s) => Clean(u))
    BY <1>1, <1>2, FewerFit, ShrinksKeeps
  <1> HIDE DEF u
  <1>4. Shape(t) /\ Still(u, t) /\ Keeps(u, t)
    BY <1>1, ReloadScriptsFits
  <1> HIDE DEF t
  <1>5. Runs(u, t, 0) /\ (Clean(u) => Clean(t))
    BY <1>1, <1>3, <1>4, StillRuns
  <1>6. Shown(t, 0)
    BY <1>5, WorldHas DEF Runs, Shape, Shown
  <1>. QED  BY <1>1, <1>3, <1>5, <1>6 DEF Runs, Keeps, EnterTest, t, u

\* A test ends with what the scene's file holds, if it holds a scene.
Left(s, t) ==
    /\ Shape(t) /\ Fits(t) /\ Keeps(s, t)
    /\ Watched(s) /\ files[s.path].state = "good" /\ CleanFile(files[s.path]) => Clean(t)

LEMMA LeaveTestGives ==
  ASSUME NEW s, Shape(s), Fits(s), FilesOK, NEW h
  PROVE  Left(s, LeaveTest(s, h))
  <1> DEFINE u == SetSelected(s, 0)
             v == ForceReload(u, h)
             t == [v EXCEPT !.compiled = {}]
  <1>0. 0 \in {0} \cup Ids
    OBVIOUS
  <1>1. Shape(u) /\ Keeps(s, u) /\ Shrinks(s, u)
    BY <1>0, SetSelectedMarks
  <1>2. u \in Scenes /\ s \in Scenes
    BY <1>1 DEF Shape
  <1>3. Fits(u) /\ (Watched(s) <=> Watched(u)) /\ u.path = s.path
    BY <1>1, <1>2, FewerFit DEF Watched, Keeps
  <1> HIDE DEF u
  <1>4. /\ Reloads(u, v, h)
        /\ Watched(u) /\ files[u.path].state = "good" /\ CleanFile(files[u.path]) => Clean(v)
    BY <1>1, <1>3, ForceReloadGives
  <1> HIDE DEF v
  <1>5. v \in Scenes /\ Shape(v)
    BY <1>4 DEF Reloads, Shape
  <1>6. t \in Scenes /\ Still(v, t) /\ Keeps(v, t) /\ t.compiled \subseteq Live(v)
    BY <1>5 DEF Scenes, Still, Keeps
  <1>7. t = LeaveTest(s, h)
    BY DEF LeaveTest, u, v
  <1> HIDE DEF t
  <1>8. Shape(t) /\ (Clean(v) <=> Clean(t)) /\ Objects(t) = Objects(v)
    BY <1>5, <1>6, StillFits
  <1>9. Fits(t)
    BY <1>4, <1>8 DEF Fits, Reloads
  <1>. QED  BY <1>1, <1>3, <1>4, <1>6, <1>7, <1>8, <1>9 DEF Keeps, Reloads, Left

-----------------------------------------------------------------------------
(* The inductive invariant.                                                 *)

Contexts == [testing : BOOLEAN, selection : {0} \cup Ids, saved : PathNames, clip : SUBSET ObjectType]

\* The file that is watched exists, and it is never the one a reset goes through.
PathOK(s, fs) == s.path # Temp /\ (s.path # "" => fs[s.path].state # "absent")

EditorOK ==
    /\ Shape(sc) /\ Fits(sc) /\ FilesOK /\ PathOK(sc, files)
    /\ ui \in Contexts /\ was \in BOOLEAN /\ stuck \in BOOLEAN
    /\ step \in {"boot", "frame", "panels"}
    /\ step = "boot" => sc = NoScene /\ ui = NoContext /\ was = FALSE
    /\ step # "boot" => sc.phys
    /\ step = "panels" => was = ui.testing

\* Only between the start of a test and the frame after its end may the scene differ from what
\* was edited; whatever can be saved, or pasted, is free of the simulation then.
EditsAreClean ==
    ~stuck =>
        /\ \A p \in Paths : CleanFile(files[p])
        /\ \A o \in ui.clip : o.sim = FALSE
        /\ ui.testing = FALSE /\ was = FALSE => Clean(sc)

StudioInv == EditorOK /\ Shown(sc, ui.selection) /\ EditsAreClean

LEMMA FilesType ==
  /\ Absent \in FileType /\ Broken \in FileType /\ File(<<Entry(Static)>>) \in FileType
  /\ CleanFile(Absent) /\ CleanFile(Broken) /\ CleanFile(File(<<Entry(Static)>>))
  /\ \A n \in Written : File(<<n>>) \in FileType /\ CleanFile(File(<<n>>))
  <1>1. ASSUME NEW n \in EntryType
        PROVE  /\ File(<<n>>) \in FileType
               /\ n.sim = FALSE => CleanFile(File(<<n>>))
    <2>1. <<n>> \in Seq(EntryType) /\ Len(<<n>>) = 1 /\ DOMAIN <<n>> = 1..1 /\ <<n>>[1] = n
      OBVIOUS
    <2> DEFINE q == <<n>>
    <2>2. q \in Seq(EntryType) /\ Len(q) <= MaxObjects /\ DOMAIN q = 1..1 /\ q[1] = n
      BY <2>1, Bounds
    <2> HIDE DEF q
    <2>3. File(q) \in FileType /\ (n.sim = FALSE => CleanFile(File(q)))
      BY <2>2 DEF File, FileType, CleanFile
    <2>. QED  BY <2>3 DEF q
  <1>2. Entry(Static) \in EntryType /\ Entry(Static).sim = FALSE
    BY DEF Entry, Static, Object, EntryType, Kinds
  <1>3. \A n \in Written : n \in EntryType /\ n.sim = FALSE
    <2>1. Written \subseteq EntryType /\ \A n \in Written : ~n.sim
      BY StudioAssumption, Zenon DEF StudioAssumption
    <2>2. \A n \in EntryType : n.sim \in BOOLEAN
      BY DEF EntryType
    <2>. QED  BY <2>1, <2>2, Zenon
  <1>4. Absent \in FileType /\ Broken \in FileType /\ CleanFile(Absent) /\ CleanFile(Broken)
    <2>1. <<>> \in Seq(EntryType) /\ Len(<<>>) = 0 /\ DOMAIN <<>> = {}
      OBVIOUS
    <2>. QED  BY <2>1, Bounds DEF Absent, Broken, FileType, CleanFile
  <1> DEFINE e == Entry(Static)
  <1>5. File(<<e>>) \in FileType /\ CleanFile(File(<<e>>))
    <2> HIDE DEF e
    <2>1. e \in EntryType /\ e.sim = FALSE
      BY <1>2 DEF e
    <2>. QED  BY <2>1, <1>1
  <1>. QED  BY <1>1, <1>3, <1>4, <1>5

LEMMA NoSceneFits ==
  /\ Shape(NoScene) /\ Fits(NoScene) /\ Live(NoScene) = {} /\ NoScene.path = "" /\ NoScene.phys = FALSE
  /\ NoScene.player = 0 /\ Clean(NoScene)
  <1>1. NoScene.world = <<>> /\ DOMAIN <<>> = {}
    BY DEF NoScene
  <1>2. Live(NoScene) = {} /\ Objects(NoScene) = {}
    BY <1>1 DEF Live, Objects
  <1>3. <<>> \in Worlds
    <2> DEFINE w == <<>>
    <2>1. w \in [{} -> ObjectType] /\ {} \in SUBSET Ids
      OBVIOUS
    <2>. QED  BY <2>1, WorldIs
  <1>4. NoScene \in Scenes
    <2>1. [e \in Ids |-> 0] \in [Ids -> Int]
      OBVIOUS
    <2>. QED  BY <1>3, <2>1, FilesType DEF NoScene, Scenes, PathNames
  <1>5. Owned(NoScene)
    BY <1>2 DEF Owned, HasBody, NoScene
  <1>6. Shape(NoScene)
    BY <1>2, <1>4, <1>5 DEF Shape, NoScene
  <1>7. Fits(NoScene)
    BY <1>2, FS_EmptySet, Bounds DEF Fits
  <1>. QED  BY <1>2, <1>6, <1>7 DEF NoScene, Clean

LEMMA InitOK ==
  ASSUME Init
  PROVE  StudioInv
  <1>1. FilesOK /\ \A p \in Paths : CleanFile(files[p])
    BY FilesType DEF Init, FilesOK
  <1>2. ui \in Contexts
    BY DEF Init, NoContext, Contexts, PathNames
  <1>3. PathOK(sc, files)
    <2>1. "" # Temp
      BY StudioAssumption, Zenon DEF StudioAssumption, Paths
    <2>. QED  BY <2>1, NoSceneFits DEF Init, PathOK
  <1>4. EditorOK
    BY <1>1, <1>2, <1>3, NoSceneFits DEF Init, EditorOK
  <1>5. Shown(sc, ui.selection) /\ Clean(sc)
    BY NoSceneFits DEF Init, Shown
  <1>6. \A o \in ui.clip : o.sim = FALSE
    BY DEF Init, NoContext
  <1>. QED  BY <1>1, <1>4, <1>5, <1>6 DEF StudioInv, EditsAreClean

-----------------------------------------------------------------------------
(* One lemma for each action.                                               *)

LEMMA BootStep ==
  ASSUME StudioInv, Boot
  PROVE  StudioInv'
  <1> DEFINE loaded == IF files[Main].state = "good" THEN Load(sc, Main, files[Main], 0)
                       ELSE Create(sc, NewId(sc, 0), Cube(FALSE))
             n == [e \in Ids |-> IF HasBody(loaded, e) THEN loaded.inWorld[e] + 1 ELSE loaded.inWorld[e]]
             added == [loaded EXCEPT !.phys = TRUE, !.inWorld = n]
             p == NewId(added, 0)
             o == [Player EXCEPT !.scr = TRUE]
             made == Create(added, p, o)
  <1>1. sc = NoScene /\ ui = NoContext /\ was = FALSE /\ ui.testing = FALSE /\ ui.selection = 0
    <2>1. EditorOK /\ step = "boot"
      BY DEF StudioInv, Boot
    <2>2. sc = NoScene /\ ui = NoContext /\ was = FALSE
      BY <2>1 DEF EditorOK
    <2>3. NoContext.testing = FALSE /\ NoContext.selection = 0
      BY DEF NoContext
    <2>. QED  BY <2>2, <2>3
  <1>2. Shape(sc) /\ Fits(sc) /\ FilesOK /\ Live(sc) = {} /\ sc.path = "" /\ Clean(sc) /\ sc.phys = FALSE
        /\ sc.player = 0
    BY <1>1, NoSceneFits DEF StudioInv, EditorOK
  <1>3. Main \in Paths /\ Main \in PathNames /\ files[Main] \in FileType
    BY <1>2 DEF Paths, PathNames, FilesOK
  <1>4. /\ Shape(loaded) /\ Fits(loaded) /\ loaded.phys = FALSE /\ loaded.player = 0
        /\ loaded.path \in {"", Main}
        /\ loaded.path # "" => files[Main].state = "good"
        /\ (\A q \in Paths : CleanFile(files[q])) => Clean(loaded)
    <2>1. CASE files[Main].state = "good"
      <3> DEFINE f == files[Main]
                 t == Load(sc, Main, f, 0)
      <3>1. f \in FileType /\ f.state = "good"
        BY <1>3, <2>1
      <3>2. loaded = t /\ t.player = sc.player
        <4>1. Built(Teardown(sc), f.objects, 0).player = sc.player
          <5> DEFINE d == Teardown(sc)
                     q == f.objects
          <5>1. Shape(d) /\ Live(d) \subseteq {d.player} /\ d.player = sc.player
            BY <1>2, TeardownLeaves
          <5>2. q \in Seq(EntryType) /\ Len(q) <= MaxObjects
            BY <3>1 DEF FileType
          <5> HIDE DEF d, q
          <5>3. Built(d, q, 0).player = d.player
            BY <5>1, <5>2, BuiltMakes
          <5>. QED  BY <5>1, <5>3 DEF d, q
        <4>2. t = [Built(Teardown(sc), f.objects, 0) EXCEPT !.initial = f, !.path = Main, !.stale = FALSE]
          BY <3>1 DEF Load
        <4>3. \A b : [b EXCEPT !.initial = f, !.path = Main, !.stale = FALSE].player = b.player
          OBVIOUS
        <4>. QED  BY <2>1, <4>1, <4>2, <4>3
      <3> HIDE DEF f
      <3>3. /\ Shape(t) /\ Fits(t) /\ t.phys = sc.phys /\ t.path = Main
            /\ CleanFile(f) => Clean(t)
        <4>1. Shape(sc) /\ Fits(sc) /\ Main \in PathNames
          BY <1>2, <1>3
        <4>. QED  BY <3>1, <4>1, LoadGives
      <3>. QED  BY <1>2, <1>3, <2>1, <3>2, <3>3 DEF f
    <2>2. CASE files[Main].state # "good"
      <3> DEFINE c == Cube(FALSE)
                 t == Create(sc, NewId(sc, 0), c)
      <3>1. c \in ObjectType /\ c.sim = FALSE
        BY DEF Cube, Object, ObjectType, Kinds
      <3>2. HasRoom(sc, 0)
        <4>1. IsFiniteSet(Unused(sc, 0)) /\ Cardinality(Unused(sc, 0)) >= MaxObjects
          BY <1>2, HandlesLeft
        <4>2. Cardinality({}) = 0 /\ ~(0 >= MaxObjects)
          BY Bounds, FS_EmptySet
        <4>3. Unused(sc, 0) # {}
          BY <4>1, <4>2
        <4>4. Objects(sc) = {}
          BY <1>2 DEF Objects
        <4>. QED  BY <4>2, <4>3, <4>4, Bounds DEF HasRoom
      <3> HIDE DEF c
      <3>3. Shape(t) /\ Fits(t) /\ Keeps(sc, t) /\ Clean(t)
        BY <1>2, <3>1, <3>2, SpawnGives
      <3>4. t.player = sc.player
        <4>1. NewId(sc, 0) \in Ids \ Live(sc)
          BY <3>2 DEF HasRoom, NewId, Unused
        <4> DEFINE e == NewId(sc, 0)
        <4>2. e \in Ids \ Live(sc) /\ Shape(sc)
          BY <1>2, <4>1
        <4> HIDE DEF e
        <4>3. Create(sc, e, c).player = sc.player
          BY <3>1, <4>2, CreateMakes
        <4>. QED  BY <4>3 DEF e
      <3>. QED  BY <1>2, <2>2, <3>3, <3>4 DEF Keeps, c
    <2>. QED  BY <2>1, <2>2
  <1> HIDE DEF loaded
  <1>5. loaded \in Scenes /\ Live(loaded) \subseteq Ids /\ 0 \notin Live(loaded)
    BY <1>4, WorldHas DEF Shape
  <1>6. n \in [Ids -> Int]
    BY <1>5 DEF Scenes
  <1>7. \A e \in Ids : n[e] = IF HasBody(loaded, e) THEN 1 ELSE 0
    <2>1. TAKE e \in Ids
    <2>2. loaded.inWorld[e] = 0
      BY <1>4 DEF Shape, Owned
    <2>3. n[e] = IF HasBody(loaded, e) THEN loaded.inWorld[e] + 1 ELSE loaded.inWorld[e]
      OBVIOUS
    <2> HIDE DEF n
    <2>. QED  BY <2>2, <2>3
  <1> HIDE DEF n
  <1>8. /\ added \in Scenes /\ added.world = loaded.world /\ added.inWorld = n /\ added.phys = TRUE
        /\ added.player = 0 /\ added.path = loaded.path /\ added.tagged = loaded.tagged
        /\ added.compiled = loaded.compiled
    BY <1>4, <1>5, <1>6 DEF Scenes
  <1> HIDE DEF added
  <1>9. Live(added) = Live(loaded) /\ Objects(added) = Objects(loaded) /\ Live(added) = Objects(added)
    BY <1>4, <1>5, <1>8 DEF Live, Objects
  <1>10. Shape(added)
    <2>1. Owned(added)
      BY <1>7, <1>8, <1>9 DEF Owned, HasBody
    <2>. QED  BY <1>4, <1>8, <1>9, <2>1 DEF Shape
  <1>11. p \in Ids /\ p \notin Live(added) /\ p # 0
    <2>1. IsFiniteSet(Ids) /\ Cardinality(Ids) \in Nat /\ Cardinality(Ids) >= MaxObjects + 2 /\ 0 \notin Ids
      BY StudioAssumption, FS_CardinalityType DEF StudioAssumption
    <2>2. Unused(added, 0) # {}
      <3> SUFFICES ASSUME Unused(added, 0) = {} PROVE FALSE
        OBVIOUS
      <3>1. Live(added) = Ids
        BY <1>5, <1>9, <2>1 DEF Unused
      <3>2. Cardinality(Ids) <= MaxObjects
        BY <1>4, <1>9, <3>1 DEF Fits
      <3>. QED  BY <2>1, <3>2, Bounds
    <2>3. p \in Unused(added, 0)
      BY <2>2 DEF NewId
    <2>. QED  BY <2>1, <2>3 DEF Unused
  <1> HIDE DEF p
  <1>12. o \in ObjectType
    BY DEF Player, EmptyObject, ObjectType, Kinds
  <1> HIDE DEF o
  <1>13. /\ Shape(made) /\ Keeps(added, made) /\ made.player = 0 /\ Live(made) = Live(added) \cup {p}
         /\ \A x \in Live(added) : made.world[x] = added.world[x]
    BY <1>8, <1>10, <1>11, <1>12, CreateMakes
  <1> HIDE DEF made
  <1>14. sc' = [made EXCEPT !.player = p]
    BY DEF Boot, made, o, p, added, n, loaded
  <1>15. made \in Scenes
    BY <1>13 DEF Shape
  <1>16. /\ sc' \in Scenes /\ sc'.world = made.world /\ sc'.inWorld = made.inWorld /\ sc'.phys = made.phys
         /\ sc'.player = p /\ sc'.path = made.path /\ sc'.tagged = made.tagged /\ sc'.compiled = made.compiled
    BY <1>11, <1>14, <1>15 DEF Scenes
  <1>17. Live(sc') = Live(made)
    BY <1>16 DEF Live
  <1>18. Shape(sc')
    <2>1. Owned(sc')
      BY <1>13, <1>16, <1>17 DEF Shape, Owned, HasBody
    <2>. QED  BY <1>13, <1>16, <1>17, <2>1 DEF Shape
  <1>19. Objects(sc') = Objects(added)
    BY <1>9, <1>11, <1>13, <1>16, <1>17 DEF Objects
  <1>20. Fits(sc')
    BY <1>4, <1>9, <1>19 DEF Fits
  <1>21. Clean(loaded) => Clean(sc')
    BY <1>8, <1>9, <1>13, <1>16, <1>19 DEF Clean
  <1>22. sc'.path \in {"", Main} /\ (sc'.path # "" => files[Main].state = "good") /\ sc'.phys = TRUE
    BY <1>4, <1>8, <1>13, <1>16 DEF Keeps
  <1>23. PathOK(sc', files')
    <2>1. "" # Temp /\ Main # Temp
      BY StudioAssumption, Zenon DEF StudioAssumption, Paths
    <2>2. files' = files
      BY DEF Boot
    <2>. QED  BY <1>22, <2>1, <2>2 DEF PathOK
  <1>24. UNCHANGED <<files, ui, was, stuck>> /\ step' = "panels"
    BY DEF Boot
  <1>25. EditorOK'
    <2>1. FilesOK' /\ ui' \in Contexts /\ was' \in BOOLEAN /\ stuck' \in BOOLEAN
      BY <1>2, <1>24 DEF FilesOK, StudioInv, EditorOK
    <2>. QED  BY <1>1, <1>18, <1>20, <1>22, <1>23, <1>24, <2>1 DEF EditorOK
  <1>26. Shown(sc', ui'.selection)
    BY <1>1, <1>18, <1>24, WorldHas DEF Shape, Shown
  <1>27. EditsAreClean'
    BY <1>4, <1>21, <1>24 DEF StudioInv, EditsAreClean
  <1>. QED  BY <1>25, <1>26, <1>27 DEF StudioInv

\* One scene after another, as long as each keeps what a frame must keep.
LEMMA RunsOn ==
  ASSUME NEW s, NEW t, NEW u, NEW h, Runs(s, t, h), Runs(t, u, h)
  PROVE  Runs(s, u, h)
  BY DEF Runs, Keeps

LEMMA FrameStep ==
  ASSUME StudioInv, Frame
  PROVE  StudioInv'
  <1> DEFINE first == CheckReload(sc, ui.selection)
             edge == ui.testing # was
             held == IF edge THEN EdgeCleared(ui.selection) ELSE ui.selection
             second == IF ~edge THEN first
                       ELSE IF ui.testing THEN EnterTest(first) ELSE LeaveTest(first, held)
             third(b) == IF b THEN ReloadScripts(ForceReload(second, held)) ELSE second
  <1>1. /\ Shape(sc) /\ Fits(sc) /\ FilesOK /\ PathOK(sc, files) /\ ui \in Contexts /\ was \in BOOLEAN
        /\ stuck \in BOOLEAN /\ step = "frame" /\ sc.phys = TRUE /\ Shown(sc, ui.selection)
    <2>1. EditorOK /\ step = "frame" /\ Shown(sc, ui.selection)
      BY DEF StudioInv, Frame
    <2>2. sc.phys \in BOOLEAN
      BY <2>1 DEF EditorOK, Shape, Scenes
    <2>. QED  BY <2>1, <2>2 DEF EditorOK
  <1> DEFINE Picked(fourth) ==
          /\ sc' \in IF ui.testing THEN ApplyPendingReset(fourth, held) ELSE {fourth}
          /\ files' = IF ui.testing /\ fourth.asked /\ fourth.initial # Absent
                      THEN [files EXCEPT ![Temp] = Absent] ELSE files
          /\ ui' = [ui EXCEPT !.selection = held]
          /\ stuck' = (stuck \/ (edge /\ ~ui.testing /\ (~Watched(first) \/ files[first.path].state = "broken")))
          /\ was' = ui.testing /\ step' = "panels"
  <1>a. PICK pressed \in {FALSE} \cup (IF ui.testing /\ events < MaxEvents THEN {TRUE} ELSE {}) :
           \E fourth \in IF ui.testing THEN Simulated(third(pressed), held) ELSE {third(pressed)} : Picked(fourth)
    BY DEF Frame
  <1>b. PICK fourth \in IF ui.testing THEN Simulated(third(pressed), held) ELSE {third(pressed)} : Picked(fourth)
    BY <1>a
  <1>2. pressed \in {FALSE} \cup (IF ui.testing /\ events < MaxEvents THEN {TRUE} ELSE {}) /\ Picked(fourth)
        /\ fourth \in IF ui.testing THEN Simulated(third(pressed), held) ELSE {third(pressed)}
    BY <1>a, <1>b
  <1>3. /\ Runs(sc, first, ui.selection)
        /\ Clean(sc) /\ (\A q \in Paths : CleanFile(files[q])) => Clean(first)
    <2>1. Reloads(sc, first, ui.selection)
      BY <1>1, CheckReloadGives
    <2>. QED  BY <2>1 DEF Reloads, Runs, Keeps
  <1> HIDE DEF first
  <1>4. held \in {0} \cup Ids /\ (edge => held = 0) /\ (~edge => held = ui.selection)
    BY <1>1 DEF Contexts, EdgeCleared
  <1> HIDE DEF held
  <1>5. ASSUME NEW t, Shape(t) PROVE Shown(t, 0)
    BY <1>5, WorldHas DEF Shape, Shown
  <1>6. /\ Shape(second) /\ Fits(second) /\ Keeps(sc, second) /\ Shown(second, held)
        /\ edge /\ ~ui.testing /\ Watched(first) /\ files[first.path].state = "good" /\ CleanFile(files[first.path])
              => Clean(second)
        /\ ~edge => second = first
    <2>0. Shape(first) /\ Fits(first) /\ Keeps(sc, first)
      BY <1>3 DEF Runs
    <2>1. CASE ~edge
      BY <1>1, <1>3, <1>4, <2>1 DEF Runs
    <2>2. CASE edge /\ ui.testing
      <3>1. second = EnterTest(first)
        BY <2>2
      <3> HIDE DEF second
      <3>2. Shape(second) /\ Fits(second) /\ Keeps(first, second)
        BY <2>0, <3>1, EnterTestGives
      <3>3. Shown(second, held)
        BY <1>4, <1>5, <2>2, <3>2
      <3>. QED  BY <2>0, <2>2, <3>2, <3>3 DEF Keeps
    <2>3. CASE edge /\ ~ui.testing
      <3>1. second = LeaveTest(first, held)
        BY <2>3
      <3> HIDE DEF second
      <3>2. /\ Shape(second) /\ Fits(second) /\ second.phys = first.phys /\ second.path = first.path
            /\ Watched(first) /\ files[first.path].state = "good" /\ CleanFile(files[first.path]) => Clean(second)
        <4>1. FilesOK
          BY <1>1
        <4>2. Left(first, LeaveTest(first, held))
          BY <4>1, <2>0, LeaveTestGives
        <4>. QED  BY <3>1, <4>2 DEF Left, Keeps
      <3>3. Shown(second, held)
        BY <1>4, <1>5, <2>3, <3>2
      <3>. QED  BY <2>0, <2>3, <3>2, <3>3 DEF Keeps
    <2>. QED  BY <2>1, <2>2, <2>3
  <1> HIDE DEF second
  <1>7. ASSUME NEW b \in BOOLEAN
        PROVE  Runs(second, third(b), held)
    <2> DEFINE r == ForceReload(second, held)
               t == ReloadScripts(r)
    <2>1. Reloads(second, r, held)
      BY <1>1, <1>6, ForceReloadGives
    <2>2. Runs(second, r, held)
      BY <2>1 DEF Reloads, Runs, Keeps
    <2> HIDE DEF r
    <2>3. Shape(t) /\ Still(r, t) /\ Keeps(r, t)
      BY <2>2, ReloadScriptsFits DEF Runs
    <2> HIDE DEF t
    <2>4. Runs(r, t, held)
      BY <2>2, <2>3, StillRuns DEF Runs
    <2>5. Runs(second, t, held)
      BY <2>2, <2>4, RunsOn
    <2>6. Runs(second, second, held)
      BY <1>6 DEF Runs, Keeps
    <2>. QED  BY <2>5, <2>6 DEF t, r
  <1> DEFINE u == third(pressed)
  <1>8. Runs(second, u, held)
    <2>1. pressed \in BOOLEAN
      BY <1>2
    <2>. QED  BY <1>7, <2>1
  <1>9. ~ui.testing => u = second
    BY <1>2
  <1>10. /\ ui.testing => fourth \in Simulated(u, held) /\ sc' \in ApplyPendingReset(fourth, held)
         /\ ~ui.testing => fourth = u /\ sc' = u
    BY <1>2
  <1> HIDE DEF u, third
  <1>11. Runs(u, fourth, held)
    <2>1. CASE ui.testing
      BY <1>8, <1>10, <2>1, SimulatedRuns DEF Runs
    <2>2. CASE ~ui.testing
      BY <1>8, <1>10, <2>2 DEF Runs, Keeps
    <2>. QED  BY <2>1, <2>2
  <1>12. Runs(fourth, sc', held)
    <2>1. CASE ui.testing
      <3>1. Shape(fourth) /\ Fits(fourth)
        BY <1>11 DEF Runs
      <3> DEFINE t == sc'
      <3>2. t \in ApplyPendingReset(fourth, held)
        BY <1>10, <2>1
      <3> HIDE DEF t
      <3>3. Runs(fourth, t, held)
        BY <1>1, <3>1, <3>2, ApplyPendingResetGives
      <3>. QED  BY <3>3 DEF t
    <2>2. CASE ~ui.testing
      BY <1>10, <1>11, <2>2 DEF Runs, Keeps
    <2>. QED  BY <2>1, <2>2
  <1>13. /\ Shape(sc') /\ Fits(sc') /\ sc'.phys = sc.phys /\ sc'.path = sc.path /\ Shown(sc', held)
    BY <1>6, <1>8, <1>11, <1>12 DEF Runs, Keeps
  <1>14. /\ files' \in [Paths -> FileType]
         /\ \A q \in Paths : files'[q] = files[q] \/ (q = Temp /\ files'[q] = Absent)
    BY <1>1, <1>2, FilesType DEF FilesOK
  <1>15. PathOK(sc', files')
    <2>1. sc.path \in PathNames
      BY <1>1 DEF Shape, Scenes
    <2>. QED  BY <1>1, <1>13, <1>14, <2>1 DEF PathOK, PathNames
  <1>16. ui' \in Contexts /\ ui'.selection = held /\ ui'.testing = ui.testing /\ ui'.clip = ui.clip
    BY <1>1, <1>2, <1>4 DEF Contexts
  <1>17. EditorOK'
    <2>1. FilesOK' /\ was' \in BOOLEAN /\ stuck' \in BOOLEAN /\ step' = "panels" /\ was' = ui'.testing
      <3>1. ui.testing \in BOOLEAN
        BY <1>1 DEF Contexts
      <3>. QED  BY <1>1, <1>2, <1>14, <1>16, <3>1 DEF FilesOK
    <2>. QED  BY <1>1, <1>13, <1>15, <1>16, <2>1 DEF EditorOK
  <1>18. Shown(sc', ui'.selection)
    BY <1>13, <1>16
  <1>19. EditsAreClean'
    <2> SUFFICES ASSUME ~stuck'
                 PROVE  /\ \A q \in Paths : CleanFile(files'[q])
                        /\ \A o \in ui'.clip : o.sim = FALSE
                        /\ ui'.testing = FALSE => Clean(sc')
      BY DEF EditsAreClean
    <2>1. ~stuck /\ ~(edge /\ ~ui.testing /\ (~Watched(first) \/ files[first.path].state = "broken"))
      BY <1>2
    <2>2. /\ \A q \in Paths : CleanFile(files[q])
          /\ \A o \in ui.clip : o.sim = FALSE
          /\ ui.testing = FALSE /\ was = FALSE => Clean(sc)
      BY <2>1 DEF StudioInv, EditsAreClean
    <2>3. \A q \in Paths : CleanFile(files'[q])
      BY <1>14, <2>2, FilesType
    <2>4. ASSUME ui.testing = FALSE PROVE Clean(sc')
      <3>1. sc' = second
        BY <1>9, <1>10, <2>4
      <3>2. CASE edge
        <4>1. Watched(first) /\ files[first.path].state # "broken"
          BY <2>1, <2>4, <3>2
        <4>2. first.path \in Paths /\ files[first.path].state # "absent"
          <5>1. first.path \in PathNames /\ first.path # ""
            BY <1>3, <4>1 DEF Runs, Shape, Scenes, Watched
          <5>. QED  BY <4>1, <5>1 DEF PathNames, Watched
        <4>3. files[first.path].state = "good"
          <5>1. files[first.path] \in FileType
            BY <1>1, <4>2 DEF FilesOK
          <5>. QED  BY <4>1, <4>2, <5>1 DEF FileType
        <4>. QED  BY <1>6, <2>2, <2>4, <3>1, <3>2, <4>1, <4>2, <4>3
      <3>3. CASE ~edge
        <4>1. was = FALSE
          BY <1>1, <2>4, <3>3
        <4>. QED  BY <1>3, <1>6, <2>2, <2>4, <3>1, <3>3, <4>1
      <3>. QED  BY <3>2, <3>3
    <2>. QED  BY <1>16, <2>2, <2>3, <2>4
  <1>. QED  BY <1>17, <1>18, <1>19 DEF StudioInv

-----------------------------------------------------------------------------
(* The panels: what every event keeps.                                      *)

\* An event of the editor leaves a scene like this, with a selection, a path and files in order.
Edited(s, t) == Shape(t) /\ Fits(t) /\ t.phys = s.phys /\ (Clean(s) => Clean(t))
FilesGo(fs, gs) ==
    /\ gs \in [Paths -> FileType]
    /\ \A q \in Paths : gs[q].state = "absent" => fs[q].state = "absent"

CleanNow ==
    /\ \A q \in Paths : CleanFile(files[q])
    /\ \A o \in ui.clip : o.sim = FALSE
    /\ Clean(sc)

LEMMA EventKeeps ==
  ASSUME StudioInv, Editing, Shape(sc'), Fits(sc'), sc'.phys = sc.phys, PathOK(sc', files'),
         Shown(sc', ui'.selection), FilesGo(files, files'), ui' \in Contexts, CleanNow => CleanNow'
  PROVE  StudioInv'
  <1>1. EditorOK /\ EditsAreClean
    BY DEF StudioInv
  <1>2. step = "panels" /\ step' = "frame" /\ was' = was /\ stuck' = stuck /\ ~ui.testing
    BY DEF Editing, Event
  <1>3. was = FALSE /\ ui.testing = FALSE /\ sc.phys
    <2>1. ui.testing \in BOOLEAN /\ was = ui.testing /\ sc.phys
      BY <1>1, <1>2 DEF EditorOK, Contexts
    <2>. QED  BY <1>2, <2>1
  <1>4. EditorOK'
    <2>1. FilesOK' /\ was' \in BOOLEAN /\ stuck' \in BOOLEAN
      BY <1>1, <1>2 DEF EditorOK, FilesGo, FilesOK
    <2>. QED  BY <1>2, <1>3, <2>1 DEF EditorOK
  <1>5. EditsAreClean'
    BY <1>1, <1>2, <1>3 DEF EditsAreClean, CleanNow
  <1>. QED  BY <1>4, <1>5 DEF StudioInv

\* What an event may assume.
LEMMA EditingHas ==
  ASSUME StudioInv
  PROVE  /\ Shape(sc) /\ Fits(sc) /\ FilesOK /\ PathOK(sc, files) /\ Shown(sc, ui.selection)
         /\ ui \in Contexts /\ ui.selection \in {0} \cup Ids /\ FilesGo(files, files)
  BY DEF StudioInv, EditorOK, FilesOK, FilesGo, Contexts

LEMMA EditedOn ==
  ASSUME NEW s, NEW t, NEW u, Edited(s, t), Edited(t, u)
  PROVE  Edited(s, u)
  BY DEF Edited

LEMMA ShrinksEdits ==
  ASSUME NEW s, Shape(s), Fits(s), NEW t, Shape(t), Keeps(s, t), Shrinks(s, t)
  PROVE  Edited(s, t)
  <1>1. s \in Scenes /\ t \in Scenes /\ Objects(t) \subseteq Live(t)
    BY DEF Shape, Objects
  <1>2. Fits(t) /\ (Clean(s) => Clean(t))
    BY <1>1, FewerFit, ShrinksKeeps
  <1>. QED  BY <1>2 DEF Edited, Keeps

\* setSelection marks what it is told to select.
LEMMA SelectGives ==
  ASSUME NEW s, Shape(s), Fits(s), Shown(s, ui.selection), NEW e \in {0} \cup Ids
  PROVE  LET t == Select(s, e)
         IN  /\ Shape(t) /\ Fits(t) /\ Edited(s, t) /\ t.path = s.path /\ Shown(t, e)
             /\ t.world = s.world /\ t.player = s.player
  <1>1. CASE ui.selection = e
    BY <1>1 DEF Select, Edited
  <1>2. CASE ui.selection # e
    <2> DEFINE t == SetSelected(s, e)
    <2>1. Shape(t) /\ Keeps(s, t) /\ Shrinks(s, t) /\ Shown(t, e) /\ t.world = s.world
      BY SetSelectedMarks
    <2>2. t.player = s.player
      BY DEF SetSelected, Shape, Scenes
    <2> HIDE DEF t
    <2>3. Edited(s, t)
      BY <2>1, ShrinksEdits
    <2>. QED  BY <1>2, <2>1, <2>2, <2>3 DEF Select, Edited, Keeps, t
  <1>. QED  BY <1>1, <1>2

\* Nothing is selected, and nothing needs to be shown.
LEMMA NothingShown ==
  ASSUME NEW s, Shape(s)
  PROVE  Shown(s, 0)
  BY WorldHas DEF Shape, Shown

\* A save puts a clean scene in a file.
LEMMA SavesClean ==
  ASSUME FilesOK, NEW s, Shape(s), Fits(s), NEW p \in Paths
  PROVE  LET fs == [files EXCEPT ![p] = Saved(s)]
         IN  /\ FilesGo(files, fs)
             /\ (\A q \in Paths : CleanFile(files[q])) /\ Clean(s) => \A q \in Paths : CleanFile(fs[q])
  <1>1. Saved(s) \in FileType /\ Saved(s).state = "good" /\ (Clean(s) => CleanFile(Saved(s)))
    BY SavedGives
  <1>. QED  BY <1>1 DEF FilesOK, FilesGo

\* The file of a scene stays where it is while files are only added.
LEMMA PathStays ==
  ASSUME NEW s \in Scenes, NEW t, t.path = s.path, NEW fs, NEW gs, PathOK(s, fs), FilesGo(fs, gs)
  PROVE  PathOK(t, gs)
  <1>1. s.path \in PathNames
    BY DEF Scenes
  <1>. QED  BY <1>1 DEF PathOK, FilesGo, PathNames

LEMMA TouchedFits ==
  ASSUME NEW s, Shape(s), Fits(s), NEW p
  PROVE  LET t == Touched(s, p)
         IN  /\ Shape(t) /\ Fits(t) /\ Edited(s, t) /\ t.path = s.path
             /\ \A h : Shown(s, h) <=> Shown(t, h)
             /\ Saved(t) = Saved(s)
  <1> DEFINE a == s.stale \/ s.path = p
             t == [s EXCEPT !.stale = a]
  <1>1. s \in Scenes
    BY DEF Shape
  <1>2. t = Touched(s, p)
    BY <1>1 DEF Touched, Scenes
  <1>3. a \in BOOLEAN
    BY <1>1 DEF Scenes
  <1> HIDE DEF a
  <1>4. Shape(t) /\ Still(s, t) /\ Keeps(s, t)
    BY <1>3, StaleFits
  <1> HIDE DEF t
  <1>5. t \in Scenes /\ t.compiled \subseteq Live(s)
    BY <1>4 DEF Shape, Still, Live
  <1>6. /\ Shrinks(s, t) /\ Objects(t) = Objects(s)
        /\ \A h : Shown(s, h) <=> Shown(t, h)
    BY <1>4, <1>5, StillFits
  <1>7. Edited(s, t)
    BY <1>4, <1>6, ShrinksEdits
  <1>8. Saved(t) = Saved(s)
    <2>1. Savable(t) = Savable(s) /\ t.world = s.world
      BY <1>4, <1>6 DEF Savable, Still
    <2>. QED  BY <2>1 DEF Saved
  <1>. QED  BY <1>2, <1>4, <1>6, <1>7, <1>8 DEF Edited, Keeps

\* Most events leave the files and the clipboard alone.
LEMMA SceneEvent ==
  ASSUME StudioInv, Editing, Edited(sc, sc'), sc'.path = sc.path, Shown(sc', ui'.selection),
         files' = files, ui' \in Contexts, ui'.clip = ui.clip
  PROVE  StudioInv'
  <1> DEFINE t == sc'
  <1>1. Shape(sc) /\ PathOK(sc, files) /\ FilesGo(files, files) /\ sc \in Scenes
    BY EditingHas DEF Shape
  <1> HIDE DEF t
  <1>2. t.path = sc.path
    BY DEF t
  <1>3. PathOK(t, files)
    BY <1>1, <1>2, PathStays
  <1>4. PathOK(sc', files') /\ FilesGo(files, files')
    BY <1>1, <1>3 DEF t
  <1>5. CleanNow => CleanNow'
    BY DEF CleanNow, Edited
  <1>6. Shape(sc') /\ Fits(sc') /\ sc'.phys = sc.phys
    BY DEF Edited
  <1>. QED  BY <1>4, <1>5, <1>6, EventKeeps

LEMMA SelectionIn ==
  ASSUME NEW c \in Contexts, NEW e \in {0} \cup Ids
  PROVE  LET d == [c EXCEPT !.selection = e] IN d \in Contexts /\ d.selection = e /\ d.clip = c.clip
  BY DEF Contexts

LEMMA PickEntityStep ==
  ASSUME StudioInv, PickEntity
  PROVE  StudioInv'
  <1>1. /\ Shape(sc) /\ Fits(sc) /\ Shown(sc, ui.selection) /\ ui \in Contexts
    BY EditingHas
  <1>2. PICK e \in Live(sc) \cup {0} : sc' = Select(sc, e) /\ ui' = [ui EXCEPT !.selection = e]
    BY DEF PickEntity
  <1>3. e \in {0} \cup Ids
    BY <1>1, <1>2, WorldHas DEF Shape
  <1> DEFINE t == Select(sc, e)
  <1>4. Edited(sc, t) /\ t.path = sc.path /\ Shown(t, e)
    BY <1>1, <1>3, SelectGives
  <1>5. ui' \in Contexts /\ ui'.selection = e /\ ui'.clip = ui.clip
    BY <1>1, <1>2, <1>3, SelectionIn
  <1>. QED  BY <1>2, <1>4, <1>5, SceneEvent DEF PickEntity

LEMMA StartTestingStep ==
  ASSUME StudioInv, StartTesting
  PROVE  StudioInv'
  <1>1. /\ Shape(sc) /\ Fits(sc) /\ FilesOK /\ PathOK(sc, files) /\ Shown(sc, ui.selection) /\ ui \in Contexts
        /\ FilesGo(files, files) /\ sc \in Scenes
    BY EditingHas DEF Shape
  <1>2. Editing /\ Main \in Paths /\ Main \in PathNames
    BY DEF StartTesting, Paths, PathNames
  <1>3. CASE sc' = Touched(sc, Main) /\ files' = [files EXCEPT ![Main] = Saved(sc)]
             /\ ui' = [ui EXCEPT !.saved = Main, !.testing = TRUE]
    <2> DEFINE t == Touched(sc, Main)
               fs == [files EXCEPT ![Main] = Saved(sc)]
    <2>1. Edited(sc, t) /\ t.path = sc.path /\ \A h : Shown(sc, h) <=> Shown(t, h)
      BY <1>1, TouchedFits
    <2>2. FilesGo(files, fs) /\ ((\A q \in Paths : CleanFile(files[q])) /\ Clean(sc) => \A q \in Paths : CleanFile(fs[q]))
      BY <1>1, <1>2, SavesClean
    <2> HIDE DEF t, fs
    <2>3. PathOK(t, fs)
      BY <1>1, <2>1, <2>2, PathStays
    <2>4. ui' \in Contexts /\ ui'.selection = ui.selection /\ ui'.clip = ui.clip
      BY <1>1, <1>2, <1>3 DEF Contexts
    <2>5. sc' = t /\ files' = fs
      BY <1>3 DEF t, fs
    <2>6. CleanNow => CleanNow'
      BY <2>1, <2>2, <2>4, <2>5 DEF CleanNow, Edited
    <2>. QED  BY <1>1, <1>2, <2>1, <2>2, <2>3, <2>4, <2>5, <2>6, EventKeeps DEF Edited
  <1>4. CASE ui' = [ui EXCEPT !.testing = TRUE] /\ UNCHANGED <<sc, files>>
    <2>1. ui' \in Contexts /\ ui'.selection = ui.selection /\ ui'.clip = ui.clip
      BY <1>1, <1>4 DEF Contexts
    <2>2. Edited(sc, sc)
      BY <1>1 DEF Edited
    <2>. QED  BY <1>1, <1>2, <1>4, <2>1, <2>2, SceneEvent
  <1>. QED  BY <1>3, <1>4 DEF StartTesting

LEMMA StopTestingStep ==
  ASSUME StudioInv, StopTesting
  PROVE  StudioInv'
  <1>1. EditorOK /\ Shown(sc, ui.selection) /\ EditsAreClean
    BY DEF StudioInv
  <1>2. /\ step = "panels" /\ step' = "frame" /\ UNCHANGED <<was, stuck, sc, files>>
        /\ ui' = [ui EXCEPT !.testing = FALSE] /\ ui.testing
    BY DEF StopTesting, Event
  <1>3. ui' \in Contexts /\ ui'.selection = ui.selection /\ ui'.clip = ui.clip /\ was = TRUE
    <2>1. ui \in Contexts /\ was = ui.testing /\ ui.testing \in BOOLEAN
      BY <1>1, <1>2 DEF EditorOK, Contexts
    <2>. QED  BY <1>2, <2>1 DEF Contexts
  <1>4. EditorOK'
    <2>1. FilesOK' /\ PathOK(sc, files)' /\ Shape(sc)' /\ Fits(sc)'
      BY <1>1, <1>2 DEF EditorOK, FilesOK, PathOK, Shape, Fits, Owned, HasBody, Live, Objects
    <2>. QED  BY <1>1, <1>2, <1>3, <2>1 DEF EditorOK
  <1>5. EditsAreClean'
    BY <1>1, <1>2, <1>3 DEF EditsAreClean
  <1>6. Shown(sc', ui'.selection)
    BY <1>1, <1>2, <1>3
  <1>. QED  BY <1>4, <1>5, <1>6 DEF StudioInv

LEMMA SaveSceneStep ==
  ASSUME StudioInv, SaveScene
  PROVE  StudioInv'
  <1>1. /\ Shape(sc) /\ Fits(sc) /\ FilesOK /\ PathOK(sc, files) /\ Shown(sc, ui.selection) /\ ui \in Contexts
        /\ sc \in Scenes
    BY EditingHas DEF Shape
  <1>2. Editing
    BY DEF SaveScene
  <1>3. PICK p \in {SavePath, IF ui.saved = "" THEN SavePath ELSE ui.saved} \cup SaveTargets :
           sc' = Touched(sc, p) /\ Save(p)
    BY DEF SaveScene
  <1>4. p \in Paths /\ p \in PathNames
    <2>1. SavePath \in Paths
      BY <1>1 DEF SavePath, Scenes, PathNames, Paths
    <2>. QED  BY <1>1, <1>3, <2>1 DEF Contexts, PathNames, Paths
  <1> DEFINE t == Touched(sc, p)
             fs == [files EXCEPT ![p] = Saved(t)]
  <1>5. Shape(t) /\ Fits(t) /\ Edited(sc, t) /\ t.path = sc.path /\ \A h : Shown(sc, h) <=> Shown(t, h)
    BY <1>1, TouchedFits
  <1>6. sc' = t /\ files' = fs /\ ui' = [ui EXCEPT !.saved = p]
    BY <1>3 DEF Save
  <1> HIDE DEF t
  <1>7. FilesGo(files, fs) /\ ((\A q \in Paths : CleanFile(files[q])) /\ Clean(t) => \A q \in Paths : CleanFile(fs[q]))
    BY <1>1, <1>4, <1>5, SavesClean
  <1> HIDE DEF fs
  <1>8. PathOK(t, fs)
    BY <1>1, <1>5, <1>7, PathStays
  <1>9. ui' \in Contexts /\ ui'.selection = ui.selection /\ ui'.clip = ui.clip
    BY <1>1, <1>4, <1>6 DEF Contexts
  <1>10. CleanNow => CleanNow'
    BY <1>5, <1>6, <1>7, <1>9 DEF CleanNow, Edited
  <1>. QED  BY <1>1, <1>2, <1>5, <1>6, <1>7, <1>8, <1>9, <1>10, EventKeeps DEF Edited

LEMMA ReloadSceneStep ==
  ASSUME StudioInv, ReloadScene
  PROVE  StudioInv'
  <1>1. /\ Shape(sc) /\ Fits(sc) /\ FilesOK /\ PathOK(sc, files) /\ Shown(sc, ui.selection) /\ ui \in Contexts
        /\ sc \in Scenes
    BY EditingHas DEF Shape
  <1>2. Editing /\ files' = files /\ ui' = [ui EXCEPT !.selection = 0]
    BY DEF ReloadScene
  <1>3. 0 \in {0} \cup Ids
    OBVIOUS
  <1> DEFINE u == Select(sc, 0)
             t == ForceReload(u, 0)
  <1>4. Shape(u) /\ Fits(u) /\ Edited(sc, u) /\ u.path = sc.path
    BY <1>1, <1>3, SelectGives
  <1>5. sc' = t
    BY DEF ReloadScene
  <1> HIDE DEF u
  <1>6. Reloads(u, t, 0)
    BY <1>1, <1>4, ForceReloadGives
  <1> HIDE DEF t
  <1>7. Shown(t, 0)
    BY <1>6, NothingShown DEF Reloads
  <1>8. ui' \in Contexts /\ ui'.selection = 0 /\ ui'.clip = ui.clip
    BY <1>1, <1>2, <1>3, SelectionIn
  <1>9. Shape(t) /\ Fits(t) /\ t.phys = sc.phys /\ t.path = sc.path
    BY <1>4, <1>6 DEF Reloads, Edited
  <1>10. PathOK(t, files) /\ FilesGo(files, files)
    BY <1>1, <1>9, EditingHas DEF PathOK
  \* Where the files are clean, so is what is loaded from one.
  <1>11. CleanNow => CleanNow'
    BY <1>2, <1>4, <1>5, <1>6, <1>8 DEF CleanNow, Edited, Reloads
  <1>. QED  BY <1>2, <1>5, <1>7, <1>8, <1>9, <1>10, <1>11, EventKeeps

LEMMA OpenSceneStep ==
  ASSUME StudioInv, OpenScene
  PROVE  StudioInv'
  <1>1. /\ Shape(sc) /\ Fits(sc) /\ FilesOK /\ Shown(sc, ui.selection) /\ ui \in Contexts /\ FilesGo(files, files)
    BY EditingHas
  <1>2. Editing /\ files' = files /\ ui' = [ui EXCEPT !.selection = 0]
    BY DEF OpenScene
  <1>3. PICK p \in Paths \ {Temp} :
           files[p].state = "good" /\ sc' = Select(Load(sc, p, files[p], ui.selection), 0)
    BY DEF OpenScene
  <1> DEFINE f == files[p]
             u == Load(sc, p, f, ui.selection)
             t == Select(u, 0)
  <1>4. f \in FileType /\ f.state = "good" /\ p \in PathNames /\ 0 \in {0} \cup Ids
    BY <1>1, <1>3 DEF FilesOK, PathNames
  <1>5. sc' = t
    BY <1>3
  <1>6. CleanNow => CleanFile(f)
    BY <1>3 DEF CleanNow
  <1> HIDE DEF f
  <1>7. /\ Shape(u) /\ Fits(u) /\ u.phys = sc.phys /\ Shown(u, ui.selection) /\ u.path = p
        /\ CleanFile(f) => Clean(u)
    BY <1>1, <1>4, LoadGives
  <1> HIDE DEF u
  <1>8. Shape(t) /\ Fits(t) /\ Edited(u, t) /\ t.path = p /\ Shown(t, 0)
    BY <1>4, <1>7, SelectGives
  <1> HIDE DEF t
  <1>9. ui' \in Contexts /\ ui'.selection = 0 /\ ui'.clip = ui.clip
    BY <1>1, <1>2, <1>4, SelectionIn
  <1>10. PathOK(t, files)
    BY <1>3, <1>4, <1>8 DEF PathOK, f
  <1>11. CleanNow => CleanNow'
    BY <1>2, <1>5, <1>6, <1>7, <1>8, <1>9 DEF CleanNow, Edited
  <1>. QED  BY <1>1, <1>2, <1>5, <1>7, <1>8, <1>9, <1>10, <1>11, EventKeeps DEF Edited

LEMMA PartsType ==
  /\ Cube(FALSE) \in ObjectType /\ Cube(FALSE).sim = FALSE
  /\ Static \in ObjectType /\ Static.sim = FALSE
  /\ EmptyObject \in ObjectType /\ EmptyObject.sim = FALSE
  /\ \A o \in ObjectType : Pasted(o) \in ObjectType /\ Pasted(o).sim = o.sim
  BY DEF Cube, Static, Object, EmptyObject, ObjectType, Kinds, Pasted, Entry

LEMMA SpawnObjectStep ==
  ASSUME StudioInv, SpawnObject
  PROVE  StudioInv'
  <1>1. /\ Shape(sc) /\ Fits(sc) /\ FilesOK /\ PathOK(sc, files) /\ Shown(sc, ui.selection) /\ ui \in Contexts
        /\ FilesGo(files, files) /\ sc \in Scenes
    BY EditingHas DEF Shape
  <1>2. Editing /\ HasRoom(sc, ui.selection) /\ ui' = ui
    BY DEF SpawnObject
  <1>3. Main \in Paths
    BY DEF Paths
  <1>4. PICK o \in {Cube(FALSE), Static} :
           \/ /\ sc' = Touched(Create(sc, NewId(sc, ui.selection), o), Main)
              /\ files' = [files EXCEPT ![Main] = Saved(sc')]
           \/ sc' = Create(sc, NewId(sc, ui.selection), o) /\ files' = files
    BY DEF SpawnObject
  <1>5. o \in ObjectType /\ o.sim = FALSE
    BY <1>4, PartsType
  <1> DEFINE u == Create(sc, NewId(sc, ui.selection), o)
             t == Touched(u, Main)
             fs == [files EXCEPT ![Main] = Saved(t)]
  <1>6. /\ Shape(u) /\ Fits(u) /\ Keeps(sc, u) /\ Shown(u, ui.selection) /\ (Clean(sc) => Clean(u))
    BY <1>1, <1>2, <1>5, SpawnGives
  <1>7. \/ sc' = t /\ files' = fs
        \/ sc' = u /\ files' = files
    BY <1>4
  <1> HIDE DEF u
  <1>8. CASE sc' = u /\ files' = files
    BY <1>1, <1>2, <1>6, <1>8, SceneEvent DEF Edited, Keeps
  <1>9. CASE sc' = t /\ files' = fs
    <2>1. Shape(t) /\ Fits(t) /\ Edited(u, t) /\ t.path = u.path /\ Shown(t, ui.selection)
      BY <1>6, TouchedFits
    <2> HIDE DEF t
    <2>2. FilesGo(files, fs) /\ ((\A q \in Paths : CleanFile(files[q])) /\ Clean(t) => \A q \in Paths : CleanFile(fs[q]))
      BY <1>1, <1>3, <2>1, SavesClean
    <2> HIDE DEF fs
    <2>3. t.path = sc.path /\ t.phys = sc.phys
      BY <1>6, <2>1 DEF Keeps, Edited
    <2>4. PathOK(t, fs)
      BY <1>1, <2>2, <2>3, PathStays
    <2>5. CleanNow => CleanNow'
      BY <1>2, <1>6, <1>9, <2>1, <2>2 DEF CleanNow, Edited
    <2>. QED  BY <1>1, <1>2, <1>9, <2>1, <2>2, <2>3, <2>4, <2>5, EventKeeps
  <1>. QED  BY <1>7, <1>8, <1>9

\* A new entity that is selected at once.
LEMMA NewSelected ==
  ASSUME StudioInv, Editing, HasRoom(sc, ui.selection), NEW o \in ObjectType,
         CleanNow => o.sim = FALSE,
         sc' = Select(Create(sc, NewId(sc, ui.selection), o), NewId(sc, ui.selection)),
         ui' = [ui EXCEPT !.selection = NewId(sc, ui.selection)], files' = files
  PROVE  StudioInv'
  <1>1. /\ Shape(sc) /\ Fits(sc) /\ PathOK(sc, files) /\ Shown(sc, ui.selection) /\ ui \in Contexts
        /\ FilesGo(files, files) /\ sc \in Scenes
    BY EditingHas DEF Shape
  <1> DEFINE e == NewId(sc, ui.selection)
             u == Create(sc, e, o)
             t == Select(u, e)
  <1>2. /\ e \in Ids /\ Shape(u) /\ Fits(u) /\ Keeps(sc, u) /\ Shown(u, ui.selection)
        /\ Clean(sc) /\ o.sim = FALSE => Clean(u)
    BY <1>1, SpawnGives
  <1>3. sc' = t /\ ui' = [ui EXCEPT !.selection = e]
    OBVIOUS
  <1> HIDE DEF e, u
  <1>4. e \in {0} \cup Ids
    BY <1>2
  <1>5. Shape(t) /\ Fits(t) /\ Edited(u, t) /\ t.path = u.path /\ Shown(t, e)
    BY <1>2, <1>4, SelectGives
  <1> HIDE DEF t
  <1>6. ui' \in Contexts /\ ui'.selection = e /\ ui'.clip = ui.clip
    BY <1>1, <1>3, <1>4 DEF Contexts
  <1>7. t.path = sc.path /\ t.phys = sc.phys
    BY <1>2, <1>5 DEF Keeps, Edited
  <1>8. PathOK(t, files)
    BY <1>1, <1>7, PathStays
  <1>9. CleanNow => CleanNow'
    BY <1>2, <1>3, <1>5, <1>6 DEF CleanNow, Edited
  <1>. QED  BY <1>1, <1>3, <1>5, <1>6, <1>7, <1>8, <1>9, EventKeeps

LEMMA SpawnEmptyStep ==
  ASSUME StudioInv, SpawnEmpty
  PROVE  StudioInv'
  <1> DEFINE o == EmptyObject
  <1>1. o \in ObjectType /\ o.sim = FALSE
    BY PartsType
  <1>2. /\ Editing /\ HasRoom(sc, ui.selection) /\ files' = files
        /\ sc' = Select(Create(sc, NewId(sc, ui.selection), o), NewId(sc, ui.selection))
        /\ ui' = [ui EXCEPT !.selection = NewId(sc, ui.selection)]
    BY DEF SpawnEmpty
  <1> HIDE DEF o
  <1>. QED  BY <1>1, <1>2, NewSelected

LEMMA CopyObjectStep ==
  ASSUME StudioInv, CopyObject
  PROVE  StudioInv'
  <1>1. /\ Shape(sc) /\ Fits(sc) /\ PathOK(sc, files) /\ Shown(sc, ui.selection) /\ ui \in Contexts
        /\ FilesGo(files, files) /\ sc \in Scenes
    BY EditingHas DEF Shape
  <1>2. PICK e \in Objects(sc) : ui' = [ui EXCEPT !.clip = {sc.world[e]}]
    BY DEF CopyObject
  <1>3. Editing /\ sc' = sc /\ files' = files
    BY DEF CopyObject
  <1>4. sc.world[e] \in ObjectType
    BY <1>1, <1>2, WorldHas DEF Objects
  <1>5. ui' \in Contexts /\ ui'.selection = ui.selection /\ ui'.clip = {sc.world[e]}
    BY <1>1, <1>2, <1>4 DEF Contexts
  <1>6. CleanNow => CleanNow'
    <2>1. sc.world[e].sim \in BOOLEAN
      BY <1>4 DEF ObjectType
    <2>2. ASSUME CleanNow PROVE sc.world[e].sim = FALSE
      BY <1>2, <2>1, <2>2, Zenon DEF CleanNow, Clean
    <2>. QED  BY <1>3, <1>5, <2>2 DEF CleanNow
  <1>. QED  BY <1>1, <1>3, <1>5, <1>6, EventKeeps

LEMMA PasteObjectStep ==
  ASSUME StudioInv, PasteObject
  PROVE  StudioInv'
  <1>1. ui \in Contexts
    BY EditingHas
  <1>2. PICK c \in ui.clip : PasteInto(sc, c)
    BY DEF PasteObject
  <1> DEFINE o == Pasted(c)
  <1>3. o \in ObjectType /\ o.sim = c.sim
    BY <1>1, <1>2, PartsType DEF Contexts
  <1>4. /\ Editing /\ HasRoom(sc, ui.selection) /\ files' = files
        /\ sc' = Select(Create(sc, NewId(sc, ui.selection), o), NewId(sc, ui.selection))
        /\ ui' = [ui EXCEPT !.selection = NewId(sc, ui.selection)]
    BY <1>2 DEF PasteObject, PasteInto
  <1> HIDE DEF o
  <1>5. CleanNow => o.sim = FALSE
    BY <1>2, <1>3 DEF CleanNow
  <1>. QED  BY <1>3, <1>4, <1>5, NewSelected

LEMMA DuplicateObjectStep ==
  ASSUME StudioInv, DuplicateObject
  PROVE  StudioInv'
  <1>1. PICK e \in Objects(sc) : PasteInto(sc, sc.world[e])
    BY DEF DuplicateObject
  <1> DEFINE c == sc.world[e]
             o == Pasted(c)
  <1>2. c \in ObjectType
    BY <1>1, EditingHas, WorldHas DEF Objects, Shape
  <1>3. CleanNow => c.sim = FALSE
    <2>1. c.sim \in BOOLEAN
      BY <1>2 DEF ObjectType
    <2>. QED  BY <1>1, <2>1, Zenon DEF CleanNow, Clean
  <1>4. /\ Editing /\ HasRoom(sc, ui.selection) /\ files' = files
        /\ sc' = Select(Create(sc, NewId(sc, ui.selection), o), NewId(sc, ui.selection))
        /\ ui' = [ui EXCEPT !.selection = NewId(sc, ui.selection)]
    BY <1>1 DEF DuplicateObject, PasteInto
  <1> HIDE DEF c
  <1>5. o \in ObjectType /\ o.sim = c.sim
    BY <1>2, PartsType
  <1> HIDE DEF o
  <1>. QED  BY <1>3, <1>4, <1>5, NewSelected

\* A method that only takes away, called for an event.
LEMMA Takes ==
  ASSUME NEW s, Shape(s), Fits(s), NEW t, Shape(t), Keeps(s, t), Shrinks(s, t), KeepsTags(s, t), NEW h, Shown(s, h)
  PROVE  Edited(s, t) /\ t.path = s.path /\ Shown(t, h)
  BY ShrinksRuns DEF Runs, Edited, Keeps

LEMMA DeleteRowStep ==
  ASSUME StudioInv, DeleteRow
  PROVE  StudioInv'
  <1>1. /\ Shape(sc) /\ Fits(sc) /\ Shown(sc, ui.selection) /\ ui \in Contexts /\ ui.selection \in {0} \cup Ids
    BY EditingHas
  <1>2. PICK e \in Objects(sc) :
           /\ sc' = Destroy(IF ui.selection = e THEN Select(sc, 0) ELSE sc, e)
           /\ ui' = IF ui.selection = e THEN [ui EXCEPT !.selection = 0] ELSE ui
    BY DEF DeleteRow
  <1>3. Editing /\ files' = files /\ 0 \in {0} \cup Ids
    BY DEF DeleteRow
  <1> DEFINE u == Select(sc, 0)
  <1>4. Shape(u) /\ Fits(u) /\ Edited(sc, u) /\ u.path = sc.path /\ Shown(u, 0)
    BY <1>1, <1>3, SelectGives
  <1> HIDE DEF u
  <1>5. CASE ui.selection = e
    <2> DEFINE t == Destroy(u, e)
    <2>1. Shape(t) /\ Keeps(u, t) /\ Shrinks(u, t) /\ KeepsTags(u, t)
      BY <1>4, DestroyTakes
    <2>2. sc' = t
      BY <1>2, <1>5 DEF u
    <2> HIDE DEF t
    <2>3. Edited(u, t) /\ t.path = u.path /\ Shown(t, 0)
      BY <1>4, <2>1, Takes
    <2>4. ui' \in Contexts /\ ui'.selection = 0 /\ ui'.clip = ui.clip
      BY <1>1, <1>2, <1>5 DEF Contexts
    <2>5. Edited(sc, t)
      BY <1>4, <2>3, EditedOn
    <2>. QED  BY <1>3, <1>4, <2>2, <2>3, <2>4, <2>5, SceneEvent
  <1>6. CASE ui.selection # e
    <2> DEFINE t == Destroy(sc, e)
    <2>1. Shape(t) /\ Keeps(sc, t) /\ Shrinks(sc, t) /\ KeepsTags(sc, t)
      BY <1>1, DestroyTakes
    <2>2. sc' = t /\ ui' = ui
      BY <1>2, <1>6
    <2> HIDE DEF t
    <2>3. Edited(sc, t) /\ t.path = sc.path /\ Shown(t, ui.selection)
      BY <1>1, <2>1, Takes
    <2>. QED  BY <1>1, <1>3, <2>2, <2>3, SceneEvent
  <1>. QED  BY <1>5, <1>6

LEMMA DeleteSelectedStep ==
  ASSUME StudioInv, DeleteSelected
  PROVE  StudioInv'
  <1>1. /\ Shape(sc) /\ Fits(sc) /\ Shown(sc, ui.selection) /\ ui \in Contexts
    BY EditingHas
  <1> DEFINE u == Select(sc, 0)
             t == IF ui.selection = sc.player THEN RemovePlayer(u) ELSE Destroy(u, ui.selection)
  <1>2. Editing /\ files' = files /\ sc' = t /\ ui' = [ui EXCEPT !.selection = 0]
    BY DEF DeleteSelected
  <1>3. 0 \in {0} \cup Ids
    OBVIOUS
  <1>4. Shape(u) /\ Fits(u) /\ Edited(sc, u) /\ u.path = sc.path /\ Shown(u, 0)
    BY <1>1, <1>3, SelectGives
  <1> HIDE DEF u
  <1>5. Shape(t) /\ Keeps(u, t) /\ Shrinks(u, t) /\ KeepsTags(u, t)
    BY <1>4, RemovePlayerTakes, DestroyTakes
  <1> HIDE DEF t
  <1>6. Edited(u, t) /\ t.path = u.path /\ Shown(t, 0)
    BY <1>4, <1>5, Takes
  <1>7. ui' \in Contexts /\ ui'.selection = 0 /\ ui'.clip = ui.clip
    BY <1>1, <1>2, <1>3, SelectionIn
  <1>8. Edited(sc, t)
    BY <1>4, <1>6, EditedOn
  <1>. QED  BY <1>2, <1>4, <1>6, <1>7, <1>8, SceneEvent

LEMMA InspectStep ==
  ASSUME StudioInv, Inspect
  PROVE  StudioInv'
  <1>1. /\ Shape(sc) /\ Fits(sc) /\ Shown(sc, ui.selection) /\ ui \in Contexts
    BY EditingHas
  <1> DEFINE e == ui.selection
  <1>2. Editing /\ e \in Live(sc) /\ files' = files /\ ui' = ui
    BY DEF Inspect
  <1>3. sc \in Scenes /\ sc.world \in [Live(sc) -> ObjectType] /\ sc.world[e] \in ObjectType
    BY <1>1, <1>2, WorldHas DEF Shape
  <1> HIDE DEF e
  <1>4. ASSUME NEW o \in ObjectType, o.body = sc.world[e].body, o.sim = sc.world[e].sim,
               NEW c \in SUBSET sc.compiled, sc' = [sc EXCEPT !.world[e] = o, !.compiled = c]
        PROVE  StudioInv'
    <2> DEFINE t == Altered(sc, e, o, c)
    <2>1. Shape(t) /\ Keeps(sc, t) /\ Shrinks(sc, t) /\ KeepsTags(sc, t)
      BY <1>1, <1>2, <1>4, AlteredKeeps
    <2>2. sc' = t
      BY <1>4 DEF Altered
    <2> HIDE DEF t
    <2>3. Edited(sc, t) /\ t.path = sc.path /\ Shown(t, ui.selection)
      BY <1>1, <2>1, Takes
    <2>. QED  BY <1>1, <1>2, <2>2, <2>3, SceneEvent
  <1> DEFINE o == sc.world[e]
             all == sc.compiled
  <1>5. all \in SUBSET all /\ all \ {e} \in SUBSET all
    OBVIOUS
  \* Components that can be given or taken without a body changing.
  <1>6. ASSUME NEW k \in {"cube", "static"}, sc' = [sc EXCEPT !.world[e].ren = TRUE, !.world[e].kind = k]
        PROVE  StudioInv'
    <2> DEFINE n == [o EXCEPT !.ren = TRUE, !.kind = k]
    <2>1. n \in ObjectType /\ n.body = o.body /\ n.sim = o.sim
      BY <1>3 DEF ObjectType, Kinds
    <2>2. sc' = [sc EXCEPT !.world[e] = n, !.compiled = all]
      BY <1>2, <1>3, <1>6 DEF Scenes
    <2> HIDE DEF n
    <2>. QED  BY <1>4, <1>5, <2>1, <2>2
  <1>7. ASSUME sc' = [sc EXCEPT !.world[e].ren = FALSE]
        PROVE  StudioInv'
    <2> DEFINE n == [o EXCEPT !.ren = FALSE]
    <2>1. n \in ObjectType /\ n.body = o.body /\ n.sim = o.sim
      BY <1>3 DEF ObjectType
    <2>2. sc' = [sc EXCEPT !.world[e] = n, !.compiled = all]
      BY <1>2, <1>3, <1>7 DEF Scenes
    <2> HIDE DEF n
    <2>. QED  BY <1>4, <1>5, <2>1, <2>2
  <1>8. ASSUME sc' = [sc EXCEPT !.world[e].kind = "lost"]
        PROVE  StudioInv'
    <2> DEFINE n == [o EXCEPT !.kind = "lost"]
    <2>1. n \in ObjectType /\ n.body = o.body /\ n.sim = o.sim
      BY <1>3 DEF ObjectType, Kinds
    <2>2. sc' = [sc EXCEPT !.world[e] = n, !.compiled = all]
      BY <1>2, <1>3, <1>8 DEF Scenes
    <2> HIDE DEF n
    <2>. QED  BY <1>4, <1>5, <2>1, <2>2
  <1>9. ASSUME NEW b \in BOOLEAN, sc' = [sc EXCEPT !.world[e].scr = b, !.compiled = @ \ {e}]
        PROVE  StudioInv'
    <2> DEFINE n == [o EXCEPT !.scr = b]
    <2>1. n \in ObjectType /\ n.body = o.body /\ n.sim = o.sim
      BY <1>3 DEF ObjectType
    <2>2. sc' = [sc EXCEPT !.world[e] = n, !.compiled = all \ {e}]
      BY <1>2, <1>3, <1>9 DEF Scenes
    <2> HIDE DEF n
    <2>. QED  BY <1>4, <1>5, <2>1, <2>2
  \* A collider comes or goes with its body.
  <1>10. ASSUME sc' = AddCollider(sc, e) \/ sc' = RemovePhysics(sc, e)
         PROVE  StudioInv'
    <2> DEFINE t == sc'
    <2>1. Shape(t) /\ Keeps(sc, t) /\ Shrinks(sc, t) /\ KeepsTags(sc, t)
      BY <1>1, <1>2, <1>10, AddColliderGives, RemovePhysicsTakes
    <2> HIDE DEF t
    <2>2. Edited(sc, t) /\ t.path = sc.path /\ Shown(t, ui.selection)
      BY <1>1, <2>1, Takes
    <2>. QED  BY <1>1, <1>2, <2>2, SceneEvent DEF t
  <1>11. \/ \E k \in {"cube", "static"} : sc' = [sc EXCEPT !.world[e].ren = TRUE, !.world[e].kind = k]
         \/ sc' = [sc EXCEPT !.world[e].ren = FALSE]
         \/ sc' = [sc EXCEPT !.world[e].kind = "lost"]
         \/ sc' = AddCollider(sc, e)
         \/ sc' = RemovePhysics(sc, e)
         \/ sc' = [sc EXCEPT !.world[e].scr = TRUE, !.compiled = @ \ {e}]
         \/ sc' = [sc EXCEPT !.world[e].scr = FALSE, !.compiled = @ \ {e}]
    BY DEF Inspect, e
  <1>. QED  BY <1>6, <1>7, <1>8, <1>9, <1>10, <1>11

LEMMA ApplyScriptsStep ==
  ASSUME StudioInv, ApplyScripts
  PROVE  StudioInv'
  <1>1. /\ Shape(sc) /\ Fits(sc) /\ Shown(sc, ui.selection) /\ ui \in Contexts
    BY EditingHas
  <1>2. Editing /\ files' = files /\ ui' = ui /\ sc' = ReloadScripts(sc)
    BY DEF ApplyScripts
  <1> DEFINE t == ReloadScripts(sc)
  <1>3. Shape(t) /\ Still(sc, t) /\ Keeps(sc, t)
    BY <1>1, ReloadScriptsFits
  <1> HIDE DEF t
  <1>4. Runs(sc, t, ui.selection) /\ (Clean(sc) => Clean(t))
    BY <1>1, <1>3, StillRuns
  <1>5. sc' = t
    BY <1>2 DEF t
  <1>. QED  BY <1>1, <1>2, <1>4, <1>5, SceneEvent DEF Runs, Keeps, Edited

LEMMA EditFileStep ==
  ASSUME StudioInv, EditFile
  PROVE  StudioInv'
  <1>1. /\ Shape(sc) /\ Fits(sc) /\ FilesOK /\ PathOK(sc, files) /\ Shown(sc, ui.selection) /\ ui \in Contexts
        /\ sc \in Scenes /\ EditorOK /\ EditsAreClean
    BY EditingHas DEF Shape, StudioInv
  <1>2. PICK p \in SaveTargets \cup {Main}, f \in {Broken} \cup {File(<<n>>) : n \in Written} :
           files' = [files EXCEPT ![p] = f] /\ sc' = Touched(sc, p)
    BY DEF EditFile
  <1>3. step = "frame" /\ UNCHANGED <<ui, was, step, stuck>>
    BY DEF EditFile
  <1>4. p \in Paths /\ p \in PathNames /\ f \in FileType /\ CleanFile(f) /\ f.state # "absent"
    <2>1. p \in Paths /\ p \in PathNames
      BY <1>2 DEF Paths, PathNames
    <2>2. CASE f = Broken
      BY <2>1, <2>2, FilesType DEF Broken
    <2>3. CASE f # Broken
      <3>1. PICK n \in Written : f = File(<<n>>)
        BY <1>2, <2>3
      <3>2. f \in FileType /\ CleanFile(f)
        BY <3>1, FilesType
      <3>3. f.state = "good"
        BY <3>1 DEF File
      <3>. QED  BY <2>1, <3>2, <3>3
    <2>. QED  BY <2>2, <2>3
  <1> DEFINE t == Touched(sc, p)
  <1>5. Shape(t) /\ Fits(t) /\ Edited(sc, t) /\ t.path = sc.path /\ Shown(t, ui.selection)
    BY <1>1, TouchedFits
  <1>6. sc' = t
    BY <1>2
  <1> HIDE DEF t
  <1>7. FilesGo(files, files') /\ ((\A q \in Paths : CleanFile(files[q])) => \A q \in Paths : CleanFile(files'[q]))
    BY <1>1, <1>2, <1>4 DEF FilesOK, FilesGo
  <1> DEFINE fs == files'
  <1>8. FilesGo(files, fs)
    BY <1>7
  <1> HIDE DEF fs
  <1>9. PathOK(t, fs)
    BY <1>1, <1>5, <1>8, PathStays
  <1>10. EditorOK'
    <2>1. FilesOK' /\ was' \in BOOLEAN /\ stuck' \in BOOLEAN
      BY <1>1, <1>3, <1>7 DEF EditorOK, FilesOK, FilesGo
    <2>2. PathOK(sc', files')
      BY <1>6, <1>9 DEF fs
    <2>. QED  BY <1>1, <1>3, <1>5, <1>6, <2>1, <2>2 DEF EditorOK, Edited
  <1>11. EditsAreClean'
    BY <1>1, <1>3, <1>5, <1>6, <1>7 DEF EditsAreClean, Edited
  <1>. QED  BY <1>3, <1>5, <1>6, <1>10, <1>11 DEF StudioInv

LEMMA CoolsStep ==
  ASSUME StudioInv, Cools
  PROVE  StudioInv'
  <1>1. /\ Shape(sc) /\ Fits(sc) /\ FilesOK /\ PathOK(sc, files) /\ Shown(sc, ui.selection)
        /\ EditorOK /\ EditsAreClean
    BY EditingHas DEF StudioInv
  <1>2. step = "frame" /\ UNCHANGED <<files, ui, was, step, stuck>> /\ sc' = [sc EXCEPT !.cool = FALSE]
    BY DEF Cools
  <1> DEFINE t == [sc EXCEPT !.cool = FALSE]
  <1>3. Shape(t) /\ Still(sc, t) /\ Keeps(sc, t)
    BY <1>1, CoolFits
  <1>4. sc' = t
    BY <1>2
  <1> HIDE DEF t
  <1>5. Runs(sc, t, ui.selection) /\ (Clean(sc) => Clean(t))
    BY <1>1, <1>3, StillRuns
  <1>6. EditorOK'
    BY <1>1, <1>2, <1>4, <1>5 DEF EditorOK, Runs, Keeps, FilesOK, PathOK
  <1>7. EditsAreClean'
    BY <1>1, <1>2, <1>4, <1>5 DEF EditsAreClean
  <1>. QED  BY <1>1, <1>2, <1>4, <1>5, <1>6, <1>7 DEF StudioInv, Runs

LEMMA NoEventStep ==
  ASSUME StudioInv, NoEvent
  PROVE  StudioInv'
  <1>1. EditorOK /\ Shown(sc, ui.selection) /\ EditsAreClean
    BY DEF StudioInv
  <1>2. step = "panels" /\ step' = "frame" /\ UNCHANGED <<sc, files, ui, was, events, stuck>>
    BY DEF NoEvent
  <1>3. EditorOK'
    BY <1>1, <1>2 DEF EditorOK, FilesOK, PathOK
  <1>4. EditsAreClean'
    BY <1>1, <1>2 DEF EditsAreClean
  <1>. QED  BY <1>1, <1>2, <1>3, <1>4 DEF StudioInv

-----------------------------------------------------------------------------
(* The theorems.                                                            *)

LEMMA StudioStep ==
  ASSUME StudioInv, [Next]_vars
  PROVE  StudioInv'
  <1>1. CASE UNCHANGED vars
    <2>1. UNCHANGED <<sc, files, ui, was, step, events, stuck>>
      BY <1>1 DEF vars
    <2>2. EditorOK' /\ EditsAreClean' /\ Shown(sc', ui'.selection)
      BY <2>1 DEF StudioInv, EditorOK, FilesOK, PathOK, EditsAreClean
    <2>. QED  BY <2>2 DEF StudioInv
  <1>2. CASE Panels
    BY <1>2, NoEventStep, PickEntityStep, StartTestingStep, StopTestingStep, SaveSceneStep, ReloadSceneStep,
       OpenSceneStep, SpawnObjectStep, SpawnEmptyStep, CopyObjectStep, PasteObjectStep, DuplicateObjectStep,
       DeleteRowStep, DeleteSelectedStep, InspectStep, ApplyScriptsStep DEF Panels
  <1>. QED  BY <1>1, <1>2, BootStep, FrameStep, EditFileStep, CoolsStep DEF Next

\* The inductive invariant of the editor holds in every state: the scene and what the editor
\* keeps are of their types, and there is a handle for whatever a file can hold.
THEOREM StudioInvariance == Spec => []StudioInv
  BY InitOK, StudioStep, PTL DEF Spec

\* The physics world holds each body of a living entity once, and none whose entity or component
\* has gone: through creation, deletion, reloads, resets and tests.
THEOREM BodiesStayOwned == Spec => []BodiesAreOwned
  <1>1. StudioInv => BodiesAreOwned
    <2> SUFFICES ASSUME StudioInv PROVE BodiesAreOwned
      OBVIOUS
    <2>1. /\ Shape(sc) /\ FilesOK /\ PathOK(sc, files) /\ ui \in Contexts
      BY EditingHas
    <2>2. sc \in Scenes /\ Live(sc) \subseteq Ids
      BY <2>1, WorldHas DEF Shape
    <2>3. \A p \in Paths : Range(files[p].objects) \subseteq EntryType
      <3>1. TAKE p \in Paths
      <3> DEFINE q == files[p].objects
      <3>2. q \in Seq(EntryType)
        BY <2>1 DEF FilesOK, FileType
      <3> HIDE DEF q
      <3>3. \A i \in DOMAIN q : q[i] \in EntryType
        BY <3>2
      <3>4. Range(q) \subseteq EntryType
        BY <3>3 DEF Range
      <3>. QED  BY <3>4 DEF q
    <2>4. StudioTypeOK
      BY <2>1, <2>2, <2>3 DEF StudioTypeOK, Shape, Scenes, Contexts, PathNames, PathOK
    <2>5. sc.phys => \A e \in Ids : sc.inWorld[e] = IF HasBody(sc, e) THEN 1 ELSE 0
      BY <2>1 DEF Shape, Owned
    <2>. QED  BY <2>4, <2>5 DEF BodiesAreOwned
  <1>. QED  BY <1>1, StudioInvariance, PTL

\* The entity that the editor holds as its selection is the one tagged as selected, or has gone.
THEOREM SelectionStaysShown == Spec => []SelectionIsShown
  <1>1. StudioInv => SelectionIsShown
    BY DEF StudioInv, Shown, SelectionIsShown
  <1>. QED  BY <1>1, StudioInvariance, PTL

\* No file ever holds what a test did to the scene, unless a test ended that could not be undone.
THEOREM TestsAreNeverSaved == Spec => []SimulationIsNotSaved
  <1>1. StudioInv => SimulationIsNotSaved
    <2> SUFFICES ASSUME StudioInv, ~stuck, NEW p \in Paths, NEW n \in Range(files[p].objects) PROVE ~n.sim
      BY DEF SimulationIsNotSaved
    <2>1. CleanFile(files[p])
      BY DEF StudioInv, EditsAreClean
    <2>. QED  BY <2>1 DEF CleanFile, Range
  <1>. QED  BY <1>1, StudioInvariance, PTL

=============================================================================
