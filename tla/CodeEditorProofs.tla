-------------------------- MODULE CodeEditorProofs --------------------------
(***************************************************************************)
(* Theorems about CodeEditor, for any scripts, texts, input and tabs.      *)
(***************************************************************************)
EXTENDS CodeEditor, TLAPS, SequenceTheorems, FiniteSetTheorems, NaturalsInduction, WellFoundedInduction

Texts == Seq(Bytes)
Runs == {"insert", "delete"}
Snap == [text : Texts, cursor : Nat, anchor : Int]
Buffer ==
    [path : Paths, text : Texts, cursor : Nat, anchor : Int, dirty : BOOLEAN,
     undo : Seq(Snap), redo : Seq(Snap), last : {"none", "insert", "delete", "other"},
     opened : Texts, tip : Texts, run : [kind : {"none", "insert", "delete", "other"}, text : Texts],
     dropped : BOOLEAN, behind : BOOLEAN]

\* A buffer of the right type whose caret lies in the text.  The anchor may lie behind it.
BufferOK(b) == b \in Buffer /\ b.cursor <= Len(b.text)

\* The fields, one by one.
LEMMA Fields ==
    ASSUME NEW b, BufferOK(b)
    PROVE  /\ b \in Buffer /\ b.path \in Paths /\ b.text \in Texts /\ b.cursor \in Nat /\ b.anchor \in Int
           /\ b.dirty \in BOOLEAN /\ b.undo \in Seq(Snap) /\ b.redo \in Seq(Snap)
           /\ b.last \in {"none", "insert", "delete", "other"}
           /\ b.opened \in Texts /\ b.tip \in Texts /\ b.dropped \in BOOLEAN /\ b.behind \in BOOLEAN
           /\ b.run.kind \in {"none", "insert", "delete", "other"} /\ b.run.text \in Texts
           /\ Len(b.text) \in Nat /\ b.cursor \in 0..Len(b.text)
<1>1. b \in Buffer /\ b.cursor <= Len(b.text)
  BY DEF BufferOK
<1>2. /\ b.path \in Paths /\ b.text \in Texts /\ b.cursor \in Nat /\ b.anchor \in Int
      /\ b.dirty \in BOOLEAN /\ b.undo \in Seq(Snap) /\ b.redo \in Seq(Snap)
      /\ b.last \in {"none", "insert", "delete", "other"}
      /\ b.opened \in Texts /\ b.tip \in Texts /\ b.dropped \in BOOLEAN /\ b.behind \in BOOLEAN
      /\ b.run.kind \in {"none", "insert", "delete", "other"} /\ b.run.text \in Texts
  BY <1>1 DEF Buffer
<1>3. Len(b.text) \in Nat
  BY <1>2 DEF Texts
<1>. QED  BY <1>1, <1>2, <1>3

-----------------------------------------------------------------------------
(* Numbers                                                                  *)

\* Min and Max of two numbers.
LEMMA MinOfTwo ==
    ASSUME NEW x, x \in Int, NEW y, y \in Int
    PROVE  Min({x, y}) = IF x <= y THEN x ELSE y
<1> DEFINE m == IF x <= y THEN x ELSE y
<1>1. m \in {x, y} /\ \A z \in {x, y} : m <= z
  OBVIOUS
<1>2. \A n \in {x, y} : (\A z \in {x, y} : n <= z) => n = m
  OBVIOUS
<1>. QED  BY <1>1, <1>2 DEF Min

LEMMA MaxOfTwo ==
    ASSUME NEW x, x \in Int, NEW y, y \in Int
    PROVE  Max({x, y}) = IF x <= y THEN y ELSE x
<1> DEFINE m == IF x <= y THEN y ELSE x
<1>1. m \in {x, y} /\ \A z \in {x, y} : m >= z
  OBVIOUS
<1>2. \A n \in {x, y} : (\A z \in {x, y} : n >= z) => n = m
  OBVIOUS
<1>. QED  BY <1>1, <1>2 DEF Max

\* A caret that is clamped lies in the text.
LEMMA Clamped ==
    ASSUME NEW to, to \in Int, NEW n, n \in Nat
    PROVE  Max({0, Min({to, n})}) \in 0..n
BY MinOfTwo, MaxOfTwo

-----------------------------------------------------------------------------
(* What operations make of a buffer                                         *)

\* c differs from b in some of the fields F at most.
FieldNames == {"path", "text", "cursor", "anchor", "dirty", "undo", "redo", "last", "opened", "tip",
               "run", "dropped", "behind"}
Same(c, b, F) == \A f \in FieldNames \ F : c[f] = b[f]

\* Moving the caret moves the caret and the anchor.
LEMMA MoveOK ==
    ASSUME NEW b, BufferOK(b), NEW to, to \in Int, NEW extend, extend \in BOOLEAN
    PROVE  BufferOK(MoveCursorTo(b, to, extend)) /\ Same(MoveCursorTo(b, to, extend), b, {"cursor", "anchor"})
<1> DEFINE a == IF ~extend THEN -1 ELSE IF b.anchor < 0 THEN b.cursor ELSE b.anchor
           c == Max({0, Min({to, Len(b.text)})})
           p1 == [b EXCEPT !.anchor = a]
           p2 == [p1 EXCEPT !.cursor = c]
<1>1. MoveCursorTo(b, to, extend) = p2
  BY DEF MoveCursorTo
<1>2. b \in Buffer /\ Len(b.text) \in Nat /\ a \in Int
  BY Fields
<1>3. c \in 0..Len(b.text) /\ c \in Nat
  <2> DEFINE n == Len(b.text)
  <2>1. n \in Nat
    BY <1>2
  <2> HIDE DEF n
  <2>2. Max({0, Min({to, n})}) \in 0..n
    BY <2>1, Clamped
  <2>. QED  BY <2>1, <2>2 DEF n
<1> HIDE DEF a, c
<1>4. p1 \in Buffer /\ Same(p1, b, {"anchor"})
  BY <1>2 DEF Buffer, Same, FieldNames
<1> HIDE DEF p1
<1>5. p2 \in Buffer /\ Same(p2, p1, {"cursor"}) /\ p2.cursor = c
  BY <1>3, <1>4 DEF Buffer, Same, FieldNames
<1> HIDE DEF p2
<1>6. Same(p2, b, {"cursor", "anchor"}) /\ p2.text = b.text
  BY <1>4, <1>5 DEF Same, FieldNames
<1>. QED  BY <1>1, <1>3, <1>5, <1>6 DEF BufferOK

\* A snapshot of a buffer.
LEMMA SnapshotOK == ASSUME NEW b, BufferOK(b) PROVE Snapshot(b) \in Snap /\ Snapshot(b).text = b.text
BY Fields DEF Snapshot, Snap

\* What undoing everything leads to is the text as it was opened, or a step was dropped.
Rooted(b) == b.dropped \/ b.opened = IF b.undo = <<>> THEN b.text ELSE Head(b.undo).text

\* Pushing a snapshot, with the cap on their number.
LEMMA PushedOK ==
    ASSUME NEW b, BufferOK(b)
    PROVE  /\ BufferOK(Pushed(b)) /\ Same(Pushed(b), b, {"undo", "dropped", "redo"})
           /\ Pushed(b).undo # <<>> /\ Last(Pushed(b).undo).text = b.text /\ Pushed(b).redo = <<>>
           /\ Rooted(b) => Rooted(Pushed(b))
<1> DEFINE grown == Append(b.undo, Snapshot(b))
           over == Len(grown) > UndoCap
           u == IF over THEN Tail(grown) ELSE grown
           d == b.dropped \/ over
           e == <<>>
           p1 == [b EXCEPT !.undo = u]
           p2 == [p1 EXCEPT !.dropped = d]
           p3 == [p2 EXCEPT !.redo = e]
<1>0. Pushed(b) = p3
  BY DEF Pushed
<1>1. b \in Buffer /\ b.undo \in Seq(Snap) /\ b.dropped \in BOOLEAN /\ Len(b.undo) \in Nat
  BY Fields
<1>2. /\ grown \in Seq(Snap) /\ Len(grown) = Len(b.undo) + 1 /\ grown[Len(b.undo) + 1] = Snapshot(b)
      /\ \A i \in 1..Len(b.undo) : grown[i] = b.undo[i]
  BY <1>1, SnapshotOK, AppendProperties
<1>3. over => Len(grown) > 1 /\ Len(grown) \in Nat
  BY <1>1, <1>2, EditorAssumption
<1>4. /\ u \in Seq(Snap) /\ u # <<>> /\ Last(u).text = b.text
      /\ ~over => u = grown
  <2>1. CASE ~over
    <3>1. u = grown /\ u # <<>> /\ Last(u) = Snapshot(b)
      <4> HIDE DEF grown, over
      <4>. QED  BY <1>1, <1>2, <2>1 DEF Last
    <3>. QED  BY <1>2, <2>1, <3>1, SnapshotOK
  <2>2. CASE over
    <3>1. u = Tail(grown) /\ grown # <<>>
      BY <1>2, <1>3, <2>2
    <3> HIDE DEF grown, u
    <3>2. u \in Seq(Snap) /\ Len(u) = Len(grown) - 1 /\ \A i \in 1..Len(u) : u[i] = grown[i + 1]
      BY <1>2, <3>1, HeadTailProperties
    <3>3. Len(u) = Len(b.undo) /\ Len(u) # 0 /\ u[Len(u)] = grown[Len(u) + 1]
      BY <1>1, <1>2, <1>3, <2>2, <3>2
    <3>4. u # <<>> /\ Last(u) = Snapshot(b)
      BY <1>2, <3>3, EmptySeq DEF Last
    <3>. QED  BY <2>2, <3>2, <3>4, SnapshotOK
  <2>. QED  BY <2>1, <2>2
<1>5. ~over => Head(u).text = IF b.undo = <<>> THEN b.text ELSE Head(b.undo).text
  <2> SUFFICES ASSUME ~over PROVE Head(u).text = IF b.undo = <<>> THEN b.text ELSE Head(b.undo).text
    OBVIOUS
  <2>1. u = grown
    BY <1>4
  <2>2. Head(grown) = grown[1] /\ (b.undo # <<>> => Head(b.undo) = b.undo[1] /\ 1 \in 1..Len(b.undo))
    BY <1>1, <1>2
  <2>3. b.undo = <<>> => Len(b.undo) = 0
    BY EmptySeq
  <2> HIDE DEF grown, u
  <2>. QED  BY <1>1, <1>2, <2>1, <2>2, <2>3, SnapshotOK
<1>6. d \in BOOLEAN
  BY <1>1
<1> HIDE DEF u, d, grown, over
<1>7. p1 \in Buffer /\ p1.undo = u /\ Same(p1, b, {"undo"})
  BY <1>1, <1>4 DEF Buffer, Same, FieldNames
<1> HIDE DEF p1
<1>8. p2 \in Buffer /\ p2.dropped = d /\ Same(p2, p1, {"dropped"})
  BY <1>6, <1>7 DEF Buffer, Same, FieldNames
<1> HIDE DEF p2
<1>9. p3 \in Buffer /\ p3.redo = e /\ Same(p3, p2, {"redo"})
  <2>1. e \in Seq(Snap)
    OBVIOUS
  <2> HIDE DEF e
  <2>. QED  BY <1>8, <2>1 DEF Buffer, Same, FieldNames
<1> HIDE DEF p3
<1>10. Same(p3, b, {"undo", "dropped", "redo"}) /\ p3.undo = u /\ p3.dropped = d
       /\ p3.text = b.text /\ p3.cursor = b.cursor /\ p3.opened = b.opened
  BY <1>7, <1>8, <1>9 DEF Same, FieldNames
<1>11. BufferOK(p3)
  BY <1>9, <1>10 DEF BufferOK
<1>12. Rooted(b) => Rooted(p3)
  BY <1>4, <1>5, <1>10 DEF Rooted, d
<1>. QED  BY <1>0, <1>4, <1>9, <1>10, <1>11, <1>12

EditKinds == {"insert", "delete", "other"}
EditFields == {"text", "cursor", "anchor", "dirty", "undo", "dropped", "redo", "last"}

\* u is b with a snapshot for an edit of that kind, or goes on the run of such edits.
IsPushed(b, u, kind) ==
    /\ BufferOK(u) /\ Same(u, b, {"undo", "dropped", "redo", "last"})
    /\ u.redo = <<>> /\ u.undo # <<>> /\ u.last = kind
    /\ IF GoesOn(b, kind) THEN u.undo = b.undo ELSE Last(u.undo).text = b.text
    /\ Rooted(b) => Rooted(u)

LEMMA PushUndoOK ==
    ASSUME NEW b, BufferOK(b), NEW kind, kind \in EditKinds
    PROVE  IsPushed(b, PushUndo(b, kind), kind)
<1>1. b \in Buffer
  BY DEF BufferOK
<1>2. CASE GoesOn(b, kind)
  <2> DEFINE e == <<>>
             u == [b EXCEPT !.redo = e]
  <2>1. PushUndo(b, kind) = u
    BY <1>2 DEF PushUndo
  <2>2. u \in Buffer /\ u.redo = e /\ Same(u, b, {"redo"})
    <3>1. e \in Seq(Snap)
      OBVIOUS
    <3> HIDE DEF e
    <3>. QED  BY <1>1, <3>1 DEF Buffer, Same, FieldNames
  <2> HIDE DEF u
  <2>3. /\ Same(u, b, {"undo", "dropped", "redo", "last"}) /\ u.undo = b.undo /\ u.last = b.last
        /\ u.text = b.text /\ u.cursor = b.cursor /\ u.opened = b.opened /\ u.dropped = b.dropped
    BY <2>2 DEF Same, FieldNames
  <2>. QED  BY <1>2, <2>1, <2>2, <2>3 DEF IsPushed, GoesOn, BufferOK, Rooted
<1>3. CASE ~GoesOn(b, kind)
  <2> DEFINE p == Pushed(b)
             u == [p EXCEPT !.last = kind]
  <2>1. PushUndo(b, kind) = u
    BY <1>3 DEF PushUndo
  <2>2. /\ BufferOK(p) /\ Same(p, b, {"undo", "dropped", "redo"}) /\ p \in Buffer
        /\ p.undo # <<>> /\ Last(p.undo).text = b.text /\ p.redo = <<>>
        /\ Rooted(b) => Rooted(p)
    BY PushedOK DEF BufferOK
  <2> HIDE DEF p
  <2>3. u \in Buffer /\ u.last = kind /\ Same(u, p, {"last"})
    BY <2>2 DEF Buffer, Same, FieldNames, EditKinds
  <2> HIDE DEF u
  <2>4. /\ u.undo = p.undo /\ u.text = p.text /\ u.cursor = p.cursor /\ u.opened = p.opened
        /\ u.dropped = p.dropped /\ u.redo = p.redo
    BY <2>3 DEF Same, FieldNames
  <2>5. Same(u, b, {"undo", "dropped", "redo", "last"})
    BY <2>2, <2>3 DEF Same, FieldNames
  <2>. QED  BY <1>3, <2>1, <2>2, <2>3, <2>4, <2>5 DEF IsPushed, BufferOK, Rooted
<1>. QED  BY <1>2, <1>3

\* A stretch of a text, and what is left when a stretch is taken out.
LEMMA Stretch ==
    ASSUME NEW t \in Texts, NEW m, m \in Nat \ {0}, NEW n, n \in 0..Len(t)
    PROVE  SubSeq(t, m, n) \in Texts /\ Len(SubSeq(t, m, n)) = IF m <= n THEN n - m + 1 ELSE 0
<1>1. \A i \in m..n : t[i] \in Bytes
  BY DEF Texts
<1>2. m \in Int /\ n \in Int
  OBVIOUS
<1>. QED  BY <1>1, <1>2, SubSeqProperties DEF Texts

\* e is b with another text and the caret somewhere else in it.
IsRewritten(b, e) == BufferOK(e) /\ Same(e, b, {"text", "cursor", "dirty"}) /\ e.dirty = TRUE

\* Taking bytes out.
LEMMA ErasedOK ==
    ASSUME NEW b, BufferOK(b), NEW from, NEW to, from \in 0..Len(b.text), to \in Nat
    PROVE  IsRewritten(b, Erased(b, from, to))
<1> DEFINE x == SubSeq(b.text, 1, from)
           y == SubSeq(b.text, to + 1, Len(b.text))
           v == x \o y
           p1 == [b EXCEPT !.text = v]
           p2 == [p1 EXCEPT !.cursor = from]
           p3 == [p2 EXCEPT !.dirty = TRUE]
<1>0. Erased(b, from, to) = p3
  BY DEF Erased
<1>1. b \in Buffer /\ b.text \in Texts /\ Len(b.text) \in Nat
  BY Fields
<1>2. from \in Nat /\ x \in Texts /\ y \in Texts /\ Len(x) = from
  <2> DEFINE t == b.text
             n == Len(t)
             k == to + 1
  <2>1. /\ t \in Texts /\ 1 \in Nat \ {0} /\ from \in 0..n /\ n \in 0..n /\ k \in Nat \ {0}
        /\ from \in Nat /\ (IF 1 <= from THEN from - 1 + 1 ELSE 0) = from
    BY <1>1
  <2>2. SubSeq(t, 1, from) \in Texts /\ Len(SubSeq(t, 1, from)) = IF 1 <= from THEN from - 1 + 1 ELSE 0
    BY <2>1, Stretch
  <2> HIDE DEF k
  <2>3. SubSeq(t, k, n) \in Texts
    BY <2>1, Stretch
  <2>. QED  BY <2>1, <2>2, <2>3 DEF k
<1> HIDE DEF x, y
<1>3. v \in Texts /\ from <= Len(v)
  <2>1. v \in Seq(Bytes) /\ Len(v) = Len(x) + Len(y) /\ Len(y) \in Nat
    <3>1. x \in Seq(Bytes) /\ y \in Seq(Bytes)
      BY <1>2 DEF Texts
    <3>2. x \o y \in Seq(Bytes) /\ Len(x \o y) = Len(x) + Len(y) /\ Len(y) \in Nat
      BY <3>1, ConcatProperties
    <3>. QED  BY <3>2
  <2> HIDE DEF v
  <2>. QED  BY <1>2, <2>1 DEF Texts
<1> HIDE DEF v
<1>4. p1 \in Buffer /\ p1.text = v /\ Same(p1, b, {"text"})
  BY <1>1, <1>3 DEF Buffer, Same, FieldNames
<1> HIDE DEF p1
<1>5. p2 \in Buffer /\ p2.cursor = from /\ Same(p2, p1, {"cursor"})
  BY <1>2, <1>4 DEF Buffer, Same, FieldNames
<1> HIDE DEF p2
<1>6. p3 \in Buffer /\ p3.dirty = TRUE /\ Same(p3, p2, {"dirty"})
  BY <1>5 DEF Buffer, Same, FieldNames
<1> HIDE DEF p3
<1>7. p3.text = v /\ p3.cursor = from /\ Same(p3, b, {"text", "cursor", "dirty"})
  BY <1>4, <1>5, <1>6 DEF Same, FieldNames
<1>. QED  BY <1>0, <1>3, <1>6, <1>7 DEF BufferOK, IsRewritten

\* d is b after an edit of that kind, which goes on the present run of such edits or
\* starts one with the text `before`.
IsEdited(b, d, kind) ==
    /\ BufferOK(d) /\ Same(d, b, EditFields)
    /\ d.redo = <<>> /\ d.undo # <<>> /\ d.last = kind /\ d.dirty = TRUE
    /\ Rooted(b) => Rooted(d)

\* Rewriting the text after a push is an edit.
LEMMA RewritingIsEditing ==
    ASSUME NEW b, NEW u, NEW e, NEW kind, IsPushed(b, u, kind), IsRewritten(u, e)
    PROVE  IsEdited(b, e, kind) /\ e.undo = u.undo
<1>1. /\ Same(e, b, EditFields) /\ e.redo = u.redo /\ e.undo = u.undo /\ e.last = u.last
      /\ e.opened = u.opened /\ e.dropped = u.dropped /\ e.dirty = TRUE /\ BufferOK(e)
  BY DEF IsRewritten, IsPushed, Same, FieldNames, EditFields
<1>2. Rooted(u) => Rooted(e)
  BY <1>1 DEF IsPushed, Rooted
<1>. QED  BY <1>1, <1>2 DEF IsEdited, IsPushed

\* An edit after an edit.
LEMMA EditsCompose ==
    ASSUME NEW b, NEW d, NEW e, NEW k, NEW kind, IsEdited(b, d, k), IsEdited(d, e, kind)
    PROVE  IsEdited(b, e, kind)
<1>1. Same(e, b, EditFields)
  BY DEF IsEdited, Same, FieldNames, EditFields
<1>. QED  BY <1>1 DEF IsEdited

-----------------------------------------------------------------------------
(* Edits                                                                    *)

\* The ends of the selection.
LEMMA SelectionEnds ==
    ASSUME NEW b, BufferOK(b), HasSelection(b)
    PROVE  SelBegin(b) \in 0..Len(b.text) /\ SelEnd(b) \in Nat /\ SelBegin(b) < SelEnd(b)
<1> DEFINE a == b.anchor
           c == b.cursor
           n == Len(b.text)
<1>1. a \in Int /\ c \in Nat /\ n \in Nat /\ c <= n /\ a >= 0 /\ a # c
  BY Fields DEF HasSelection, BufferOK
<1>2. SelBegin(b) = Min({a, c}) /\ SelEnd(b) = Max({a, c})
  BY DEF SelBegin, SelEnd
<1> HIDE DEF a, c, n
<1>3. Min({a, c}) = (IF a <= c THEN a ELSE c) /\ Max({a, c}) = (IF a <= c THEN c ELSE a)
  BY <1>1, MinOfTwo, MaxOfTwo
<1>4. SelBegin(b) \in 0..n /\ SelEnd(b) \in Nat /\ SelBegin(b) < SelEnd(b)
  BY <1>1, <1>2, <1>3
<1>. QED  BY <1>4 DEF n

\* Deleting a selection is an edit of its own, or nothing.
LEMMA DeleteSelectionOK ==
    ASSUME NEW b, BufferOK(b)
    PROVE  /\ HasSelection(b) => IsEdited(b, DeleteSelection(b), "other")
           /\ ~HasSelection(b) => DeleteSelection(b) = b
<1>1. ~HasSelection(b) => DeleteSelection(b) = b
  BY DEF DeleteSelection
<1>2. ASSUME HasSelection(b) PROVE IsEdited(b, DeleteSelection(b), "other")
  <2> DEFINE u == PushUndo(b, "other")
             from == SelBegin(b)
             to == SelEnd(b)
             e == Erased(u, from, to)
             none == -1
             d == [e EXCEPT !.anchor = none]
  <2>1. DeleteSelection(b) = d
    BY <1>2 DEF DeleteSelection
  <2>2. IsPushed(b, u, "other")
    BY PushUndoOK DEF EditKinds
  <2>3. BufferOK(u) /\ u.text = b.text
    BY <2>2 DEF IsPushed, Same, FieldNames
  <2>4. from \in 0..Len(u.text) /\ to \in Nat
    BY <1>2, <2>3, SelectionEnds
  <2> HIDE DEF u, from, to
  <2>5. IsRewritten(u, e)
    BY <2>3, <2>4, ErasedOK
  <2>6. IsEdited(b, e, "other")
    BY <2>2, <2>5, RewritingIsEditing
  <2> HIDE DEF e
  <2>7. d \in Buffer /\ Same(d, e, {"anchor"})
    <3>1. none \in Int /\ e \in Buffer
      BY <2>6 DEF IsEdited, BufferOK
    <3> HIDE DEF none
    <3>. QED  BY <3>1 DEF Buffer, Same, FieldNames
  <2> HIDE DEF d
  <2>8. /\ d.text = e.text /\ d.cursor = e.cursor /\ d.redo = e.redo /\ d.undo = e.undo /\ d.last = e.last
        /\ d.dirty = e.dirty /\ d.opened = e.opened /\ d.dropped = e.dropped /\ Same(d, b, EditFields)
    BY <2>6, <2>7 DEF IsEdited, Same, FieldNames, EditFields
  <2>9. BufferOK(d) /\ (Rooted(e) => Rooted(d))
    BY <2>6, <2>7, <2>8 DEF IsEdited, BufferOK, Rooted
  <2>. QED  BY <2>1, <2>6, <2>8, <2>9 DEF IsEdited
<1>. QED  BY <1>1, <1>2

\* Deleting a selection keeps the caret in a text; it is what the insertion starts with.
LEMMA DeletedBufferOK ==
    ASSUME NEW b, BufferOK(b)
    PROVE  BufferOK(DeleteSelection(b))
BY DeleteSelectionOK DEF IsEdited

\* Putting bytes in at the caret.
Inserted(d, s) ==
    [d EXCEPT !.text = SubSeq(@, 1, d.cursor) \o s \o SubSeq(@, d.cursor + 1, Len(@)),
              !.cursor = @ + Len(s), !.dirty = TRUE]
LEMMA InsertedOK ==
    ASSUME NEW b, BufferOK(b), NEW s, s \in Texts
    PROVE  IsRewritten(b, Inserted(b, s))
<1> DEFINE c == b.cursor
           x == SubSeq(b.text, 1, c)
           y == SubSeq(b.text, c + 1, Len(b.text))
           v == x \o s \o y
           k == c + Len(s)
           p1 == [b EXCEPT !.text = v]
           p2 == [p1 EXCEPT !.cursor = k]
           p3 == [p2 EXCEPT !.dirty = TRUE]
<1>0. Inserted(b, s) = p3
  BY DEF Inserted
<1>1. b \in Buffer /\ b.text \in Texts /\ Len(b.text) \in Nat /\ c \in 0..Len(b.text) /\ c \in Nat
  BY Fields
<1>2. x \in Texts /\ y \in Texts /\ Len(x) = c
  <2> DEFINE t == b.text
             n == Len(t)
             m == c + 1
  <2>1. /\ t \in Texts /\ 1 \in Nat \ {0} /\ c \in 0..n /\ n \in 0..n /\ m \in Nat \ {0}
        /\ (IF 1 <= c THEN c - 1 + 1 ELSE 0) = c
    BY <1>1
  <2> HIDE DEF m, c
  <2>2. SubSeq(t, 1, c) \in Texts /\ Len(SubSeq(t, 1, c)) = IF 1 <= c THEN c - 1 + 1 ELSE 0
    BY <2>1, Stretch
  <2>3. SubSeq(t, m, n) \in Texts
    BY <2>1, Stretch
  <2>. QED  BY <2>1, <2>2, <2>3 DEF m
<1> HIDE DEF x, y
<1>3. v \in Texts /\ k <= Len(v) /\ k \in Nat
  <2>1. x \in Seq(Bytes) /\ y \in Seq(Bytes) /\ s \in Seq(Bytes)
    BY <1>2 DEF Texts
  <2>2. x \o s \in Seq(Bytes) /\ Len(x \o s) = Len(x) + Len(s) /\ Len(s) \in Nat
    BY <2>1, ConcatProperties
  <2> DEFINE z == x \o s
  <2> HIDE DEF z
  <2>3. z \o y \in Seq(Bytes) /\ Len(z \o y) = Len(z) + Len(y) /\ Len(y) \in Nat
    BY <2>1, <2>2, ConcatProperties DEF z
  <2>4. v = z \o y
    BY DEF z
  <2> HIDE DEF v
  <2>. QED  BY <1>1, <1>2, <2>2, <2>3, <2>4 DEF Texts, z
<1> HIDE DEF v, k
<1>4. p1 \in Buffer /\ p1.text = v /\ Same(p1, b, {"text"})
  BY <1>1, <1>3 DEF Buffer, Same, FieldNames
<1> HIDE DEF p1
<1>5. p2 \in Buffer /\ p2.cursor = k /\ Same(p2, p1, {"cursor"})
  BY <1>3, <1>4 DEF Buffer, Same, FieldNames
<1> HIDE DEF p2
<1>6. p3 \in Buffer /\ p3.dirty = TRUE /\ Same(p3, p2, {"dirty"})
  BY <1>5 DEF Buffer, Same, FieldNames
<1> HIDE DEF p3
<1>7. p3.text = v /\ p3.cursor = k /\ Same(p3, b, {"text", "cursor", "dirty"})
  BY <1>4, <1>5, <1>6 DEF Same, FieldNames
<1>. QED  BY <1>0, <1>3, <1>6, <1>7 DEF BufferOK, IsRewritten

\* Inserting is an edit; its snapshot is of what is left of the text without the selection.
LEMMA InsertTextOK ==
    ASSUME NEW b, BufferOK(b), NEW s, s \in Texts, NEW kind, kind \in EditKinds
    PROVE  /\ IsEdited(b, InsertText(b, s, kind), kind)
           /\ IF GoesOn(DeleteSelection(b), kind)
              THEN InsertText(b, s, kind).undo = DeleteSelection(b).undo
              ELSE Last(InsertText(b, s, kind).undo).text = DeleteSelection(b).text
<1> DEFINE d == DeleteSelection(b)
           u == PushUndo(d, kind)
           e == Inserted(u, s)
<1>1. InsertText(b, s, kind) = e
  BY DEF InsertText, Inserted
<1>2. BufferOK(d) /\ (HasSelection(b) => IsEdited(b, d, "other")) /\ (~HasSelection(b) => d = b)
  BY DeletedBufferOK, DeleteSelectionOK
<1> HIDE DEF d
<1>3. IsPushed(d, u, kind)
  BY <1>2, PushUndoOK
<1>4. BufferOK(u)
  BY <1>3 DEF IsPushed
<1> HIDE DEF u
<1>5. IsRewritten(u, e)
  BY <1>4, InsertedOK
<1> HIDE DEF e
<1>6. IsEdited(d, e, kind) /\ e.undo = u.undo
  BY <1>3, <1>5, RewritingIsEditing
<1>7. IsEdited(b, e, kind)
  BY <1>2, <1>6, EditsCompose
<1>8. IF GoesOn(d, kind) THEN e.undo = d.undo ELSE Last(e.undo).text = d.text
  BY <1>3, <1>6 DEF IsPushed
<1>. QED  BY <1>1, <1>7, <1>8 DEF d

-----------------------------------------------------------------------------
(* The history                                                              *)

\* While a run of edits lasts, the next edit of its kind goes on with it.
RunsAgree(b) == b.last \in Runs \/ b.run.kind \in Runs => b.last = b.run.kind
BufferInv(b) == BufferOK(b) /\ UndoIsWhole(b) /\ RunsAgree(b)

\* An edit, noted in the history, keeps the history whole.
LEMMA EditKeeps ==
    ASSUME NEW b, NEW a, NEW d, NEW kind, NEW before,
           BufferOK(d), kind \in EditKinds, before \in Texts, Rooted(d),
           d.redo = <<>>, d.undo # <<>>, d.last = kind,
           kind # "other" /\ a.run.kind = kind => d.run.kind = kind /\ Last(d.undo).text = d.run.text,
           kind # "other" /\ a.run.kind # kind => Last(d.undo).text = before
    PROVE  BufferInv(Edit(a, d, kind, before)) /\ Same(Edit(a, d, kind, before), d, {"tip", "run"})
<1> DEFINE t == d.text
           r == IF kind # "other" /\ a.run.kind = kind THEN d.run ELSE [kind |-> kind, text |-> before]
           p1 == [d EXCEPT !.tip = t]
           p2 == [p1 EXCEPT !.run = r]
<1>1. Edit(a, d, kind, before) = p2
  BY DEF Edit
<1>2. d \in Buffer /\ t \in Texts /\ d.run \in [kind : {"none", "insert", "delete", "other"}, text : Texts]
  BY Fields DEF Buffer
<1>3. /\ r \in [kind : {"none", "insert", "delete", "other"}, text : Texts]
      /\ r.kind = kind /\ (kind # "other" => Last(d.undo).text = r.text)
  BY <1>2 DEF EditKinds
<1> HIDE DEF t, r
<1>4. p1 \in Buffer /\ p1.tip = t /\ Same(p1, d, {"tip"})
  BY <1>2 DEF Buffer, Same, FieldNames
<1> HIDE DEF p1
<1>5. p2 \in Buffer /\ p2.run = r /\ Same(p2, p1, {"run"})
  BY <1>3, <1>4 DEF Buffer, Same, FieldNames
<1> HIDE DEF p2
<1>6. /\ Same(p2, d, {"tip", "run"}) /\ p2.tip = t /\ p2.text = d.text /\ p2.cursor = d.cursor
      /\ p2.undo = d.undo /\ p2.redo = d.redo /\ p2.last = d.last /\ p2.opened = d.opened
      /\ p2.dropped = d.dropped
  BY <1>4, <1>5 DEF Same, FieldNames
<1>7. BufferOK(p2)
  BY <1>5, <1>6 DEF BufferOK
<1>8. UndoIsWhole(p2)
  BY <1>3, <1>5, <1>6 DEF UndoIsWhole, Rooted, EditKinds, t
<1>9. RunsAgree(p2)
  BY <1>3, <1>5, <1>6 DEF RunsAgree
<1>. QED  BY <1>1, <1>6, <1>7, <1>8, <1>9 DEF BufferInv

\* The history is whole: the parts of it.
LEMMA InvParts ==
    ASSUME NEW b, BufferInv(b)
    PROVE  BufferOK(b) /\ Rooted(b) /\ RunsAgree(b) /\ UndoIsWhole(b)
BY DEF BufferInv, UndoIsWhole, Rooted

\* What an operation of the editor may change.
HistoryFields == EditFields \cup {"tip", "run"}

\* An edit of its own.
LEMMA OwnEdit ==
    ASSUME NEW b, BufferInv(b), NEW d, IsEdited(b, d, "other"), NEW before, before \in Texts
    PROVE  /\ BufferInv(Edit(b, d, "other", before)) /\ Same(Edit(b, d, "other", before), b, HistoryFields)
           /\ Edit(b, d, "other", before).dirty = TRUE
<1> DEFINE e == Edit(b, d, "other", before)
<1>1. BufferInv(e) /\ Same(e, d, {"tip", "run"})
  <2>1. /\ BufferOK(d) /\ "other" \in EditKinds /\ before \in Texts /\ Rooted(d)
        /\ d.redo = <<>> /\ d.undo # <<>> /\ d.last = "other"
    BY InvParts DEF IsEdited, EditKinds
  <2>. QED  BY <2>1, EditKeeps
<1> HIDE DEF e
<1>2. Same(e, b, HistoryFields) /\ e.dirty = TRUE
  BY <1>1 DEF IsEdited, Same, FieldNames, EditFields, HistoryFields
<1>. QED  BY <1>1, <1>2 DEF e

\* An edit of a run.
LEMMA RunEdit ==
    ASSUME NEW b, BufferInv(b), NEW kind, kind \in Runs, NEW d, IsEdited(b, d, kind),
           IF GoesOn(b, kind) THEN d.undo = b.undo ELSE Last(d.undo).text = b.text
    PROVE  /\ BufferInv(Edit(b, d, kind, b.text)) /\ Same(Edit(b, d, kind, b.text), b, HistoryFields)
           /\ Edit(b, d, kind, b.text).dirty = TRUE
<1> DEFINE t == b.text
           e == Edit(b, d, kind, t)
<1>1. t \in Texts /\ kind \in EditKinds /\ kind # "other"
  BY InvParts, Fields DEF Runs, EditKinds
<1>2. d.run = b.run
  BY DEF IsEdited, Same, FieldNames, EditFields
<1>3. b.run.kind = kind => GoesOn(b, kind) /\ Last(b.undo).text = b.run.text
  BY InvParts DEF UndoIsWhole, RunsAgree, Runs, GoesOn
<1>4. b.run.kind # kind => ~GoesOn(b, kind)
  BY InvParts DEF RunsAgree, Runs, GoesOn
<1>5. BufferInv(e) /\ Same(e, d, {"tip", "run"})
  <2>1. /\ BufferOK(d) /\ Rooted(d) /\ d.redo = <<>> /\ d.undo # <<>> /\ d.last = kind
        /\ kind # "other" /\ b.run.kind = kind => d.run.kind = kind /\ Last(d.undo).text = d.run.text
        /\ kind # "other" /\ b.run.kind # kind => Last(d.undo).text = t
    BY <1>1, <1>2, <1>3, <1>4, InvParts DEF IsEdited
  <2>. QED  BY <1>1, <2>1, EditKeeps
<1> HIDE DEF e
<1>6. Same(e, b, HistoryFields) /\ e.dirty = TRUE
  BY <1>5 DEF IsEdited, Same, FieldNames, EditFields, HistoryFields
<1>. QED  BY <1>5, <1>6 DEF e

\* A run of edits that a character starts over a selection begins after the selection is gone.
LEMMA TypeKeeps ==
    ASSUME NEW b, BufferInv(b), NEW s, s \in Texts
    PROVE  LET e == Edit(IF HasSelection(b) THEN Unrun(b) ELSE b, InsertText(b, s, "insert"),
                         "insert", DeleteSelection(b).text)
           IN  BufferInv(e) /\ Same(e, b, HistoryFields) /\ e.dirty = TRUE
<1> DEFINE before == DeleteSelection(b).text
           d == InsertText(b, s, "insert")
<1>1. "insert" \in EditKinds /\ "insert" \in Runs /\ BufferOK(b) /\ b \in Buffer /\ Rooted(b)
  BY InvParts DEF EditKinds, Runs, BufferOK
<1>2. /\ IsEdited(b, d, "insert")
      /\ IF GoesOn(DeleteSelection(b), "insert") THEN d.undo = DeleteSelection(b).undo
                                                 ELSE Last(d.undo).text = before
  BY <1>1, InsertTextOK
<1>3. CASE HasSelection(b)
  <2> DEFINE a == Unrun(b)
             e == Edit(a, d, "insert", before)
  <2>1. a.run.kind = "none"
    BY <1>1 DEF Unrun, NoRun, Buffer
  <2>2. IsEdited(b, DeleteSelection(b), "other")
    BY <1>1, <1>3, DeleteSelectionOK
  <2>3. before \in Texts
    BY <2>2, Fields DEF IsEdited
  <2>4. Last(d.undo).text = before
    BY <1>2, <2>2 DEF IsEdited, GoesOn
  <2>5. /\ BufferOK(d) /\ Rooted(d) /\ d.redo = <<>> /\ d.undo # <<>> /\ d.last = "insert"
    BY <1>1, <1>2 DEF IsEdited
  <2> HIDE DEF a, d, before
  <2>6. BufferInv(e) /\ Same(e, d, {"tip", "run"})
    <3>1. ~("insert" # "other" /\ a.run.kind = "insert")
      BY <2>1
    <3>. QED  BY <1>1, <2>3, <2>4, <2>5, <3>1, EditKeeps
  <2> HIDE DEF e
  <2>7. Same(e, b, HistoryFields) /\ e.dirty = TRUE
    BY <1>2, <2>6 DEF IsEdited, Same, FieldNames, EditFields, HistoryFields
  <2>. QED  BY <1>3, <2>6, <2>7 DEF a, d, before, e
<1>4. CASE ~HasSelection(b)
  <2>1. DeleteSelection(b) = b
    BY <1>1, <1>4, DeleteSelectionOK
  <2>2. IF GoesOn(b, "insert") THEN d.undo = b.undo ELSE Last(d.undo).text = b.text
    BY <1>2, <2>1
  <2> DEFINE e == Edit(b, d, "insert", b.text)
  <2> HIDE DEF d
  <2>3. BufferInv(e) /\ Same(e, b, HistoryFields) /\ e.dirty = TRUE
    BY <1>1, <1>2, <2>2, RunEdit
  <2>. QED  BY <1>4, <2>1, <2>3 DEF d
<1>. QED  BY <1>3, <1>4

-----------------------------------------------------------------------------
(* Undo and redo                                                            *)

\* The first of the snapshots after one more is taken.
LEMMA OneMore ==
    ASSUME NEW s, s \in Seq(Snap), NEW x, x \in Snap
    PROVE  /\ Append(s, x) \in Seq(Snap) /\ Append(s, x) # <<>>
           /\ Head(Append(s, x)) = (IF s = <<>> THEN x ELSE Head(s)) /\ Last(Append(s, x)) = x
<1> DEFINE g == Append(s, x)
<1>1. /\ g \in Seq(Snap) /\ Len(g) = Len(s) + 1 /\ g[Len(s) + 1] = x /\ Len(s) \in Nat
      /\ \A i \in 1..Len(s) : g[i] = s[i]
  BY AppendProperties
<1> HIDE DEF g
<1>2. g # <<>> /\ Head(g) = g[1] /\ Last(g) = x
  BY <1>1 DEF Last
<1>3. s = <<>> <=> Len(s) = 0
  BY EmptySeq
<1>4. s # <<>> => Head(s) = s[1] /\ 1 \in 1..Len(s)
  BY <1>1, <1>3
<1>. QED  BY <1>1, <1>2, <1>3, <1>4 DEF g

\* The first of the snapshots after the last one is taken away.
LEMMA OneLess ==
    ASSUME NEW s, s \in Seq(Snap), s # <<>>
    PROVE  /\ Front(s) \in Seq(Snap) /\ Last(s) \in Snap
           /\ Head(s) = IF Front(s) = <<>> THEN Last(s) ELSE Head(Front(s))
<1> DEFINE f == Front(s)
           n == Len(s)
<1>1. n \in Nat \ {0} /\ s[n] \in Snap /\ Last(s) = s[n] /\ Head(s) = s[1]
  BY EmptySeq DEF Last
<1>2. f = SubSeq(s, 1, n - 1)
  BY DEF Front
<1> HIDE DEF n
<1>3. \A i \in 1..(n - 1) : s[i] \in Snap
  BY <1>1 DEF n
<1>4. /\ f \in Seq(Snap) /\ Len(f) = (IF 1 <= n - 1 THEN n - 1 - 1 + 1 ELSE 0)
      /\ \A i \in 1..(n - 1 - 1 + 1) : f[i] = s[1 + i - 1]
  BY <1>1, <1>2, <1>3, SubSeqProperties
<1> HIDE DEF f
<1>5. Len(f) = n - 1
  BY <1>1, <1>4
<1>6. CASE n = 1
  BY <1>1, <1>4, <1>5, <1>6, EmptySeq DEF f
<1>7. CASE n # 1
  <2>1. f # <<>> /\ Head(f) = f[1] /\ f[1] = s[1]
    BY <1>1, <1>4, <1>5, <1>7
  <2>. QED  BY <1>1, <1>4, <2>1 DEF f
<1>. QED  BY <1>6, <1>7

\* What a snapshot brings back.
LEMMA RestoredOK ==
    ASSUME NEW b, b \in Buffer, NEW s, s \in Snap
    PROVE  /\ BufferOK(Unrun(Restored(b, s)))
           /\ Same(Unrun(Restored(b, s)), b, {"text", "cursor", "anchor", "dirty", "last", "run"})
           /\ Unrun(Restored(b, s)).text = s.text /\ Unrun(Restored(b, s)).dirty = TRUE
           /\ Unrun(Restored(b, s)).last = "other" /\ Unrun(Restored(b, s)).run.kind = "none"
<1> DEFINE t == s.text
           c == Min({s.cursor, Len(s.text)})
           a == s.anchor
           l == "other"
           r == NoRun
           p1 == [b EXCEPT !.text = t]
           p2 == [p1 EXCEPT !.cursor = c]
           p3 == [p2 EXCEPT !.anchor = a]
           p4 == [p3 EXCEPT !.dirty = TRUE]
           p5 == [p4 EXCEPT !.last = l]
           p6 == [p5 EXCEPT !.run = r]
<1>1. Unrun(Restored(b, s)) = p6
  BY DEF Restored, Unrun
<1>2. t \in Texts /\ s.cursor \in Nat /\ a \in Int /\ Len(t) \in Nat
  BY DEF Snap, Texts
<1>3. c \in Nat /\ c <= Len(t)
  <2> DEFINE k == s.cursor
             n == Len(t)
  <2>1. k \in Nat /\ n \in Nat /\ c = Min({k, n})
    BY <1>2
  <2> HIDE DEF k, n, c
  <2>2. Min({k, n}) = IF k <= n THEN k ELSE n
    BY <2>1, MinOfTwo
  <2>. QED  BY <2>1, <2>2 DEF n
<1>4. r \in [kind : {"none", "insert", "delete", "other"}, text : Texts] /\ r.kind = "none"
  BY DEF NoRun, Texts
<1> HIDE DEF t, c, a, r
<1>5. p1 \in Buffer /\ p1.text = t /\ Same(p1, b, {"text"})
  BY <1>2 DEF Buffer, Same, FieldNames
<1> HIDE DEF p1
<1>6. p2 \in Buffer /\ p2.cursor = c /\ Same(p2, p1, {"cursor"})
  BY <1>3, <1>5 DEF Buffer, Same, FieldNames
<1> HIDE DEF p2
<1>7. p3 \in Buffer /\ Same(p3, p2, {"anchor"})
  BY <1>2, <1>6 DEF Buffer, Same, FieldNames
<1> HIDE DEF p3
<1>8. p4 \in Buffer /\ p4.dirty = TRUE /\ Same(p4, p3, {"dirty"})
  BY <1>7 DEF Buffer, Same, FieldNames
<1> HIDE DEF p4
<1>9. p5 \in Buffer /\ p5.last = "other" /\ Same(p5, p4, {"last"})
  BY <1>8 DEF Buffer, Same, FieldNames
<1> HIDE DEF p5
<1>10. p6 \in Buffer /\ p6.run = r /\ Same(p6, p5, {"run"})
  BY <1>4, <1>9 DEF Buffer, Same, FieldNames
<1> HIDE DEF p6
<1>11. /\ p6.text = t /\ p6.cursor = c /\ p6.dirty = TRUE /\ p6.last = "other"
       /\ Same(p6, b, {"text", "cursor", "anchor", "dirty", "last", "run"})
  BY <1>5, <1>6, <1>7, <1>8, <1>9, <1>10 DEF Same, FieldNames
<1>12. BufferOK(p6)
  BY <1>3, <1>10, <1>11 DEF BufferOK
<1>. QED  BY <1>1, <1>4, <1>10, <1>11, <1>12 DEF t

\* Undo keeps the history whole.
LEMMA UndoKeeps ==
    ASSUME NEW b, BufferInv(b), b.undo # <<>>
    PROVE  /\ BufferInv(Unrun(ApplyUndo(b))) /\ Same(Unrun(ApplyUndo(b)), b, HistoryFields)
           /\ Unrun(ApplyUndo(b)).dirty = TRUE
<1> DEFINE x == Snapshot(b)
           y == Last(b.undo)
           u == Front(b.undo)
           r == Append(b.redo, x)
           p1 == [b EXCEPT !.redo = r]
           p2 == [p1 EXCEPT !.undo = u]
           e == Unrun(Restored(p2, y))
<1>1. Unrun(ApplyUndo(b)) = e
  BY DEF ApplyUndo
<1>2. b \in Buffer /\ b.undo \in Seq(Snap) /\ b.redo \in Seq(Snap) /\ x \in Snap /\ x.text = b.text
  BY InvParts, Fields, SnapshotOK DEF BufferOK
<1>3. /\ u \in Seq(Snap) /\ y \in Snap /\ Head(b.undo) = IF u = <<>> THEN y ELSE Head(u)
  BY <1>2, OneLess
<1> HIDE DEF x
<1>4. /\ r \in Seq(Snap) /\ r # <<>> /\ Head(r) = IF b.redo = <<>> THEN x ELSE Head(b.redo)
  BY <1>2, OneMore
<1> HIDE DEF y, u, r
<1>5. p1 \in Buffer /\ p1.redo = r /\ Same(p1, b, {"redo"})
  BY <1>2, <1>4 DEF Buffer, Same, FieldNames
<1> HIDE DEF p1
<1>6. p2 \in Buffer /\ p2.undo = u /\ Same(p2, p1, {"undo"})
  BY <1>3, <1>5 DEF Buffer, Same, FieldNames
<1> HIDE DEF p2
<1>7. /\ BufferOK(e) /\ Same(e, p2, {"text", "cursor", "anchor", "dirty", "last", "run"})
      /\ e.text = y.text /\ e.dirty = TRUE /\ e.last = "other" /\ e.run.kind = "none"
  BY <1>3, <1>6, RestoredOK
<1> HIDE DEF e
<1>8. /\ e.undo = u /\ e.redo = r /\ e.tip = b.tip /\ e.opened = b.opened /\ e.dropped = b.dropped
      /\ Same(e, b, HistoryFields)
  BY <1>5, <1>6, <1>7 DEF Same, FieldNames, HistoryFields, EditFields
<1>9. /\ b.dropped \/ b.opened = Head(b.undo).text
      /\ b.tip = IF b.redo = <<>> THEN b.text ELSE Head(b.redo).text
  BY InvParts DEF UndoIsWhole
<1>10. /\ e.dropped \/ e.opened = IF e.undo = <<>> THEN e.text ELSE Head(e.undo).text
       /\ e.tip = IF e.redo = <<>> THEN e.text ELSE Head(e.redo).text
  BY <1>2, <1>3, <1>4, <1>7, <1>8, <1>9
<1>. QED  BY <1>1, <1>7, <1>8, <1>10 DEF BufferInv, UndoIsWhole, RunsAgree, Runs

\* And so does redo.
LEMMA RedoKeeps ==
    ASSUME NEW b, BufferInv(b), b.redo # <<>>
    PROVE  /\ BufferInv(Unrun(ApplyRedo(b))) /\ Same(Unrun(ApplyRedo(b)), b, HistoryFields)
           /\ Unrun(ApplyRedo(b)).dirty = TRUE
<1> DEFINE x == Snapshot(b)
           y == Last(b.redo)
           u == Append(b.undo, x)
           r == Front(b.redo)
           p1 == [b EXCEPT !.undo = u]
           p2 == [p1 EXCEPT !.redo = r]
           e == Unrun(Restored(p2, y))
<1>1. Unrun(ApplyRedo(b)) = e
  BY DEF ApplyRedo
<1>2. b \in Buffer /\ b.undo \in Seq(Snap) /\ b.redo \in Seq(Snap) /\ x \in Snap /\ x.text = b.text
  BY InvParts, Fields, SnapshotOK DEF BufferOK
<1>3. /\ r \in Seq(Snap) /\ y \in Snap /\ Head(b.redo) = IF r = <<>> THEN y ELSE Head(r)
  BY <1>2, OneLess
<1> HIDE DEF x
<1>4. /\ u \in Seq(Snap) /\ u # <<>> /\ Head(u) = IF b.undo = <<>> THEN x ELSE Head(b.undo)
  BY <1>2, OneMore
<1> HIDE DEF y, u, r
<1>5. p1 \in Buffer /\ p1.undo = u /\ Same(p1, b, {"undo"})
  BY <1>2, <1>4 DEF Buffer, Same, FieldNames
<1> HIDE DEF p1
<1>6. p2 \in Buffer /\ p2.redo = r /\ Same(p2, p1, {"redo"})
  BY <1>3, <1>5 DEF Buffer, Same, FieldNames
<1> HIDE DEF p2
<1>7. /\ BufferOK(e) /\ Same(e, p2, {"text", "cursor", "anchor", "dirty", "last", "run"})
      /\ e.text = y.text /\ e.dirty = TRUE /\ e.last = "other" /\ e.run.kind = "none"
  BY <1>3, <1>6, RestoredOK
<1> HIDE DEF e
<1>8. /\ e.undo = u /\ e.redo = r /\ e.tip = b.tip /\ e.opened = b.opened /\ e.dropped = b.dropped
      /\ Same(e, b, HistoryFields)
  BY <1>5, <1>6, <1>7 DEF Same, FieldNames, HistoryFields, EditFields
<1>9. /\ b.dropped \/ b.opened = IF b.undo = <<>> THEN b.text ELSE Head(b.undo).text
      /\ b.tip = Head(b.redo).text
  BY InvParts DEF UndoIsWhole
<1>10. /\ e.dropped \/ e.opened = IF e.undo = <<>> THEN e.text ELSE Head(e.undo).text
       /\ e.tip = IF e.redo = <<>> THEN e.text ELSE Head(e.redo).text
  BY <1>2, <1>3, <1>4, <1>7, <1>8, <1>9
<1>. QED  BY <1>1, <1>7, <1>8, <1>10 DEF BufferInv, UndoIsWhole, RunsAgree, Runs

-----------------------------------------------------------------------------
(* Offsets                                                                  *)

\* A set of numbers has a least one.
LEMMA LeastNumber ==
    ASSUME NEW T \in SUBSET Nat, T # {}
    PROVE  \E n \in T : \A m \in T : n <= m
<1>1. PICK n \in T : \A m \in T : <<m, n>> \notin OpToRel(<, Nat)
  BY WFMin, NatLessThanWellFounded, Zenon
<1>2. \A m \in T : ~(m < n)
  BY <1>1, Zenon DEF OpToRel
<1>. QED  BY <1>2

\* Min and Max of offsets of a text.
LEMMA MinOfSome ==
    ASSUME NEW n, n \in Nat, NEW S, S \subseteq 0..n, S # {}
    PROVE  Min(S) \in S /\ Min(S) \in 0..n
<1>1. S \in SUBSET Nat
  OBVIOUS
<1>2. PICK m \in S : \A k \in S : m <= k
  BY <1>1, LeastNumber
<1>3. Min(S) \in S
  BY <1>2 DEF Min
<1>. QED  BY <1>3

LEMMA MaxOfSome ==
    ASSUME NEW n, n \in Nat, NEW S, S \subseteq 0..n, S # {}
    PROVE  Max(S) \in S /\ Max(S) \in 0..n
<1> DEFINE T == {k \in Nat : \A x \in S : x <= k}
<1>1. T \in SUBSET Nat /\ n \in T
  OBVIOUS
<1> HIDE DEF T
<1>2. PICK m \in T : \A k \in T : m <= k
  BY <1>1, LeastNumber
<1>3. m \in Nat /\ \A x \in S : x <= m
  BY <1>2 DEF T
<1>4. m \in S
  <2>1. SUFFICES ASSUME m \notin S PROVE FALSE
    OBVIOUS
  <2>2. PICK x \in S : x \in 0..n
    OBVIOUS
  <2>3. m # 0 /\ \A y \in S : y <= m - 1
    BY <1>3, <2>1, <2>2
  <2>4. m - 1 \in T
    BY <1>3, <2>3 DEF T
  <2>. QED  BY <1>2, <1>3, <2>4
<1>5. Max(S) \in S
  BY <1>3, <1>4 DEF Max
<1>. QED  BY <1>5

\* Skipping bytes ends in the text.
LEMMA SkipOnOK ==
    ASSUME NEW t, t \in Texts, NEW c, c \in 0..Len(t), NEW bytes
    PROVE  SkipOn(t, c, bytes) \in c..Len(t)
<1> DEFINE n == Len(t)
           S == {q \in c..n : q = n \/ t[q + 1] \notin bytes}
<1>1. n \in Nat /\ c \in 0..n
  BY DEF Texts
<1>2. S \subseteq 0..n /\ S \subseteq c..n /\ n \in S /\ SkipOn(t, c, bytes) = Min(S)
  BY <1>1 DEF SkipOn
<1> HIDE DEF S, n
<1>3. Min(S) \in S
  BY <1>1, <1>2, MinOfSome
<1>. QED  BY <1>2, <1>3 DEF n

LEMMA SkipBackOK ==
    ASSUME NEW t, NEW c, c \in Nat, NEW bytes
    PROVE  SkipBack(t, c, bytes) \in 0..c
<1> DEFINE S == {0} \cup {q \in 1..c : t[q] \notin bytes}
<1>1. S \subseteq 0..c /\ 0 \in S /\ SkipBack(t, c, bytes) = Max(S)
  BY DEF SkipBack
<1> HIDE DEF S
<1>. QED  BY <1>1, MaxOfSome

\* Where the caret goes by a character, a word or a line is in the text.
LEMMA BackOK ==
    ASSUME NEW t, t \in Texts, NEW c, c \in 0..Len(t)
    PROVE  PrevUtf8Boundary(t, c) \in 0..Len(t) /\ PrevWordBoundary(t, c) \in 0..Len(t)
<1>1. c \in Nat /\ Len(t) \in Nat /\ c <= Len(t)
  BY DEF Texts
<1>2. SkipBack(t, c, Trail) \in 0..c
  BY <1>1, SkipBackOK
<1>3. PrevUtf8Boundary(t, c) \in 0..Len(t)
  <2> DEFINE k == SkipBack(t, c, Trail) - 1
  <2>1. k \in Int /\ 0 \in Int /\ k <= Len(t) /\ PrevUtf8Boundary(t, c) = Max({0, k})
    BY <1>1, <1>2 DEF PrevUtf8Boundary
  <2> HIDE DEF k
  <2>2. Max({0, k}) = IF 0 <= k THEN k ELSE 0
    BY <2>1, MaxOfTwo
  <2>. QED  BY <1>1, <2>1, <2>2
<1> DEFINE p == SkipBack(t, c, Space)
<1>4. p \in 0..c
  BY <1>1, SkipBackOK
<1>5. PrevWordBoundary(t, c) = IF p = 0 THEN 0
                               ELSE IF t[p] = "n" THEN (IF p = c THEN p - 1 ELSE p)
                               ELSE SkipBack(t, p, Alike(t[p]))
  BY DEF PrevWordBoundary
<1> HIDE DEF p
<1>6. SkipBack(t, p, Alike(t[p])) \in 0..p
  BY <1>1, <1>4, SkipBackOK
<1>7. PrevWordBoundary(t, c) \in 0..Len(t)
  BY <1>1, <1>4, <1>5, <1>6
<1>. QED  BY <1>3, <1>7

LEMMA OnOK ==
    ASSUME NEW t, t \in Texts, NEW c, c \in 0..Len(t)
    PROVE  NextUtf8Boundary(t, c) \in 0..Len(t) /\ NextWordBoundary(t, c) \in 0..Len(t)
<1>1. c \in Nat /\ Len(t) \in Nat /\ c <= Len(t)
  BY DEF Texts
<1>2. CASE c >= Len(t)
  BY <1>1, <1>2 DEF NextUtf8Boundary, NextWordBoundary
<1>3. CASE ~(c >= Len(t))
  <2> DEFINE k == c + 1
             e == SkipOn(t, c, Alike(t[c + 1]))
  <2>1. k \in 0..Len(t)
    BY <1>1, <1>3
  <2>2. NextUtf8Boundary(t, c) = SkipOn(t, k, Trail)
        /\ NextWordBoundary(t, c) = IF t[k] = "n" THEN k ELSE SkipOn(t, e, Space)
    BY <1>3 DEF NextUtf8Boundary, NextWordBoundary
  <2>3. e \in c..Len(t)
    BY <1>1, SkipOnOK
  <2> HIDE DEF k, e
  <2>4. e \in 0..Len(t)
    BY <1>1, <2>3
  <2>5. SkipOn(t, k, Trail) \in k..Len(t) /\ SkipOn(t, e, Space) \in e..Len(t)
    BY <2>1, <2>4, SkipOnOK
  <2>. QED  BY <1>1, <2>1, <2>2, <2>4, <2>5
<1>. QED  BY <1>2, <1>3

LEMMA LineOK ==
    ASSUME NEW t, t \in Texts, NEW c, c \in 0..Len(t)
    PROVE  LineStart(t, c) \in 0..c /\ LineEnd(t, c) \in 0..Len(t) /\ Col(t, c) \in Nat
<1> DEFINE S == {s \in LineStarts(t) : s <= c}
<1>1. c \in Nat /\ Len(t) \in Nat /\ c <= Len(t)
  BY DEF Texts
<1>2. S \subseteq 0..c /\ 0 \in S /\ LineStart(t, c) = Max(S)
  BY <1>1 DEF LineStarts, LineStart, Texts
<1> HIDE DEF S
<1>3. LineStart(t, c) \in 0..c
  BY <1>1, <1>2, MaxOfSome
<1> DEFINE s == LineStart(t, c)
<1>4. LineEnd(t, c) = SkipOn(t, s, Bytes \ {"n"}) /\ Col(t, c) = c - s
  BY DEF LineEnd, Col
<1> HIDE DEF s
<1>5. s \in 0..Len(t)
  BY <1>1, <1>3 DEF s
<1>6. SkipOn(t, s, Bytes \ {"n"}) \in s..Len(t)
  BY <1>5, SkipOnOK
<1>. QED  BY <1>1, <1>3, <1>4, <1>5, <1>6 DEF s

\* The starts of lines are counted: each line has one.
LEMMA StartsCounted ==
    ASSUME NEW t, t \in Texts
    PROVE  \A n \in 0..Len(t) :
              /\ IsFiniteSet({s \in LineStarts(t) : s <= n})
              /\ Cardinality({s \in LineStarts(t) : s <= n}) \in Nat \ {0}
              /\ \A w \in 0..(Cardinality({s \in LineStarts(t) : s <= n}) - 1) :
                    \E s \in LineStarts(t) : s <= n /\ Line(t, s) = w
<1> DEFINE S(n) == {s \in LineStarts(t) : s <= n}
           P(n) == /\ IsFiniteSet(S(n)) /\ Cardinality(S(n)) \in Nat \ {0}
                   /\ \A w \in 0..(Cardinality(S(n)) - 1) : \E s \in LineStarts(t) : s <= n /\ Line(t, s) = w
           Bad == {n \in 0..Len(t) : ~P(n)}
<1>1. Len(t) \in Nat /\ LineStarts(t) \subseteq 0..Len(t) /\ 0 \in LineStarts(t)
  BY DEF Texts, LineStarts
<1>2. \A n : Line(t, n) = Cardinality(S(n)) - 1
  BY DEF Line
<1>3. P(0)
  <2>1. S(0) = {0}
    BY <1>1
  <2>2. IsFiniteSet(S(0)) /\ Cardinality(S(0)) = 1
    BY <2>1, FS_Singleton
  <2> HIDE DEF S
  <2>. QED  BY <1>1, <1>2, <2>2
<1>4. ASSUME NEW n \in Nat, n + 1 \in 0..Len(t), P(n) PROVE P(n + 1)
  <2> DEFINE m == n + 1
  <2>1. m \in Nat /\ n \in 0..Len(t) /\ m \notin S(n)
    BY <1>1, <1>4
  <2>2. CASE m \in LineStarts(t)
    <3>1. S(m) = S(n) \cup {m}
      BY <1>1, <2>1, <2>2
    <3>2. IsFiniteSet(S(n)) /\ Cardinality(S(n)) \in Nat \ {0}
      BY <1>4
    <3>3. IsFiniteSet(S(m)) /\ Cardinality(S(m)) = Cardinality(S(n)) + 1
      <4> DEFINE A == S(n)
      <4>1. IsFiniteSet(A) /\ m \notin A /\ S(m) = A \cup {m}
        BY <2>1, <3>1, <3>2
      <4> HIDE DEF A, m
      <4>2. IsFiniteSet(A \cup {m}) /\ Cardinality(A \cup {m}) = Cardinality(A) + 1
        BY <4>1, FS_AddElement
      <4>3. IsFiniteSet(S(m)) /\ Cardinality(S(m)) = Cardinality(A) + 1
        BY <4>1, <4>2, Zenon
      <4>. QED  BY <4>3 DEF A
    <3>4. Line(t, m) = Cardinality(S(n))
      BY <1>2, <3>2, <3>3
    <3>5. ASSUME NEW w \in 0..(Cardinality(S(m)) - 1) PROVE \E s \in LineStarts(t) : s <= m /\ Line(t, s) = w
      <4>1. CASE w = Cardinality(S(n))
        <5>1. m <= m /\ Line(t, m) = w
          BY <2>1, <3>4, <4>1
        <5>. QED  BY <2>2, <5>1, Zenon
      <4>2. CASE w # Cardinality(S(n))
        <5>1. w \in 0..(Cardinality(S(n)) - 1)
          BY <3>2, <3>3, <3>5, <4>2
        <5>2. PICK s \in LineStarts(t) : s <= n /\ Line(t, s) = w
          BY <1>4, <5>1
        <5>3. s <= m
          BY <1>1, <2>1, <5>2
        <5>. QED  BY <5>2, <5>3
      <4>. QED  BY <4>1, <4>2
    <3>. QED  BY <3>2, <3>3, <3>5
  <2>3. CASE m \notin LineStarts(t)
    <3>1. S(m) = S(n)
      BY <1>1, <2>1, <2>3
    <3>2. ASSUME NEW w \in 0..(Cardinality(S(m)) - 1) PROVE \E s \in LineStarts(t) : s <= m /\ Line(t, s) = w
      <4>1. PICK s \in LineStarts(t) : s <= n /\ Line(t, s) = w
        BY <1>4, <3>1, <3>2
      <4>2. s <= m
        BY <1>1, <2>1, <4>1
      <4>. QED  BY <4>1, <4>2
    <3>. QED  BY <1>4, <3>1, <3>2
  <2>. QED  BY <2>2, <2>3
<1>5. Bad = {}
  <2>1. SUFFICES ASSUME Bad # {} PROVE FALSE
    OBVIOUS
  <2> HIDE DEF P
  <2>2. Bad \in SUBSET Nat
    OBVIOUS
  <2>3. PICK n \in Bad : \A m \in Bad : n <= m
    BY <2>1, <2>2, LeastNumber
  <2>4. n # 0 /\ n \in Nat /\ n \in 0..Len(t) /\ ~P(n)
    BY <1>3, <2>3
  <2> DEFINE k == n - 1
  <2>5. k \in Nat /\ k + 1 = n /\ k \in 0..Len(t) /\ ~(n <= k)
    BY <1>1, <2>4
  <2>6. P(k)
    BY <2>3, <2>5
  <2> HIDE DEF k
  <2>7. k + 1 \in 0..Len(t) /\ ~P(k + 1)
    BY <2>4, <2>5
  <2>. QED  BY <1>4, <2>5, <2>6, <2>7
<1>. QED  BY <1>5

\* The offset of a line and a column.
LEMMA LineColOK ==
    ASSUME NEW t, t \in Texts, NEW line, line \in Int, NEW col, col \in Nat
    PROVE  LineColToByte(t, line, col) \in Int
<1> DEFINE C == Cardinality(LineStarts(t))
           wanted == Max({0, Min({line, C - 1})})
           start == CHOOSE s \in LineStarts(t) : Line(t, s) = wanted
           x == start + col
           y == LineEnd(t, start)
<1>1. LineColToByte(t, line, col) = Min({x, y})
  BY DEF LineColToByte
<1>2. Len(t) \in Nat /\ Len(t) \in 0..Len(t) /\ LineStarts(t) \subseteq 0..Len(t)
  BY DEF Texts, LineStarts
<1>3. {s \in LineStarts(t) : s <= Len(t)} = LineStarts(t)
  BY <1>2
<1>4. C \in Nat \ {0} /\ \A w \in 0..(C - 1) : \E s \in LineStarts(t) : Line(t, s) = w
  BY <1>2, <1>3, StartsCounted
<1>5. wanted \in 0..(C - 1)
  <2> DEFINE n == C - 1
  <2>1. n \in Nat /\ wanted = Max({0, Min({line, n})})
    BY <1>4
  <2> HIDE DEF n, wanted
  <2>2. Max({0, Min({line, n})}) \in 0..n
    BY <2>1, Clamped
  <2>. QED  BY <2>1, <2>2 DEF n
<1> HIDE DEF wanted
<1>6. start \in LineStarts(t)
  BY <1>4, <1>5
<1> HIDE DEF start
<1>7. start \in 0..Len(t)
  BY <1>2, <1>6
<1>8. x \in Int
  BY <1>2, <1>7
<1>9. y \in Int
  BY <1>2, <1>7, LineOK
<1> HIDE DEF x, y
<1>10. Min({x, y}) \in Int
  BY <1>8, <1>9, MinOfTwo
<1>. QED  BY <1>1, <1>10

-----------------------------------------------------------------------------
(* The editor                                                               *)

EditorTypeOK ==
    /\ buffers \in Seq(Buffer) /\ active \in 0..Len(buffers)
    /\ disk \in [Paths -> Texts \cup {Missing}] /\ clip \in Texts
BuffersOK == \A i \in DOMAIN buffers : BufferInv(buffers[i])

\* A tab without the mark of unsaved work holds what is on disk, or is behind.
OnDisk(b, d) == b.dirty \/ b.behind \/ d[b.path] = b.text
DiskInv == \A i \in DOMAIN buffers : OnDisk(buffers[i], disk)

\* What a step keeps.
Keeps == EditorTypeOK' /\ BuffersOK' /\ (DiskInv => DiskInv')

\* c is what an input makes of a tab b.
Unsaved(b, c) == c.dirty \/ (c.text = b.text /\ c.dirty = b.dirty /\ c.behind = b.behind)
Kept(b, c) == BufferInv(c) /\ c.path = b.path /\ Unsaved(b, c)

LEMMA KeptByInput ==
    ASSUME EditorTypeOK, BuffersOK, active # 0, NEW c, Kept(buffers[active], c), clip' \in Texts,
           buffers' = [buffers EXCEPT ![active] = c], UNCHANGED <<active, disk>>
    PROVE  Keeps
<1>1. /\ active \in DOMAIN buffers /\ c \in Buffer /\ DOMAIN buffers' = DOMAIN buffers
      /\ buffers \in Seq(Buffer) /\ buffers' \in Seq(Buffer) /\ Len(buffers') = Len(buffers)
      /\ \A i \in DOMAIN buffers : buffers'[i] = IF i = active THEN c ELSE buffers[i]
  <2>1. c \in Buffer /\ buffers \in Seq(Buffer) /\ active \in 1..Len(buffers)
    BY DEF EditorTypeOK, Kept, BufferInv, BufferOK
  <2>. QED  BY <2>1
<1>2. EditorTypeOK'
  BY <1>1 DEF EditorTypeOK
<1>3. BuffersOK'
  BY <1>1 DEF BuffersOK, Kept
<1>4. ASSUME DiskInv PROVE DiskInv'
  <2>1. SUFFICES ASSUME NEW i \in DOMAIN buffers PROVE OnDisk(buffers'[i], disk')
    BY <1>1 DEF DiskInv
  <2>2. OnDisk(buffers[i], disk) /\ disk' = disk
    BY <1>4 DEF DiskInv
  <2>3. CASE i = active
    <3>1. buffers'[i] = c /\ buffers[i] = buffers[active]
      BY <1>1, <2>3
    <3>. QED  BY <2>2, <3>1 DEF Kept, Unsaved, OnDisk
  <2>4. CASE i # active
    <3>1. buffers'[i] = buffers[i]
      BY <1>1, <2>4
    <3>. QED  BY <2>2, <3>1 DEF OnDisk
  <2>. QED  BY <2>3, <2>4
<1>. QED  BY <1>2, <1>3, <1>4 DEF Keeps

\* Operations that leave the history alone.
LEMMA SameHistory ==
    ASSUME NEW b, BufferInv(b), NEW c, BufferOK(c),
           Same(c, b, {"cursor", "anchor", "dirty"}) \/ Same(c, b, {"dirty", "behind"})
    PROVE  BufferInv(c)
<1>1. /\ c.text = b.text /\ c.undo = b.undo /\ c.redo = b.redo /\ c.last = b.last /\ c.opened = b.opened
      /\ c.tip = b.tip /\ c.run = b.run /\ c.dropped = b.dropped
  BY DEF Same, FieldNames
<1>. QED  BY <1>1 DEF BufferInv, UndoIsWhole, RunsAgree

\* Moving the caret.
LEMMA MoveKeeps ==
    ASSUME NEW b, BufferInv(b), NEW to, to \in Int, NEW extend, extend \in BOOLEAN
    PROVE  Kept(b, MoveCursorTo(b, to, extend))
<1> DEFINE c == MoveCursorTo(b, to, extend)
<1>1. BufferOK(b)
  BY InvParts
<1>2. BufferOK(c) /\ Same(c, b, {"cursor", "anchor"})
  BY <1>1, MoveOK
<1> HIDE DEF c
<1>3. /\ c.path = b.path /\ c.text = b.text /\ c.dirty = b.dirty /\ c.behind = b.behind
      /\ Same(c, b, {"cursor", "anchor", "dirty"})
  BY <1>2 DEF Same, FieldNames
<1>4. BufferInv(c)
  BY <1>2, <1>3, SameHistory
<1>. QED  BY <1>3, <1>4 DEF Kept, Unsaved, c

\* Ending a run of edits.
LEMMA MovesKeeps == ASSUME NEW b, BufferInv(b) PROVE Kept(b, Moves(b))
<1> DEFINE r == NoRun
           l == "none"
           p1 == [b EXCEPT !.run = r]
           p2 == [p1 EXCEPT !.last = l]
<1>1. Moves(b) = p2
  BY DEF Moves, Unrun
<1>2. b \in Buffer /\ BufferOK(b) /\ UndoIsWhole(b)
  BY InvParts DEF BufferOK
<1>3. r \in [kind : {"none", "insert", "delete", "other"}, text : Texts] /\ r.kind = "none"
  BY DEF NoRun, Texts
<1> HIDE DEF r
<1>4. p1 \in Buffer /\ p1.run = r /\ Same(p1, b, {"run"})
  BY <1>2, <1>3 DEF Buffer, Same, FieldNames
<1> HIDE DEF p1
<1>5. p2 \in Buffer /\ p2.last = "none" /\ Same(p2, p1, {"last"})
  BY <1>4 DEF Buffer, Same, FieldNames
<1> HIDE DEF p2
<1>6. /\ p2.path = b.path /\ p2.text = b.text /\ p2.dirty = b.dirty /\ p2.cursor = b.cursor
      /\ p2.undo = b.undo /\ p2.redo = b.redo /\ p2.opened = b.opened /\ p2.tip = b.tip
      /\ p2.dropped = b.dropped /\ p2.run = r /\ p2.behind = b.behind
  BY <1>4, <1>5 DEF Same, FieldNames
<1>7. BufferOK(p2) /\ UndoIsWhole(p2) /\ RunsAgree(p2)
  BY <1>2, <1>3, <1>5, <1>6 DEF BufferOK, UndoIsWhole, RunsAgree, Runs
<1>. QED  BY <1>1, <1>6, <1>7 DEF Kept, Unsaved, BufferInv

LEMMA KeptTwice ==
    ASSUME NEW b, NEW c, NEW d, Kept(b, c), Kept(c, d)
    PROVE  Kept(b, d)
BY DEF Kept, Unsaved

\* Selecting everything.
LEMMA AllSelectedKeeps == ASSUME NEW b, BufferInv(b) PROVE Kept(b, AllSelected(b))
<1> DEFINE z == 0
           n == Len(b.text)
           p1 == [b EXCEPT !.anchor = z]
           p2 == [p1 EXCEPT !.cursor = n]
<1>1. AllSelected(b) = p2
  BY DEF AllSelected
<1>2. b \in Buffer /\ n \in Nat /\ z \in Int
  BY InvParts, Fields
<1> HIDE DEF z, n
<1>3. p1 \in Buffer /\ Same(p1, b, {"anchor"})
  BY <1>2 DEF Buffer, Same, FieldNames
<1> HIDE DEF p1
<1>4. p2 \in Buffer /\ p2.cursor = n /\ Same(p2, p1, {"cursor"})
  BY <1>2, <1>3 DEF Buffer, Same, FieldNames
<1> HIDE DEF p2
<1>5. /\ Same(p2, b, {"cursor", "anchor", "dirty"}) /\ p2.path = b.path /\ p2.text = b.text
      /\ p2.dirty = b.dirty /\ p2.behind = b.behind
  BY <1>3, <1>4 DEF Same, FieldNames
<1>6. BufferOK(p2)
  BY <1>2, <1>4, <1>5 DEF BufferOK, n
<1>7. BufferInv(p2)
  BY <1>5, <1>6, SameHistory
<1>. QED  BY <1>1, <1>5, <1>7 DEF Kept, Unsaved

\* Edits, undo and redo, which mark the tab.
LEMMA KeptByHistory ==
    ASSUME NEW b, NEW c, BufferInv(c), Same(c, b, HistoryFields), c.dirty = TRUE
    PROVE  Kept(b, c)
<1>1. c.path = b.path
  BY DEF Same, FieldNames, HistoryFields, EditFields
<1>. QED  BY <1>1 DEF Kept, Unsaved

-----------------------------------------------------------------------------
(* The steps                                                                *)

\* An input on the tab that is shown.
LEMMA InputKeeps ==
    ASSUME EditorTypeOK, BuffersOK, OnBuffer, NEW c, Input(c), Kept(buffers[active], c)
    PROVE  Keeps
<1>1. /\ active # 0 /\ buffers' = [buffers EXCEPT ![active] = c] /\ UNCHANGED <<active, disk>>
      /\ clip' \in Texts
  BY DEF OnBuffer, Input, Becomes, EditorTypeOK
<1>. QED  BY <1>1, KeptByInput

\* The tab that is shown.
LEMMA ActiveTab ==
    ASSUME EditorTypeOK, BuffersOK, active # 0
    PROVE  /\ active \in DOMAIN buffers /\ BufferInv(buffers[active]) /\ BufferOK(buffers[active])
           /\ buffers[active].text \in Texts /\ buffers[active].cursor \in 0..Len(buffers[active].text)
<1>1. active \in DOMAIN buffers
  BY DEF EditorTypeOK
<1>2. BufferInv(buffers[active]) /\ BufferOK(buffers[active])
  BY <1>1, InvParts DEF BuffersOK
<1>. QED  BY <1>1, <1>2, Fields

LEMMA ClickStep == ASSUME EditorTypeOK, BuffersOK, Click PROVE Keeps
<1> DEFINE o == buffers[active]
<1>1. OnBuffer /\ active # 0
  BY DEF Click, OnBuffer
<1>2. PICK at, to \in Boundaries(Text), shift, dragged \in BOOLEAN :
         Input(IF dragged THEN MoveCursorTo(MoveCursorTo(o, at, shift), to, TRUE) ELSE MoveCursorTo(o, at, shift))
  BY DEF Click
<1>3. BufferInv(o) /\ at \in Int /\ to \in Int
  BY <1>1, ActiveTab DEF Boundaries
<1> DEFINE b == MoveCursorTo(o, at, shift)
           c == MoveCursorTo(b, to, TRUE)
<1> HIDE DEF o
<1>4. Kept(o, b)
  BY <1>3, MoveKeeps
<1>5. BufferInv(b)
  BY <1>4 DEF Kept
<1> HIDE DEF b
<1>6. Kept(b, c)
  BY <1>3, <1>5, MoveKeeps
<1>7. Kept(o, c)
  BY <1>4, <1>6, KeptTwice
<1> HIDE DEF c
<1> DEFINE e == IF dragged THEN c ELSE b
<1>8. Kept(o, e)
  BY <1>4, <1>7
<1>9. Input(e)
  BY <1>2 DEF b, c, o
<1> HIDE DEF e
<1>. QED  BY <1>1, <1>8, <1>9, InputKeeps DEF o

LEMMA RightClickStep == ASSUME EditorTypeOK, BuffersOK, RightClick PROVE Keeps
<1> DEFINE o == buffers[active]
           no == FALSE
<1>1. OnBuffer /\ active # 0
  BY DEF RightClick, OnBuffer
<1>2. PICK at \in Boundaries(Text) : Input(MoveCursorTo(o, at, no))
  BY DEF RightClick
<1>3. BufferInv(o) /\ at \in Int /\ no \in BOOLEAN
  BY <1>1, ActiveTab DEF Boundaries
<1> HIDE DEF o, no
<1>4. Kept(o, MoveCursorTo(o, at, no))
  BY <1>3, MoveKeeps
<1>. QED  BY <1>1, <1>2, <1>4, InputKeeps DEF o

LEMMA UndoStep == ASSUME EditorTypeOK, BuffersOK, Undo PROVE Keeps
<1> DEFINE o == buffers[active]
           c == Unrun(ApplyUndo(o))
<1>1. OnBuffer /\ active # 0 /\ o.undo # <<>> /\ Input(c)
  BY DEF Undo, OnBuffer
<1>2. BufferInv(o)
  BY <1>1, ActiveTab
<1> HIDE DEF o
<1>3. BufferInv(c) /\ Same(c, o, HistoryFields) /\ c.dirty = TRUE
  BY <1>1, <1>2, UndoKeeps
<1> HIDE DEF c
<1>4. Kept(o, c)
  BY <1>3, KeptByHistory
<1>. QED  BY <1>1, <1>4, InputKeeps DEF o

LEMMA RedoStep == ASSUME EditorTypeOK, BuffersOK, Redo PROVE Keeps
<1> DEFINE o == buffers[active]
           c == Unrun(ApplyRedo(o))
<1>1. OnBuffer /\ active # 0 /\ o.redo # <<>> /\ Input(c)
  BY DEF Redo, OnBuffer
<1>2. BufferInv(o)
  BY <1>1, ActiveTab
<1> HIDE DEF o
<1>3. BufferInv(c) /\ Same(c, o, HistoryFields) /\ c.dirty = TRUE
  BY <1>1, <1>2, RedoKeeps
<1> HIDE DEF c
<1>4. Kept(o, c)
  BY <1>3, KeptByHistory
<1>. QED  BY <1>1, <1>4, InputKeeps DEF o

LEMMA SelectAllStep == ASSUME EditorTypeOK, BuffersOK, SelectAll PROVE Keeps
<1> DEFINE o == buffers[active]
           c == AllSelected(o)
           d == Moves(c)
<1>1. OnBuffer /\ active # 0 /\ (Input(d) \/ Input(c))
  BY DEF SelectAll, OnBuffer, Moves
<1>2. BufferInv(o)
  BY <1>1, ActiveTab
<1> HIDE DEF o
<1>3. Kept(o, c)
  BY <1>2, AllSelectedKeeps
<1>4. BufferInv(c)
  BY <1>3 DEF Kept
<1> HIDE DEF c
<1>5. Kept(c, d)
  BY <1>4, MovesKeeps
<1>6. Kept(o, d)
  BY <1>3, <1>5, KeptTwice
<1> HIDE DEF d
<1>. QED  BY <1>1, <1>3, <1>6, InputKeeps DEF o

\* What is copied is a text.
LEMMA SelectedOK ==
    ASSUME NEW b, BufferOK(b), HasSelection(b)
    PROVE  Selected(b) \in Texts
<1> DEFINE t == b.text
           m == SelBegin(b) + 1
           e == SelEnd(b)
           l == Len(t)
           n == Min({e, l})
<1>1. t \in Texts /\ l \in Nat /\ e \in Nat /\ m \in Nat \ {0}
  BY Fields, SelectionEnds
<1>2. Selected(b) = SubSeq(t, m, n)
  BY DEF Selected
<1> HIDE DEF e, l
<1>3. n \in 0..l
  <2>1. e \in Int /\ l \in Int
    BY <1>1
  <2>2. Min({e, l}) = IF e <= l THEN e ELSE l
    BY <2>1, MinOfTwo
  <2>. QED  BY <1>1, <2>2
<1> HIDE DEF m, n, t
<1>4. SubSeq(t, m, n) \in Texts
  BY <1>1, <1>3, Stretch DEF l
<1>. QED  BY <1>2, <1>4

LEMMA CopyStep == ASSUME EditorTypeOK, BuffersOK, Copy PROVE Keeps
<1>1. active # 0 /\ HasSelection(buffers[active]) /\ clip' = Selected(buffers[active])
      /\ UNCHANGED <<buffers, active, disk>>
  BY DEF Copy, OnBuffer
<1>2. BufferOK(buffers[active])
  BY <1>1, ActiveTab
<1>3. clip' \in Texts
  BY <1>1, <1>2, SelectedOK
<1>. QED  BY <1>1, <1>3 DEF Keeps, EditorTypeOK, BuffersOK, DiskInv, OnDisk

LEMMA MenuCutStep == ASSUME EditorTypeOK, BuffersOK, MenuCut PROVE Keeps
<1> DEFINE o == buffers[active]
           t == o.text
           u == PushUndo(o, "other")
           d == DeleteSelection(u)
           c == Edit(o, d, "other", t)
<1>1. /\ active # 0 /\ HasSelection(o) /\ clip' = Selected(o)
      /\ buffers' = [buffers EXCEPT ![active] = c] /\ UNCHANGED <<active, disk>>
  BY DEF MenuCut, OnBuffer, Becomes
<1>2. BufferInv(o) /\ BufferOK(o) /\ t \in Texts
  BY <1>1, ActiveTab
<1> HIDE DEF o
<1>3. clip' \in Texts
  BY <1>1, <1>2, SelectedOK
<1>4. IsPushed(o, u, "other")
  BY <1>2, PushUndoOK DEF EditKinds
<1> HIDE DEF u
<1>5. BufferOK(u) /\ HasSelection(u)
  BY <1>1, <1>4 DEF IsPushed, Same, FieldNames, HasSelection
<1>6. IsEdited(u, d, "other")
  BY <1>5, DeleteSelectionOK
<1> HIDE DEF d, t
<1>7. IsEdited(o, d, "other")
  <2>1. Same(d, o, EditFields)
    BY <1>4, <1>6 DEF IsPushed, IsEdited, Same, FieldNames, EditFields
  <2>. QED  BY <1>4, <1>6, <2>1 DEF IsPushed, IsEdited
<1>8. BufferInv(c) /\ Same(c, o, HistoryFields) /\ c.dirty = TRUE
  BY <1>2, <1>7, OwnEdit
<1> HIDE DEF c
<1>9. Kept(o, c)
  BY <1>8, KeptByHistory
<1>. QED  BY <1>1, <1>3, <1>9, KeptByInput DEF o

LEMMA PasteStep == ASSUME EditorTypeOK, BuffersOK, Paste PROVE Keeps
<1> DEFINE o == buffers[active]
           t == o.text
           d == InsertText(o, clip, "other")
           c == Edit(o, d, "other", t)
<1>1. OnBuffer /\ active # 0 /\ Input(c)
  BY DEF Paste, OnBuffer
<1>2. BufferInv(o) /\ BufferOK(o) /\ t \in Texts /\ clip \in Texts /\ "other" \in EditKinds
  BY <1>1, ActiveTab DEF EditorTypeOK, EditKinds
<1> HIDE DEF o
<1>3. IsEdited(o, d, "other")
  BY <1>2, InsertTextOK
<1> HIDE DEF d, t
<1>4. BufferInv(c) /\ Same(c, o, HistoryFields) /\ c.dirty = TRUE
  BY <1>2, <1>3, OwnEdit
<1> HIDE DEF c
<1>5. Kept(o, c)
  BY <1>4, KeptByHistory
<1>. QED  BY <1>1, <1>5, InputKeeps DEF o

\* Deleting a character or a word at the caret.
LEMMA DeletedKeeps ==
    ASSUME NEW b, BufferInv(b), NEW from, from \in 0..Len(b.text), NEW to, to \in Nat
    PROVE  Kept(b, Deleted(b, from, to))
<1> DEFINE u == PushUndo(b, "delete")
           d == Erased(u, from, to)
           c == Edit(b, d, "delete", b.text)
<1>1. Deleted(b, from, to) = c /\ BufferOK(b) /\ "delete" \in Runs
  BY InvParts DEF Deleted, Runs
<1>2. IsPushed(b, u, "delete")
  BY <1>1, PushUndoOK DEF EditKinds
<1> HIDE DEF u
<1>3. BufferOK(u) /\ from \in 0..Len(u.text)
  BY <1>2 DEF IsPushed, Same, FieldNames
<1>4. IsRewritten(u, d)
  BY <1>3, ErasedOK
<1> HIDE DEF d
<1>5. IsEdited(b, d, "delete") /\ d.undo = u.undo
  BY <1>2, <1>4, RewritingIsEditing
<1>6. IF GoesOn(b, "delete") THEN d.undo = b.undo ELSE Last(d.undo).text = b.text
  BY <1>2, <1>5 DEF IsPushed
<1>7. BufferInv(c) /\ Same(c, b, HistoryFields) /\ c.dirty = TRUE
  BY <1>1, <1>5, <1>6, RunEdit
<1> HIDE DEF c
<1>8. Kept(b, c)
  BY <1>7, KeptByHistory
<1>. QED  BY <1>1, <1>8

LEMMA DeleteKeysStep == ASSUME EditorTypeOK, BuffersOK, DeleteKeys PROVE Keeps
<1> DEFINE o == buffers[active]
           t == o.text
           k == o.cursor
           d == DeleteSelection(o)
           e == Edit(o, d, "other", t)
<1>1. OnBuffer /\ active # 0
  BY DEF DeleteKeys, OnBuffer
<1>2. \/ HasSelection(o) /\ Input(e)
      \/ \E from \in {PrevUtf8Boundary(t, k), PrevWordBoundary(t, k)} : Input(Deleted(o, from, k))
      \/ \E to \in {NextUtf8Boundary(t, k), NextWordBoundary(t, k)} : Input(Deleted(o, k, to))
  BY DEF DeleteKeys
<1>3. BufferInv(o) /\ BufferOK(o) /\ t \in Texts /\ k \in 0..Len(t)
  BY <1>1, ActiveTab
<1>4. k \in Nat /\ Len(t) \in Nat
  BY <1>3 DEF Texts
<1>5. ASSUME HasSelection(o), Input(e) PROVE Keeps
  <2> HIDE DEF o
  <2>1. IsEdited(o, d, "other")
    BY <1>3, <1>5, DeleteSelectionOK
  <2> HIDE DEF d, t
  <2>2. BufferInv(e) /\ Same(e, o, HistoryFields) /\ e.dirty = TRUE
    BY <1>3, <2>1, OwnEdit
  <2> HIDE DEF e
  <2>3. Kept(o, e)
    BY <2>2, KeptByHistory
  <2>. QED  BY <1>1, <1>5, <2>3, InputKeeps DEF o
<1>6. ASSUME NEW from \in {PrevUtf8Boundary(t, k), PrevWordBoundary(t, k)}, Input(Deleted(o, from, k)) PROVE Keeps
  <2> HIDE DEF o, k
  <2>1. from \in 0..Len(o.text)
    BY <1>3, BackOK
  <2>2. Kept(o, Deleted(o, from, k))
    BY <1>3, <1>4, <2>1, DeletedKeeps
  <2>. QED  BY <1>1, <1>6, <2>2, InputKeeps DEF o
<1>7. ASSUME NEW to \in {NextUtf8Boundary(t, k), NextWordBoundary(t, k)}, Input(Deleted(o, k, to)) PROVE Keeps
  <2> HIDE DEF o, k
  <2>1. to \in 0..Len(o.text) /\ to \in Nat
    BY <1>3, <1>4, OnOK
  <2>2. Kept(o, Deleted(o, k, to))
    BY <1>3, <2>1, DeletedKeeps
  <2>. QED  BY <1>1, <1>7, <2>2, InputKeeps DEF o
<1>. QED  BY <1>2, <1>5, <1>6, <1>7

LEMMA ArrowsStep == ASSUME EditorTypeOK, BuffersOK, Arrows PROVE Keeps
<1> DEFINE o == buffers[active]
           t == o.text
           k == o.cursor
<1>1. OnBuffer /\ active # 0
  BY DEF Arrows, OnBuffer
<1>2. PICK to \in {PrevUtf8Boundary(t, k), NextUtf8Boundary(t, k), PrevWordBoundary(t, k),
                   NextWordBoundary(t, k), LineStart(t, k), LineEnd(t, k)}, shift \in BOOLEAN :
         Input(Moves(MoveCursorTo(o, to, shift)))
  BY DEF Arrows
<1>3. BufferInv(o) /\ t \in Texts /\ k \in 0..Len(t)
  BY <1>1, ActiveTab
<1> DEFINE b == MoveCursorTo(o, to, shift)
<1> HIDE DEF o, t, k
<1>4. to \in Int
  <2>1. /\ PrevUtf8Boundary(t, k) \in 0..Len(t) /\ PrevWordBoundary(t, k) \in 0..Len(t)
        /\ NextUtf8Boundary(t, k) \in 0..Len(t) /\ NextWordBoundary(t, k) \in 0..Len(t)
        /\ LineStart(t, k) \in 0..k /\ LineEnd(t, k) \in 0..Len(t)
    BY <1>3, BackOK, OnOK, LineOK
  <2>. QED  BY <1>2, <2>1
<1>5. Kept(o, b)
  BY <1>3, <1>4, MoveKeeps
<1>6. BufferInv(b) /\ Input(Moves(b))
  BY <1>2, <1>5 DEF Kept
<1> HIDE DEF b
<1>7. Kept(o, Moves(b))
  BY <1>5, <1>6, MovesKeeps, KeptTwice
<1>. QED  BY <1>1, <1>6, <1>7, InputKeeps DEF o

LEMMA VerticalStep == ASSUME EditorTypeOK, BuffersOK, Vertical PROVE Keeps
<1> DEFINE o == buffers[active]
           t == o.text
           k == o.cursor
           line == Line(t, k)
<1>1. OnBuffer /\ active # 0
  BY DEF Vertical, OnBuffer
<1>2. PICK by \in {-1, 1, -PageLines, PageLines}, shift \in BOOLEAN :
         \/ Input(Moves(o))
         \/ Input(Moves(MoveCursorTo(o, LineColToByte(t, line + by, Col(t, k)), shift)))
  BY DEF Vertical
<1>3. BufferInv(o) /\ t \in Texts /\ k \in 0..Len(t)
  BY <1>1, ActiveTab
<1> HIDE DEF o, t, k
<1>4. line \in Int /\ by \in Int /\ Col(t, k) \in Nat
  <2>1. Cardinality({s \in LineStarts(t) : s <= k}) \in Nat
    BY <1>3, StartsCounted
  <2>2. line \in Int
    BY <2>1 DEF Line
  <2>3. by \in Int
    BY TextsAssumption
  <2>. QED  BY <1>3, <2>2, <2>3, LineOK
<1> DEFINE to == LineColToByte(t, line + by, Col(t, k))
           b == MoveCursorTo(o, to, shift)
<1>5. to \in Int
  <2> DEFINE l == line + by
             c == Col(t, k)
  <2>1. l \in Int /\ c \in Nat
    BY <1>4
  <2> HIDE DEF l, c
  <2>2. LineColToByte(t, l, c) \in Int
    BY <1>3, <2>1, LineColOK
  <2>. QED  BY <2>2 DEF l, c
<1>6. Input(Moves(o)) \/ Input(Moves(b))
  BY <1>2
<1> HIDE DEF to
<1>7. Kept(o, b)
  BY <1>3, <1>5, MoveKeeps
<1>8. BufferInv(b)
  BY <1>7 DEF Kept
<1> HIDE DEF b
<1>9. Kept(o, Moves(o)) /\ Kept(o, Moves(b))
  BY <1>3, <1>7, <1>8, MovesKeeps, KeptTwice
<1>. QED  BY <1>1, <1>6, <1>9, InputKeeps DEF o

\* What Enter and Tab insert is a text.
LEMMA BlankOK == ASSUME NEW n, n \in Int PROVE Blank(n) \in Texts
<1>1. CASE n \in Nat
  BY <1>1 DEF Blank, Texts, Bytes
<1>2. CASE n \notin Nat
  <2>1. 1..n = 1..0
    BY <1>2
  <2>2. Blank(n) = [i \in 1..0 |-> "s"]
    BY <2>1 DEF Blank
  <2>. QED  BY <2>2 DEF Texts, Bytes
<1>. QED  BY <1>1, <1>2

LEMMA EnterOrTabStep == ASSUME EditorTypeOK, BuffersOK, EnterOrTab PROVE Keeps
<1> DEFINE o == buffers[active]
           before == o.text
           d == DeleteSelection(o)
           t == d.text
           k == d.cursor
           start == LineStart(t, k)
           end == SkipOn(t, start, Space)
           indent == SubSeq(t, start + 1, end)
           gap == TabWidth - (Col(t, k) % TabWidth)
<1>1. OnBuffer /\ active # 0
  BY DEF EnterOrTab, OnBuffer
<1>2. PICK s \in {<<"n">> \o indent, Blank(gap)} : Input(Edit(o, InsertText(d, s, "other"), "other", before))
  BY DEF EnterOrTab
<1>3. BufferInv(o) /\ BufferOK(o) /\ before \in Texts
  BY <1>1, ActiveTab
<1> HIDE DEF o
<1>4. BufferOK(d) /\ (d = o \/ IsEdited(o, d, "other"))
  BY <1>3, DeleteSelectionOK, DeletedBufferOK
<1> HIDE DEF d
<1>5. t \in Texts /\ k \in 0..Len(t) /\ Len(t) \in Nat
  BY <1>4, Fields
<1> HIDE DEF t, k
<1>6. start \in 0..k /\ Col(t, k) \in Nat
  BY <1>5, LineOK
<1>7. s \in Texts
  <2>1. gap \in Int
    BY <1>6, EditorAssumption
  <2> HIDE DEF start
  <2>2. start \in 0..Len(t)
    BY <1>5, <1>6
  <2>3. end \in start..Len(t)
    BY <1>5, <2>2, SkipOnOK
  <2> DEFINE m == start + 1
  <2>4. m \in Nat \ {0} /\ end \in 0..Len(t)
    BY <1>5, <2>2, <2>3
  <2> HIDE DEF m, end
  <2>5. SubSeq(t, m, end) \in Texts
    BY <1>5, <2>4, Stretch
  <2>6. indent \in Seq(Bytes) /\ <<"n">> \in Seq(Bytes)
    BY <2>5 DEF m, Texts, Bytes
  <2> HIDE DEF indent, gap
  <2>7. <<"n">> \o indent \in Texts
    BY <2>6, ConcatProperties DEF Texts
  <2>8. Blank(gap) \in Texts
    BY <2>1, BlankOK
  <2>. QED  BY <1>2, <2>7, <2>8
<1> DEFINE e == InsertText(d, s, "other")
           c == Edit(o, e, "other", before)
<1>8. IsEdited(d, e, "other")
  BY <1>4, <1>7, InsertTextOK DEF EditKinds
<1>9. Input(c)
  BY <1>2
<1> HIDE DEF e, before
<1>10. IsEdited(o, e, "other")
  BY <1>4, <1>8, EditsCompose
<1>11. BufferInv(c) /\ Same(c, o, HistoryFields) /\ c.dirty = TRUE
  BY <1>3, <1>10, OwnEdit
<1> HIDE DEF c
<1>12. Kept(o, c)
  BY <1>11, KeptByHistory
<1>. QED  BY <1>1, <1>9, <1>12, InputKeeps DEF o

LEMMA TypeStep == ASSUME EditorTypeOK, BuffersOK, Type PROVE Keeps
<1> DEFINE o == buffers[active]
<1>1. OnBuffer /\ active # 0
  BY DEF Type, OnBuffer
<1>2. PICK s \in Bursts :
         Input(Edit(IF HasSelection(o) THEN Unrun(o) ELSE o, InsertText(o, s, "insert"), "insert",
                    DeleteSelection(o).text))
  BY DEF Type
<1>3. BufferInv(o) /\ s \in Texts
  BY <1>1, ActiveTab, TextsAssumption DEF Texts
<1> HIDE DEF o
<1> DEFINE c == Edit(IF HasSelection(o) THEN Unrun(o) ELSE o, InsertText(o, s, "insert"), "insert",
                     DeleteSelection(o).text)
<1>4. BufferInv(c) /\ Same(c, o, HistoryFields) /\ c.dirty = TRUE
  BY <1>3, TypeKeeps
<1>5. Input(c)
  BY <1>2
<1> HIDE DEF c
<1>6. Kept(o, c)
  BY <1>4, KeptByHistory
<1>. QED  BY <1>1, <1>5, <1>6, InputKeeps DEF o

-----------------------------------------------------------------------------
(* Files and tabs                                                           *)

\* A tab that was just opened.
LEMMA NewBufferOK ==
    ASSUME NEW p, p \in Paths, NEW t, t \in Texts, NEW d, d \in BOOLEAN
    PROVE  /\ BufferInv(NewBuffer(p, t, d)) /\ NewBuffer(p, t, d).path = p
           /\ NewBuffer(p, t, d).text = t /\ NewBuffer(p, t, d).dirty = d
<1> DEFINE none == -1
           b == [path |-> p, text |-> t, cursor |-> 0, anchor |-> none, dirty |-> d,
                 undo |-> <<>>, redo |-> <<>>, last |-> "none",
                 opened |-> t, tip |-> t, run |-> NoRun, dropped |-> FALSE, behind |-> FALSE]
<1>1. NewBuffer(p, t, d) = b
  BY DEF NewBuffer
<1>2. none \in Int /\ <<>> \in Seq(Snap) /\ Len(t) \in Nat
  BY DEF Texts
<1>3. NoRun \in [kind : {"none", "insert", "delete", "other"}, text : Texts] /\ NoRun.kind = "none"
  BY DEF NoRun, Texts
<1> HIDE DEF none
<1>4. b \in Buffer
  BY <1>2, <1>3 DEF Buffer
<1>5. BufferOK(b)
  BY <1>2, <1>4 DEF BufferOK
<1>6. UndoIsWhole(b)
  BY <1>3 DEF UndoIsWhole
<1>7. RunsAgree(b)
  BY <1>3 DEF RunsAgree, Runs
<1>8. b.path = p /\ b.text = t /\ b.dirty = d
  OBVIOUS
<1> HIDE DEF b
<1>. QED  BY <1>1, <1>5, <1>6, <1>7, <1>8 DEF BufferInv

\* Where the tab of a file is after it was opened.
LEMMA FocusOK ==
    ASSUME EditorTypeOK, NEW p, Tab(p) # {}
    PROVE  Focus(p) \in Tab(p) /\ Focus(p) \in DOMAIN buffers
<1> DEFINE n == Len(buffers)
           S == Tab(p)
<1>1. n \in Nat /\ S \subseteq 1..n /\ S # {} /\ Focus(p) = Min(S)
  BY DEF EditorTypeOK, Tab, Focus
<1> HIDE DEF S
<1>2. S \subseteq 0..n
  BY <1>1
<1> HIDE DEF n
<1>3. Min(S) \in S
  BY <1>1, <1>2, MinOfSome
<1>. QED  BY <1>1, <1>3 DEF S, n, EditorTypeOK

\* c is a tab that may be added.
Fresh(c) ==
    /\ BufferInv(c) /\ c.path \in Paths
    /\ OnDisk(c, disk)

\* What opening a file does to the tabs.
LEMMA OpenedOK ==
    ASSUME EditorTypeOK, NEW p, p \in Paths, p[2] = "here"
    PROVE  \/ Tab(p) # {} /\ Opened(p) = buffers
           \/ Tab(p) = {} /\ \E c : Fresh(c) /\ Opened(p) = Append(buffers, c)
<1>1. CASE Tab(p) # {}
  BY <1>1 DEF Opened
<1>2. CASE Tab(p) = {}
  <2>1. disk \in [Paths -> Texts \cup {Missing}]
    BY DEF EditorTypeOK
  <2>2. CASE Found(p) = {}
    <3> DEFINE t == <<>>
               c == NewBuffer(p, t, TRUE)
    <3>1. Opened(p) = Append(buffers, c) /\ t \in Texts
      BY <1>2, <2>2 DEF Opened, Texts
    <3> HIDE DEF t
    <3>2. BufferInv(c) /\ c.path = p /\ c.dirty = TRUE
      BY <3>1, NewBufferOK
    <3> HIDE DEF c
    <3>3. Fresh(c)
      BY <3>2 DEF Fresh, OnDisk
    <3>. QED  BY <1>2, <3>1, <3>3
  <2>3. CASE Found(p) # {}
    <3> DEFINE q == CHOOSE q \in Found(p) : TRUE
               t == disk[q]
               no == FALSE
               c == NewBuffer(q, t, no)
    <3>1. Opened(p) = Append(buffers, c) /\ q \in Found(p)
      BY <1>2, <2>3 DEF Opened
    <3> HIDE DEF q
    <3>2. q \in Paths /\ disk[q] # Missing
      BY <3>1 DEF Found
    <3>3. t \in Texts
      BY <2>1, <3>2
    <3>5. q \in Paths /\ no \in BOOLEAN
      BY <3>2
    <3> HIDE DEF t, no
    <3>6. BufferInv(c) /\ c.path = q /\ c.text = t
      BY <3>3, <3>5, NewBufferOK
    <3> HIDE DEF c
    <3>7. Fresh(c)
      BY <3>5, <3>6 DEF Fresh, OnDisk, t
    <3>. QED  BY <1>2, <3>1, <3>7
  <2>. QED  BY <2>2, <2>3
<1>. QED  BY <1>1, <1>2

\* The tabs after a file was opened are tabs of the right kind.
TabsOK(bs) == /\ bs \in Seq(Buffer) /\ \A i \in DOMAIN bs : BufferInv(bs[i])
TabsOnDisk(bs) == \A i \in DOMAIN bs : OnDisk(bs[i], disk)

LEMMA OpenedTabs ==
    ASSUME EditorTypeOK, BuffersOK, NEW p, p \in Paths, p[2] = "here"
    PROVE  /\ TabsOK(Opened(p)) /\ Focus(p) \in 1..Len(Opened(p))
           /\ DiskInv => TabsOnDisk(Opened(p))
<1>1. buffers \in Seq(Buffer) /\ Len(buffers) \in Nat /\ DOMAIN buffers = 1..Len(buffers)
  BY DEF EditorTypeOK
<1>2. CASE Tab(p) # {}
  <2>1. Opened(p) = buffers
    BY <1>2, OpenedOK
  <2>2. Focus(p) \in Tab(p) /\ Focus(p) \in 1..Len(buffers)
    BY <1>1, <1>2, FocusOK
  <2>. QED  BY <1>1, <2>1, <2>2 DEF TabsOK, TabsOnDisk, BuffersOK, DiskInv, Tab
<1>3. CASE Tab(p) = {}
  <2>1. PICK c : Fresh(c) /\ Opened(p) = Append(buffers, c)
    BY <1>3, OpenedOK
  <2> DEFINE bs == Append(buffers, c)
             n == Len(buffers) + 1
  <2>2. c \in Buffer /\ BufferInv(c)
    BY <2>1 DEF Fresh, BufferInv, BufferOK
  <2>3. /\ bs \in Seq(Buffer) /\ Len(bs) = n /\ bs[n] = c /\ \A i \in 1..Len(buffers) : bs[i] = buffers[i]
    BY <1>1, <2>2, AppendProperties
  <2> HIDE DEF bs
  <2>4. /\ n \in 1..Len(bs) /\ DOMAIN bs = 1..Len(bs)
        /\ \A i \in DOMAIN bs : bs[i] = IF i = n THEN c ELSE buffers[i]
        /\ \A i \in DOMAIN bs : i # n => i \in DOMAIN buffers
    BY <1>1, <2>3
  <2>5. TabsOK(bs)
    BY <2>2, <2>3, <2>4 DEF TabsOK, BuffersOK
  <2>6. Focus(p) = n
    BY <1>3 DEF Focus
  <2> HIDE DEF n
  <2>7. ASSUME DiskInv PROVE TabsOnDisk(bs)
    BY <2>1, <2>4, <2>7 DEF Fresh, TabsOnDisk, DiskInv
  <2>. QED  BY <2>1, <2>4, <2>5, <2>6, <2>7 DEF bs
<1>. QED  BY <1>2, <1>3

LEMMA OpenFileStep == ASSUME EditorTypeOK, BuffersOK, OpenFile PROVE Keeps
<1>1. PICK p \in Paths : p[2] = "here" /\ buffers' = Opened(p) /\ active' = Focus(p)
  BY DEF OpenFile
<1>2. UNCHANGED <<disk, clip>>
  BY DEF OpenFile
<1>3. /\ TabsOK(buffers') /\ active' \in 1..Len(buffers')
      /\ DiskInv => TabsOnDisk(buffers')
  BY <1>1, OpenedTabs
<1>4. EditorTypeOK'
  BY <1>2, <1>3 DEF EditorTypeOK, TabsOK
<1>5. BuffersOK'
  BY <1>3 DEF BuffersOK, TabsOK
<1>6. DiskInv => DiskInv'
  BY <1>2, <1>3 DEF DiskInv, TabsOnDisk, OnDisk
<1>. QED  BY <1>4, <1>5, <1>6 DEF Keeps

\* The text, the caret and the anchor stay.
Still(c, b) == c.text = b.text /\ c.cursor = b.cursor /\ c.anchor = b.anchor

\* What saving makes of the tabs: the marks and the notes of the history change.
LEMMA SavedTab ==
    ASSUME NEW b, BufferInv(b), NEW t
    PROVE  /\ BufferInv(Saved(b, t)) /\ Still(Saved(b, t), b) /\ Saved(b, t).path = b.path
           /\ Saved(b, t).behind = (t # b.text)
<1> DEFINE no == FALSE
           v == t # b.text
           p1 == [b EXCEPT !.dirty = no]
           p2 == [p1 EXCEPT !.behind = v]
<1>1. Saved(b, t) = p2
  BY DEF Saved
<1>2. b \in Buffer /\ b.cursor <= Len(b.text) /\ no \in BOOLEAN /\ v \in BOOLEAN
  BY InvParts DEF BufferOK
<1> HIDE DEF no, v
<1>3. p1 \in Buffer /\ Same(p1, b, {"dirty"})
  BY <1>2 DEF Buffer, Same, FieldNames
<1> HIDE DEF p1
<1>4. p2 \in Buffer /\ Same(p2, p1, {"behind"}) /\ p2.behind = v
  BY <1>2, <1>3 DEF Buffer, Same, FieldNames
<1> HIDE DEF p2
<1>5. /\ Same(p2, b, {"dirty", "behind"}) /\ p2.path = b.path /\ p2.text = b.text /\ p2.cursor = b.cursor
      /\ p2.anchor = b.anchor
  BY <1>3, <1>4 DEF Same, FieldNames
<1>6. BufferOK(p2)
  BY <1>2, <1>4, <1>5 DEF BufferOK
<1>7. BufferInv(p2)
  BY <1>5, <1>6, SameHistory
<1>. QED  BY <1>1, <1>4, <1>5, <1>7 DEF Still, v

LEMMA PassedTab ==
    ASSUME NEW b, BufferInv(b), NEW p
    PROVE  /\ BufferInv(Passed(b, p)) /\ Still(Passed(b, p), b)
           /\ b.path = p => Passed(b, p).behind = TRUE
           /\ b.path # p => Passed(b, p) = b
<1>1. CASE b.path = p
  <2> DEFINE v == TRUE
             c == [b EXCEPT !.behind = v]
  <2>1. Passed(b, p) = c
    BY <1>1 DEF Passed
  <2>2. b \in Buffer /\ b.cursor <= Len(b.text) /\ v \in BOOLEAN
    BY InvParts DEF BufferOK
  <2>3. c \in Buffer /\ Same(c, b, {"behind"}) /\ c.behind = TRUE
    BY <2>2 DEF Buffer, Same, FieldNames
  <2> HIDE DEF c, v
  <2>4. /\ Same(c, b, {"dirty", "behind"}) /\ c.text = b.text /\ c.cursor = b.cursor /\ c.anchor = b.anchor
    BY <2>3 DEF Same, FieldNames
  <2>5. BufferOK(c)
    BY <2>2, <2>3, <2>4 DEF BufferOK
  <2>6. BufferInv(c)
    BY <2>4, <2>5, SameHistory
  <2>. QED  BY <1>1, <2>1, <2>3, <2>4, <2>6 DEF Still
<1>2. CASE b.path # p
  BY <1>2 DEF Passed, Still
<1>. QED  BY <1>1, <1>2

\* Saving a tab, of tabs that may just have been opened.
LEMMA SavedOK ==
    ASSUME EditorTypeOK, NEW bs, TabsOK(bs), NEW k, k \in DOMAIN bs, DiskInv => TabsOnDisk(bs),
           Save(bs, k), active' = k, UNCHANGED clip
    PROVE  /\ Keeps /\ DOMAIN buffers' = DOMAIN bs
           /\ \A i \in DOMAIN bs : Still(buffers'[i], bs[i])
<1> DEFINE b == bs[k]
<1>1. /\ bs \in Seq(Buffer) /\ b \in Buffer /\ BufferInv(b) /\ Len(bs) \in Nat /\ DOMAIN bs = 1..Len(bs)
      /\ b.path \in Paths /\ b.text \in Texts
  <2>1. bs \in Seq(Buffer) /\ b \in Buffer /\ BufferInv(b) /\ Len(bs) \in Nat /\ DOMAIN bs = 1..Len(bs)
    BY DEF TabsOK
  <2> HIDE DEF b
  <2>2. b.path \in Paths /\ b.text \in Texts
    BY <2>1 DEF Buffer
  <2>. QED  BY <2>1, <2>2
<1>2. PICK t \in Written(b.text) :
         /\ disk' = [disk EXCEPT ![b.path] = t]
         /\ buffers' = [j \in DOMAIN bs |-> IF j = k THEN Saved(bs[j], t) ELSE Passed(bs[j], b.path)]
  BY Zenon DEF Save
<1> HIDE DEF b
<1>3. t \in Texts
  <2>1. t = b.text \/ t = <<>>
    BY <1>2 DEF Written
  <2>2. <<>> \in Texts
    BY DEF Texts
  <2>. QED  BY <1>1, <2>1, <2>2
<1>4. ASSUME NEW i \in DOMAIN bs
      PROVE  /\ BufferInv(buffers'[i]) /\ buffers'[i] \in Buffer /\ Still(buffers'[i], bs[i])
             /\ DiskInv => OnDisk(buffers'[i], disk')
  <2>0. BufferInv(bs[i]) /\ disk \in [Paths -> Texts \cup {Missing}]
    BY DEF TabsOK, EditorTypeOK
  <2>1. CASE i = k
    <3> DEFINE c == Saved(b, t)
    <3>1. buffers'[i] = c /\ bs[i] = b
      BY <1>2, <2>1 DEF b
    <3>2. BufferInv(c) /\ Still(c, b) /\ c.path = b.path /\ c.behind = (t # b.text)
      BY <1>1, SavedTab
    <3>3. disk'[b.path] = t
      BY <1>1, <1>2, <2>0
    <3> HIDE DEF c
    <3>4. c \in Buffer
      BY <3>2 DEF BufferInv, BufferOK
    <3>5. c.behind \/ disk'[c.path] = c.text
      BY <3>2, <3>3 DEF Still
    <3>. QED  BY <3>1, <3>2, <3>4, <3>5 DEF OnDisk
  <2>2. CASE i # k
    <3> DEFINE c == Passed(bs[i], b.path)
    <3>1. buffers'[i] = c
      BY <1>2, <2>2
    <3>2. /\ BufferInv(c) /\ Still(c, bs[i])
          /\ bs[i].path = b.path => c.behind = TRUE
          /\ bs[i].path # b.path => c = bs[i]
      BY <2>0, PassedTab
    <3> HIDE DEF c
    <3>3. c \in Buffer
      BY <3>2 DEF BufferInv, BufferOK
    <3>4. ASSUME DiskInv, bs[i].path # b.path PROVE OnDisk(c, disk')
      <4>1. OnDisk(bs[i], disk) /\ c = bs[i]
        BY <3>2, <3>4 DEF TabsOnDisk
      <4>2. bs[i].path \in Paths
        BY <3>2, <3>3, <3>4 DEF Buffer
      <4>3. disk'[bs[i].path] = disk[bs[i].path]
        BY <1>2, <2>0, <3>4, <4>2
      <4>. QED  BY <4>1, <4>3 DEF OnDisk
    <3>5. bs[i].path = b.path => OnDisk(c, disk')
      BY <3>2 DEF OnDisk
    <3>. QED  BY <3>1, <3>2, <3>3, <3>4, <3>5
  <2>. QED  BY <2>1, <2>2
<1>5. DOMAIN buffers' = DOMAIN bs /\ buffers' \in Seq(Buffer) /\ Len(buffers') = Len(bs)
  <2> DEFINE f == buffers'
             n == Len(bs)
  <2>1. f = [j \in 1..n |-> f[j]] /\ n \in Nat /\ \A j \in 1..n : f[j] \in Buffer
    BY <1>1, <1>2, <1>4
  <2> HIDE DEF f, n
  <2>2. f \in Seq(Buffer) /\ Len(f) = n /\ DOMAIN f = 1..n
    BY <2>1
  <2>. QED  BY <1>1, <2>2 DEF f, n
<1>6. EditorTypeOK'
  <2>1. active' \in 0..Len(buffers')
    BY <1>1, <1>5
  <2>2. disk' \in [Paths -> Texts \cup {Missing}]
    BY <1>1, <1>2, <1>3 DEF EditorTypeOK
  <2>. QED  BY <1>5, <2>1, <2>2 DEF EditorTypeOK
<1>7. BuffersOK'
  BY <1>4, <1>5 DEF BuffersOK
<1>8. DiskInv => DiskInv'
  BY <1>4, <1>5 DEF DiskInv
<1>. QED  BY <1>4, <1>5, <1>6, <1>7, <1>8 DEF Keeps

LEMMA CreateFileStep == ASSUME EditorTypeOK, BuffersOK, CreateFile PROVE Keeps
<1>1. PICK p \in Paths :
         /\ p[2] = "here" /\ active' = Focus(p)
         /\ Save(Opened(p), Focus(p)) \/ (buffers' = Opened(p) /\ UNCHANGED disk)
  BY DEF CreateFile
<1>2. UNCHANGED clip
  BY DEF CreateFile
<1> DEFINE bs == Opened(p)
           k == Focus(p)
<1>3. TabsOK(bs) /\ k \in 1..Len(bs) /\ (DiskInv => TabsOnDisk(bs))
  BY <1>1, OpenedTabs
<1>4. active' = k /\ (Save(bs, k) \/ (buffers' = bs /\ UNCHANGED disk))
  BY <1>1
<1> HIDE DEF bs, k
<1>5. bs \in Seq(Buffer) /\ k \in DOMAIN bs
  BY <1>3 DEF TabsOK
<1>6. CASE Save(bs, k)
  BY <1>2, <1>3, <1>4, <1>5, <1>6, SavedOK
<1>7. CASE buffers' = bs /\ UNCHANGED disk
  <2>1. EditorTypeOK'
    BY <1>2, <1>3, <1>4, <1>7 DEF EditorTypeOK, TabsOK
  <2>2. BuffersOK'
    BY <1>3, <1>7 DEF BuffersOK, TabsOK
  <2>3. DiskInv => DiskInv'
    BY <1>3, <1>7 DEF DiskInv, TabsOnDisk, OnDisk
  <2>. QED  BY <2>1, <2>2, <2>3 DEF Keeps
<1>. QED  BY <1>4, <1>6, <1>7

LEMMA SaveActiveStep == ASSUME EditorTypeOK, BuffersOK, SaveActive PROVE Keeps
<1>1. active # 0 /\ active' = active /\ UNCHANGED clip /\ Save(buffers, active)
  BY DEF SaveActive
<1>2. TabsOK(buffers) /\ active \in DOMAIN buffers /\ (DiskInv => TabsOnDisk(buffers))
  BY <1>1 DEF EditorTypeOK, BuffersOK, TabsOK, DiskInv, TabsOnDisk
<1>. QED  BY <1>1, <1>2, SavedOK

\* The tabs that are left when one is closed.
LEMMA ClosedTabs ==
    ASSUME EditorTypeOK, NEW i, i \in DOMAIN buffers
    PROVE  /\ RemoveAt(buffers, i) \in Seq(Buffer) /\ Len(RemoveAt(buffers, i)) = Len(buffers) - 1
           /\ \A j \in 1..(Len(buffers) - 1) :
                 RemoveAt(buffers, i)[j] = buffers[IF j < i THEN j ELSE j + 1]
<1> DEFINE bs == buffers
           n == Len(bs)
           m == i - 1
           k == i + 1
           x == SubSeq(bs, 1, m)
           y == SubSeq(bs, k, n)
<1>1. bs \in Seq(Buffer) /\ n \in Nat /\ i \in 1..n /\ RemoveAt(bs, i) = x \o y
  BY DEF EditorTypeOK, RemoveAt
<1>2. (\A j \in 1..m : bs[j] \in Buffer) /\ (\A j \in k..n : bs[j] \in Buffer) /\ m \in Int /\ k \in Int /\ n \in Int
  BY <1>1
<1> HIDE DEF bs, n
<1>3. /\ x \in Seq(Buffer) /\ Len(x) = (IF 1 <= m THEN m - 1 + 1 ELSE 0)
      /\ \A j \in 1..(m - 1 + 1) : x[j] = bs[1 + j - 1]
  <2> HIDE DEF m
  <2>. QED  BY <1>2, SubSeqProperties
<1>4. /\ y \in Seq(Buffer) /\ Len(y) = (IF k <= n THEN n - k + 1 ELSE 0)
      /\ \A j \in 1..(n - k + 1) : y[j] = bs[k + j - 1]
  <2> HIDE DEF k
  <2>. QED  BY <1>2, SubSeqProperties
<1> HIDE DEF x, y
<1>5. Len(x) = i - 1 /\ Len(y) = n - i
  BY <1>1, <1>3, <1>4
<1>6. /\ x \o y \in Seq(Buffer) /\ Len(x \o y) = Len(x) + Len(y)
      /\ \A j \in 1..Len(x) : (x \o y)[j] = x[j]
      /\ \A j \in 1..Len(y) : (x \o y)[Len(x) + j] = y[j]
  <2>1. /\ x \o y \in Seq(Buffer) /\ Len(x \o y) = Len(x) + Len(y)
        /\ \A j \in 1..(Len(x) + Len(y)) : (x \o y)[j] = IF j <= Len(x) THEN x[j] ELSE y[j - Len(x)]
    <3>1. x \in Seq(Buffer) /\ y \in Seq(Buffer)
      BY <1>3, <1>4
    <3>. QED  BY <3>1, ConcatProperties
  <2> DEFINE z == x \o y
             a == Len(x)
             b == Len(y)
  <2>2. a \in Nat /\ b \in Nat /\ \A j \in 1..(a + b) : z[j] = IF j <= a THEN x[j] ELSE y[j - a]
    BY <1>3, <1>4, <2>1
  <2> HIDE DEF z, a, b
  <2>3. \A j \in 1..a : z[j] = x[j]
    BY <2>2
  <2>4. ASSUME NEW j \in 1..b PROVE z[a + j] = y[j]
    <3>1. a + j \in 1..(a + b) /\ ~(a + j <= a) /\ a + j - a = j
      BY <2>2
    <3>. QED  BY <2>2, <3>1
  <2>. QED  BY <2>1, <2>3, <2>4 DEF z, a, b
<1>7. ASSUME NEW j \in 1..(n - 1) PROVE (x \o y)[j] = bs[IF j < i THEN j ELSE j + 1]
  <2>1. CASE j < i
    <3>1. j \in 1..Len(x) /\ j \in 1..(m - 1 + 1) /\ 1 + j - 1 = j
      BY <1>1, <1>5, <2>1
    <3>. QED  BY <1>3, <1>6, <2>1, <3>1
  <2>2. CASE ~(j < i)
    <3> DEFINE h == j - (i - 1)
    <3>1. h \in 1..(n - i) /\ i - 1 + h = j
      BY <1>1, <2>2
    <3>2. h \in Int /\ n - k + 1 = n - i /\ k + h - 1 = j + 1
      <4>1. i \in Int /\ j \in Int /\ n \in Int
        BY <1>1, <1>2
      <4>. QED  BY <4>1
    <3> HIDE DEF h
    <3>3. h \in 1..Len(y) /\ h \in 1..(n - k + 1) /\ Len(x) + h = j
      BY <1>5, <3>1, <3>2
    <3>4. (x \o y)[Len(x) + h] = y[h] /\ y[h] = bs[k + h - 1]
      BY <1>4, <1>6, <3>3
    <3>. QED  BY <2>2, <3>2, <3>3, <3>4
  <2>. QED  BY <2>1, <2>2
<1>8. Len(x) + Len(y) = n - 1
  BY <1>1, <1>5
<1>. QED  BY <1>1, <1>6, <1>7, <1>8 DEF bs, n

LEMMA CloseTabStep == ASSUME EditorTypeOK, BuffersOK, CloseTab PROVE Keeps
<1>1. PICK i \in DOMAIN buffers :
         /\ buffers' = RemoveAt(buffers, i)
         /\ IF i = active THEN active' \in {j \in 0..Len(buffers') : j = 0 <=> buffers' = <<>>}
            ELSE active' = IF active > i THEN active - 1 ELSE active
  BY DEF CloseTab
<1>2. UNCHANGED <<disk, clip>>
  BY DEF CloseTab
<1> DEFINE from(j) == IF j < i THEN j ELSE j + 1
<1>3. /\ buffers' \in Seq(Buffer) /\ Len(buffers') = Len(buffers) - 1
      /\ \A j \in 1..(Len(buffers) - 1) : buffers'[j] = buffers[from(j)]
  BY <1>1, ClosedTabs
<1>4. /\ buffers \in Seq(Buffer) /\ Len(buffers) \in Nat /\ DOMAIN buffers = 1..Len(buffers)
      /\ DOMAIN buffers' = 1..(Len(buffers) - 1) /\ active \in 0..Len(buffers)
  BY <1>3 DEF EditorTypeOK
<1>5. \A j \in DOMAIN buffers' : from(j) \in DOMAIN buffers /\ buffers'[j] = buffers[from(j)]
  BY <1>3, <1>4
<1>7. active' \in 0..Len(buffers')
  BY <1>1, <1>3, <1>4
<1> HIDE DEF from
<1>8. EditorTypeOK'
  BY <1>2, <1>3, <1>7 DEF EditorTypeOK
<1>9. BuffersOK'
  BY <1>5 DEF BuffersOK
<1>10. ASSUME DiskInv PROVE DiskInv'
  BY <1>2, <1>5, <1>10 DEF DiskInv, OnDisk
<1>. QED  BY <1>8, <1>9, <1>10 DEF Keeps

LEMMA SwitchTabStep == ASSUME EditorTypeOK, BuffersOK, SwitchTab PROVE Keeps
BY DEF SwitchTab, Keeps, EditorTypeOK, BuffersOK, DiskInv, OnDisk

-----------------------------------------------------------------------------
(* The invariant, and what follows from it                                  *)

LEMMA InitOK == Init => EditorTypeOK /\ BuffersOK /\ DiskInv
<1>1. SUFFICES ASSUME Init PROVE EditorTypeOK /\ BuffersOK /\ DiskInv
  OBVIOUS
<1>2. buffers = <<>> /\ active = 0 /\ clip = <<>>
  BY <1>1 DEF Init
<1>3. disk = [p \in Paths |-> IF p[1] \in DOMAIN AtStart /\ (p[2] = "elsewhere") = (p[1] \in Elsewhere)
                              THEN AtStart[p[1]] ELSE Missing]
  BY <1>1 DEF Init
<1>4. disk \in [Paths -> Texts \cup {Missing}]
  BY <1>3, TextsAssumption DEF Texts
<1>5. buffers \in Seq(Buffer) /\ Len(buffers) = 0 /\ DOMAIN buffers = {} /\ clip \in Texts
  BY <1>2 DEF Texts
<1>6. EditorTypeOK
  BY <1>2, <1>4, <1>5 DEF EditorTypeOK
<1>7. BuffersOK
  BY <1>5 DEF BuffersOK
<1>8. DiskInv
  BY <1>5 DEF DiskInv
<1>. QED  BY <1>6, <1>7, <1>8

\* Every step keeps the tabs in order.
LEMMA StepOK == EditorTypeOK /\ BuffersOK /\ [Next]_vars => Keeps
<1>1. SUFFICES ASSUME EditorTypeOK, BuffersOK, [Next]_vars PROVE Keeps
  OBVIOUS
<1>2. CASE OpenFile
  BY <1>1, <1>2, OpenFileStep
<1>3. CASE CreateFile
  BY <1>1, <1>3, CreateFileStep
<1>4. CASE SaveActive
  BY <1>1, <1>4, SaveActiveStep
<1>5. CASE SwitchTab
  BY <1>1, <1>5, SwitchTabStep
<1>6. CASE CloseTab
  BY <1>1, <1>6, CloseTabStep
<1>7. CASE Click
  BY <1>1, <1>7, ClickStep
<1>8. CASE RightClick
  BY <1>1, <1>8, RightClickStep
<1>9. CASE Undo
  BY <1>1, <1>9, UndoStep
<1>10. CASE Redo
  BY <1>1, <1>10, RedoStep
<1>11. CASE SelectAll
  BY <1>1, <1>11, SelectAllStep
<1>12. CASE Copy
  BY <1>1, <1>12, CopyStep
<1>13. CASE MenuCut
  BY <1>1, <1>13, MenuCutStep
<1>14. CASE Paste
  BY <1>1, <1>14, PasteStep
<1>15. CASE DeleteKeys
  BY <1>1, <1>15, DeleteKeysStep
<1>16. CASE Arrows
  BY <1>1, <1>16, ArrowsStep
<1>17. CASE Vertical
  BY <1>1, <1>17, VerticalStep
<1>18. CASE EnterOrTab
  BY <1>1, <1>18, EnterOrTabStep
<1>19. CASE Type
  BY <1>1, <1>19, TypeStep
<1>20. CASE UNCHANGED vars
  BY <1>1, <1>20 DEF vars, Keeps, EditorTypeOK, BuffersOK, DiskInv, OnDisk
<1>. QED  BY <1>1, <1>2, <1>3, <1>4, <1>5, <1>6, <1>7, <1>8, <1>9, <1>10, <1>11, <1>12, <1>13,
             <1>14, <1>15, <1>16, <1>17, <1>18, <1>19, <1>20 DEF Next

\* Every tab has its caret in its text and a history that leads back and forth, wherever
\* the scripts are found.
THEOREM EditorInvariance == Spec => [](EditorTypeOK /\ BuffersOK)
<1>1. Init => EditorTypeOK /\ BuffersOK
  BY InitOK
<1>2. EditorTypeOK /\ BuffersOK /\ [Next]_vars => EditorTypeOK' /\ BuffersOK'
  BY StepOK DEF Keeps
<1>. QED  BY <1>1, <1>2, PTL DEF Spec

\* The same, with the marks of unsaved work.
LEMMA DiskInvariance == Spec => [](EditorTypeOK /\ BuffersOK /\ DiskInv)
<1>1. Init => EditorTypeOK /\ BuffersOK /\ DiskInv
  BY InitOK
<1>2. EditorTypeOK /\ BuffersOK /\ DiskInv /\ [Next]_vars => EditorTypeOK' /\ BuffersOK' /\ DiskInv'
  BY StepOK DEF Keeps
<1>. QED  BY <1>1, <1>2, PTL DEF Spec

\* Undo, redo and the runs of typing keep what was written, wherever the scripts are found
\* (CodeEditor.cpp:336).
THEOREM UndoKeepsAll == Spec => [](\A b \in All : UndoIsWhole(b))
<1>1. BuffersOK => \A b \in All : UndoIsWhole(b)
  BY InvParts DEF BuffersOK, All
<1>. QED  BY <1>1, EditorInvariance, PTL

\* And a tab without the mark of unsaved work holds what is on disk, but for a write that
\* fell short and a file that was written from a second tab (CodeEditor.cpp:92, 155).
THEOREM HistoryStaysWhole == Spec => []HistoryIsWhole
<1>1. BuffersOK /\ DiskInv => HistoryIsWhole
  <2>1. SUFFICES ASSUME BuffersOK, DiskInv, NEW i \in DOMAIN buffers
                 PROVE  /\ UndoIsWhole(buffers[i])
                        /\ buffers[i].dirty \/ buffers[i].behind \/ disk[buffers[i].path] = buffers[i].text
    BY DEF HistoryIsWhole, All
  <2>. QED  BY <2>1, InvParts DEF BuffersOK, DiskInv, OnDisk
<1>. QED  BY <1>1, DiskInvariance, PTL

-----------------------------------------------------------------------------
(* Characters                                                               *)

\* Where a text of whole characters has a boundary: not after the first byte of a character.
LEMMA BoundaryIff ==
    ASSUME NEW t, t \in Texts, WellFormed(t), NEW c, c \in 0..Len(t)
    PROVE  c \in Boundaries(t) <=> ~(c > 0 /\ t[c] = "L")
<1>1. (c > 0 /\ t[c] = "L") = (c < Len(t) /\ t[c + 1] = "C")
  BY DEF WellFormed
<1>2. Len(t) \in Nat /\ (c = Len(t) <=> ~(c < Len(t)))
  BY DEF Texts
<1>. QED  BY <1>1, <1>2 DEF Boundaries, Trail

LEMMA EndsAreBoundaries ==
    ASSUME NEW t, t \in Texts, WellFormed(t)
    PROVE  0 \in Boundaries(t) /\ Len(t) \in Boundaries(t)
<1>1. Len(t) \in Nat /\ 0 \in 0..Len(t) /\ Len(t) \in 0..Len(t)
  BY DEF Texts
<1>2. 0 \in Boundaries(t)
  BY <1>1, BoundaryIff
<1>. QED  BY <1>1, <1>2 DEF Boundaries

\* What is skipped.
LEMMA SkipOnIs ==
    ASSUME NEW t, t \in Texts, NEW c, c \in 0..Len(t), NEW bytes
    PROVE  LET q == SkipOn(t, c, bytes)
           IN  /\ q \in c..Len(t) /\ (q = Len(t) \/ t[q + 1] \notin bytes)
               /\ \A k \in c..(q - 1) : t[k + 1] \in bytes
<1> DEFINE n == Len(t)
           S == {q \in c..n : q = n \/ t[q + 1] \notin bytes}
<1>1. n \in Nat /\ c \in 0..n /\ S \in SUBSET Nat /\ n \in S /\ SkipOn(t, c, bytes) = Min(S)
  BY DEF Texts, SkipOn
<1>2. PICK m \in S : \A k \in S : m <= k
  BY <1>1, LeastNumber
<1>3. Min(S) \in S /\ \A k \in S : Min(S) <= k
  BY <1>2 DEF Min
<1> DEFINE q == Min(S)
<1>4. q \in c..n /\ (q = n \/ t[q + 1] \notin bytes)
  BY <1>3
<1>5. ASSUME NEW k \in c..(q - 1) PROVE t[k + 1] \in bytes
  <2>1. k \in c..n /\ k # n /\ ~(q <= k)
    BY <1>1, <1>4
  <2>2. k \notin S
    BY <1>3, <2>1
  <2>. QED  BY <2>1, <2>2
<1>. QED  BY <1>1, <1>4, <1>5

LEMMA SkipBackIs ==
    ASSUME NEW t, NEW c, c \in Nat, NEW bytes
    PROVE  LET p == SkipBack(t, c, bytes)
           IN  /\ p \in 0..c /\ (p = 0 \/ t[p] \notin bytes)
               /\ \A k \in (p + 1)..c : t[k] \in bytes
<1> DEFINE S == {0} \cup {q \in 1..c : t[q] \notin bytes}
           T == {k \in Nat : \A x \in S : x <= k}
           p == Max(S)
<1>1. S \subseteq 0..c /\ S # {} /\ SkipBack(t, c, bytes) = p
  BY DEF SkipBack
<1>2. \E m \in S : \A k \in S : m >= k
  <2> HIDE DEF S
  <2>1. T \in SUBSET Nat /\ c \in T
    BY <1>1
  <2> HIDE DEF T
  <2>2. PICK m \in T : \A k \in T : m <= k
    BY <2>1, LeastNumber
  <2>3. m \in Nat /\ \A x \in S : x <= m
    BY <2>2 DEF T
  <2>4. ASSUME m \notin S PROVE FALSE
    <3>1. PICK x \in S : x \in 0..c
      BY <1>1
    <3>2. m # 0 /\ \A y \in S : y <= m - 1
      BY <1>1, <2>3, <2>4, <3>1
    <3>3. m - 1 \in T
      BY <2>3, <3>2 DEF T
    <3>. QED  BY <2>2, <2>3, <3>3
  <2>5. \A k \in S : m >= k
    BY <1>1, <2>3
  <2>. QED  BY <2>4, <2>5
<1>3. p \in S /\ \A k \in S : p >= k
  BY <1>2 DEF Max
<1>4. p \in 0..c /\ (p = 0 \/ t[p] \notin bytes)
  BY <1>1, <1>3
<1>5. ASSUME NEW k \in (p + 1)..c PROVE t[k] \in bytes
  <2>1. k \in 1..c /\ ~(p >= k)
    BY <1>4
  <2>. QED  BY <1>3, <2>1
<1>. QED  BY <1>1, <1>4, <1>5

\* A character, a word and a line begin and end at boundaries.
LEMMA BackIsBoundary ==
    ASSUME NEW t, t \in Texts, WellFormed(t), NEW c, c \in Boundaries(t)
    PROVE  PrevUtf8Boundary(t, c) \in Boundaries(t) /\ PrevWordBoundary(t, c) \in Boundaries(t)
<1>1. c \in 0..Len(t) /\ c \in Nat /\ Len(t) \in Nat /\ 0 \in Boundaries(t)
  BY EndsAreBoundaries DEF Boundaries, Texts
<1>2. \A k \in 1..Len(t) : t[k] # "C" => k - 1 \in Boundaries(t)
  BY <1>1 DEF Boundaries, Trail
<1>3. PrevUtf8Boundary(t, c) \in Boundaries(t)
  <2> DEFINE p == SkipBack(t, c, Trail)
             k == p - 1
  <2>1. p \in 0..c /\ (p = 0 \/ t[p] \notin Trail)
    BY <1>1, SkipBackIs
  <2>2. PrevUtf8Boundary(t, c) = Max({0, k})
    BY DEF PrevUtf8Boundary
  <2> HIDE DEF p
  <2>3. k \in Int /\ 0 \in Int
    BY <2>1
  <2> HIDE DEF k
  <2>4. Max({0, k}) = IF 0 <= k THEN k ELSE 0
    BY <2>3, MaxOfTwo
  <2>5. CASE p = 0
    BY <1>1, <2>2, <2>4, <2>5 DEF k
  <2>6. CASE p # 0
    <3>1. p \in 1..Len(t) /\ t[p] # "C" /\ 0 <= k /\ k = p - 1
      BY <1>1, <2>1, <2>6 DEF Trail, k
    <3>. QED  BY <1>2, <2>2, <2>4, <3>1
  <2>. QED  BY <2>5, <2>6
<1>4. PrevWordBoundary(t, c) \in Boundaries(t)
  <2> DEFINE p == SkipBack(t, c, Space)
  <2>1. p \in 0..c /\ (p = 0 \/ t[p] \notin Space) /\ \A k \in (p + 1)..c : t[k] \in Space
    BY <1>1, SkipBackIs
  <2>2. PrevWordBoundary(t, c) = IF p = 0 THEN 0
                                 ELSE IF t[p] = "n" THEN (IF p = c THEN p - 1 ELSE p)
                                 ELSE SkipBack(t, p, Alike(t[p]))
    BY DEF PrevWordBoundary
  <2> HIDE DEF p
  <2>3. CASE p = 0
    BY <1>1, <2>2, <2>3
  <2>4. CASE p # 0 /\ t[p] = "n"
    <3>1. p \in 1..Len(t) /\ p - 1 \in Boundaries(t)
      BY <1>1, <1>2, <2>1, <2>4
    <3>2. p # c => p + 1 \in 1..Len(t) /\ t[p + 1] # "C"
      BY <1>1, <2>1, <2>4 DEF Space
    <3>3. p # c => p \in Boundaries(t)
      <4>1. p \in 0..Len(t)
        BY <3>1
      <4>. QED  BY <3>2, <4>1 DEF Boundaries, Trail
    <3>. QED  BY <2>2, <2>4, <3>1, <3>3
  <2>5. CASE p # 0 /\ t[p] # "n"
    <3> DEFINE A == Alike(t[p])
               r == SkipBack(t, p, A)
    <3>1. p \in Nat /\ p \in 1..Len(t) /\ t[p] \in Bytes \ Break
      BY <1>1, <2>1, <2>5 DEF Texts, Space, Break
    <3>2. r \in 0..p /\ (r = 0 \/ t[r] \notin A) /\ \A k \in (r + 1)..p : t[k] \in A
      BY <3>1, SkipBackIs
    <3>3. t[p] \in A
      BY <3>1 DEF Alike
    <3>4. PrevWordBoundary(t, c) = r
      BY <2>2, <2>5
    <3>5. A = {"a"} \/ A = {"L", "C"}
      BY <3>1 DEF Alike, Bytes, Break, Word
    <3> HIDE DEF A, r
    <3>6. CASE r = 0
      BY <1>1, <3>4, <3>6
    <3>7. CASE r # 0
      <4>1. r # p /\ r \in 1..Len(t) /\ r \in 0..Len(t) /\ r + 1 \in 1..Len(t) /\ r + 1 - 1 = r /\ t[r + 1] \in A
        BY <3>1, <3>2, <3>3, <3>7
      <4>2. CASE A = {"a"}
        BY <1>2, <3>4, <4>1, <4>2
      <4>3. CASE A = {"L", "C"}
        <5>1. t[r] # "L"
          BY <3>2, <3>7, <4>3
        <5>2. r \in Boundaries(t)
          BY <4>1, <5>1, BoundaryIff
        <5>. QED  BY <3>4, <5>2
      <4>. QED  BY <3>5, <4>2, <4>3
    <3>. QED  BY <3>6, <3>7
  <2>. QED  BY <2>3, <2>4, <2>5
<1>. QED  BY <1>3, <1>4

LEMMA OnIsBoundary ==
    ASSUME NEW t, t \in Texts, WellFormed(t), NEW c, c \in Boundaries(t)
    PROVE  NextUtf8Boundary(t, c) \in Boundaries(t) /\ NextWordBoundary(t, c) \in Boundaries(t)
<1>1. c \in 0..Len(t) /\ c \in Nat /\ Len(t) \in Nat /\ Len(t) \in Boundaries(t)
  BY EndsAreBoundaries DEF Boundaries, Texts
<1>2. CASE c >= Len(t)
  BY <1>1, <1>2 DEF NextUtf8Boundary, NextWordBoundary
<1>3. CASE ~(c >= Len(t))
  <2> DEFINE k == c + 1
             u == SkipOn(t, k, Trail)
             A == Alike(t[k])
             q == SkipOn(t, c, A)
             z == SkipOn(t, q, Space)
  <2>1. NextUtf8Boundary(t, c) = u /\ NextWordBoundary(t, c) = IF t[k] = "n" THEN k ELSE z
    BY <1>3 DEF NextUtf8Boundary, NextWordBoundary
  <2>2. k \in 0..Len(t) /\ k \in 1..Len(t) /\ t[k] \in Bytes /\ k - 1 = c /\ k > 0
    BY <1>1, <1>3 DEF Texts
  <2>3. q \in c..Len(t) /\ (q = Len(t) \/ t[q + 1] \notin A) /\ \A j \in c..(q - 1) : t[j + 1] \in A
    BY <1>1, SkipOnIs
  <2> HIDE DEF q
  <2>4. q \in 0..Len(t)
    BY <1>1, <2>3
  <2>5. z \in q..Len(t) /\ (z = Len(t) \/ t[z + 1] \notin Space) /\ \A j \in q..(z - 1) : t[j + 1] \in Space
    BY <2>4, SkipOnIs
  <2> HIDE DEF k, z
  <2>6. u \in k..Len(t) /\ (u = Len(t) \/ t[u + 1] \notin Trail)
    BY <2>2, SkipOnIs
  <2> HIDE DEF u
  <2>7. u \in Boundaries(t)
    BY <1>1, <2>2, <2>6 DEF Boundaries
  <2>8. CASE t[k] = "n"
    <3>1. k \in Boundaries(t)
      BY <2>2, <2>8, BoundaryIff
    <3>. QED  BY <2>1, <2>7, <2>8, <3>1
  <2>9. CASE t[k] # "n"
    <3>1. z \in 0..Len(t) /\ z \in Int /\ q \in Int /\ q <= z /\ c <= q
      BY <1>1, <2>3, <2>4, <2>5
    <3>2. CASE z = Len(t)
      BY <1>1, <2>1, <2>7, <2>9, <3>2
    <3>3. CASE z # Len(t) /\ z # q
      <4>1. z - 1 \in q..(z - 1) /\ z - 1 + 1 = z
        BY <3>1, <3>3
      <4>2. t[z] \in Space
        BY <2>5, <4>1
      <4>3. t[z] # "L"
        BY <4>2 DEF Space
      <4>4. z \in Boundaries(t)
        BY <3>1, <4>3, BoundaryIff
      <4>. QED  BY <2>1, <2>7, <2>9, <4>4
    <3>4. CASE z # Len(t) /\ z = q
      <4>1. t[z + 1] \notin Space /\ t[q + 1] \notin A
        BY <2>3, <2>5, <3>4
      <4>2. q # c
        <5>1. SUFFICES ASSUME q = c PROVE FALSE
          OBVIOUS
        <5>2. t[k] \notin Space /\ t[k] \notin A
          BY <3>4, <4>1, <5>1 DEF k
        <5>3. t[k] \in Bytes \ Break
          BY <2>2, <2>9, <5>2 DEF Break, Space
        <5>. QED  BY <5>2, <5>3 DEF Alike
      <4>3. q - 1 \in c..(q - 1) /\ q - 1 + 1 = q
        BY <1>1, <3>1, <4>2
      <4>4. t[q] \in A
        BY <2>3, <4>3
      <4>5. A = {"a"} \/ A = {"L", "C"}
        BY DEF Alike, Bytes, Break, Word
      <4> HIDE DEF A
      <4>6. CASE A = {"a"}
        <5>1. q \in Boundaries(t)
          BY <2>4, <4>4, <4>6, BoundaryIff
        <5>. QED  BY <2>1, <2>7, <2>9, <3>4, <5>1
      <4>7. CASE A = {"L", "C"}
        <5>1. q \in Boundaries(t)
          BY <2>4, <4>1, <4>7 DEF Boundaries, Trail
        <5>. QED  BY <2>1, <2>7, <2>9, <3>4, <5>1
      <4>. QED  BY <4>5, <4>6, <4>7
    <3>. QED  BY <3>2, <3>3, <3>4
  <2>. QED  BY <2>8, <2>9
<1>. QED  BY <1>2, <1>3

LEMMA LineIsBoundary ==
    ASSUME NEW t, t \in Texts, WellFormed(t), NEW c, c \in 0..Len(t)
    PROVE  LineStart(t, c) \in Boundaries(t) /\ LineEnd(t, c) \in Boundaries(t)
<1> DEFINE S == {s \in LineStarts(t) : s <= c}
           s == LineStart(t, c)
           e == LineEnd(t, c)
<1>1. c \in Nat /\ Len(t) \in Nat /\ 0 \in Boundaries(t) /\ s \in 0..c
  BY EndsAreBoundaries, LineOK DEF Texts
<1>2. s \in S
  <2>1. S \subseteq 0..c /\ 0 \in S /\ s = Max(S)
    BY <1>1 DEF LineStarts, LineStart, Texts
  <2> HIDE DEF S, s
  <2>. QED  BY <1>1, <2>1, MaxOfSome
<1>3. s = 0 \/ (s \in 0..Len(t) /\ t[s] = "n")
  BY <1>1, <1>2 DEF LineStarts, Texts
<1>4. e = SkipOn(t, s, Bytes \ {"n"})
  BY DEF LineEnd
<1> HIDE DEF s, e
<1>5. s \in Boundaries(t)
  BY <1>1, <1>3, BoundaryIff
<1>6. s \in 0..Len(t)
  BY <1>1
<1>7. e \in s..Len(t) /\ (e = Len(t) \/ t[e + 1] \notin Bytes \ {"n"})
  BY <1>4, <1>6, SkipOnIs
<1>8. e # Len(t) => t[e + 1] \in Bytes
  BY <1>1, <1>6, <1>7 DEF Texts
<1>9. e \in Boundaries(t)
  BY <1>1, <1>6, <1>7, <1>8 DEF Boundaries, Trail
<1>. QED  BY <1>5, <1>9 DEF s, e

-----------------------------------------------------------------------------
(* Whole texts                                                              *)

WholeText(t) == t \in Texts /\ WellFormed(t)

\* What is before a boundary, and what is after it.
LEMMA PrefixIsWhole ==
    ASSUME NEW t, WholeText(t), NEW n, n \in Boundaries(t)
    PROVE  WholeText(SubSeq(t, 1, n)) /\ Len(SubSeq(t, 1, n)) = n
<1> DEFINE x == SubSeq(t, 1, n)
<1>1. t \in Texts /\ WellFormed(t) /\ n \in 0..Len(t) /\ n \in Nat /\ Len(t) \in Nat
  BY DEF WholeText, Boundaries, Texts
<1>2. x \in Texts /\ Len(x) = n /\ \A i \in 1..n : x[i] = t[i]
  <2>1. (\A i \in 1..n : t[i] \in Bytes) /\ 1 \in Int /\ n \in Int
    BY <1>1 DEF Texts
  <2>. QED  BY <1>1, <2>1, SubSeqProperties DEF Texts
<1> HIDE DEF x
<1>3. ~(n > 0 /\ t[n] = "L")
  BY <1>1, BoundaryIff
<1>4. ASSUME NEW i \in 0..n PROVE (i > 0 /\ x[i] = "L") = (i < n /\ x[i + 1] = "C")
  <2>1. CASE i = n
    BY <1>1, <1>2, <1>3, <2>1
  <2>2. CASE i # n
    <3>1. i + 1 \in 1..n /\ i < n /\ i \in 0..Len(t) /\ i < Len(t) /\ (i > 0 => i \in 1..n)
      BY <1>1, <2>2
    <3>2. (i > 0 /\ t[i] = "L") = (i < Len(t) /\ t[i + 1] = "C")
      BY <1>1, <3>1 DEF WellFormed
    <3>. QED  BY <1>2, <3>1, <3>2
  <2>. QED  BY <2>1, <2>2
<1>. QED  BY <1>2, <1>4 DEF WholeText, WellFormed, x

LEMMA SuffixIsWhole ==
    ASSUME NEW t, WholeText(t), NEW n, n \in Boundaries(t)
    PROVE  WholeText(SubSeq(t, n + 1, Len(t)))
<1> DEFINE k == n + 1
           l == Len(t)
           y == SubSeq(t, k, l)
<1>1. t \in Texts /\ WellFormed(t) /\ n \in 0..l /\ n \in Nat /\ l \in Nat /\ (n = l \/ t[k] # "C")
  BY DEF WholeText, Boundaries, Texts, Trail
<1>2. y \in Texts /\ Len(y) = l - n /\ \A i \in 1..(l - n) : y[i] = t[n + i]
  <2>1. (\A i \in k..l : t[i] \in Bytes) /\ k \in Int /\ l \in Int
    BY <1>1 DEF Texts
  <2> HIDE DEF k, l
  <2>2. y \in Seq(Bytes) /\ Len(y) = (IF k <= l THEN l - k + 1 ELSE 0) /\ \A i \in 1..(l - k + 1) : y[i] = t[k + i - 1]
    BY <2>1, SubSeqProperties
  <2> HIDE DEF y
  <2>3. l - k + 1 = l - n /\ (IF k <= l THEN l - k + 1 ELSE 0) = l - n
    BY <1>1 DEF k
  <2>4. \A i \in 1..(l - n) : k + i - 1 = n + i
    BY <1>1 DEF k
  <2>. QED  BY <2>2, <2>3, <2>4 DEF Texts
<1> HIDE DEF y
<1>3. ASSUME NEW i \in 0..(l - n) PROVE (i > 0 /\ y[i] = "L") = (i < l - n /\ y[i + 1] = "C")
  <2>1. CASE i = 0
    <3>1. ~(i > 0) /\ (i < l - n => 1 \in 1..(l - n) /\ n # l)
      BY <1>1, <2>1
    <3>2. i < l - n => y[i + 1] = t[k]
      BY <1>2, <2>1, <3>1
    <3>. QED  BY <1>1, <3>1, <3>2
  <2>2. CASE i # 0
    <3> DEFINE j == n + i
    <3>1. /\ i > 0 /\ i \in 1..(l - n) /\ j \in 0..l /\ j > 0 /\ (i < l - n <=> j < l)
          /\ (i < l - n => i + 1 \in 1..(l - n)) /\ n + (i + 1) = j + 1
      BY <1>1, <2>2
    <3> HIDE DEF j
    <3>2. (j > 0 /\ t[j] = "L") = (j < l /\ t[j + 1] = "C")
      BY <1>1, <3>1 DEF WellFormed
    <3>3. y[i] = t[j] /\ (i < l - n => y[i + 1] = t[j + 1])
      BY <1>2, <3>1 DEF j
    <3>. QED  BY <3>1, <3>2, <3>3
  <2>. QED  BY <2>1, <2>2
<1>. QED  BY <1>2, <1>3 DEF WholeText, WellFormed, y

\* Two whole texts, one after the other, meet at a boundary.
LEMMA JoinIsWhole ==
    ASSUME NEW x, NEW y, WholeText(x), WholeText(y)
    PROVE  /\ WholeText(x \o y) /\ Len(x \o y) = Len(x) + Len(y)
           /\ Len(x) \in Boundaries(x \o y)
<1> DEFINE z == x \o y
           a == Len(x)
           b == Len(y)
<1>1. x \in Seq(Bytes) /\ y \in Seq(Bytes) /\ WellFormed(x) /\ WellFormed(y) /\ a \in Nat /\ b \in Nat
  BY DEF WholeText, Texts
<1>2. z \in Seq(Bytes) /\ Len(z) = a + b /\ \A i \in 1..(a + b) : z[i] = IF i <= a THEN x[i] ELSE y[i - a]
  BY <1>1, ConcatProperties
<1> HIDE DEF z
<1>3. \A i \in 1..a : z[i] = x[i]
  BY <1>1, <1>2
<1>4. ASSUME NEW j \in 1..b PROVE z[a + j] = y[j]
  <2>1. a + j \in 1..(a + b) /\ ~(a + j <= a) /\ a + j - a = j
    BY <1>1
  <2>. QED  BY <1>2, <2>1
<1>5. \A i \in 0..a : (i > 0 /\ x[i] = "L") = (i < a /\ x[i + 1] = "C")
  BY <1>1 DEF WellFormed
<1>6. \A i \in 0..b : (i > 0 /\ y[i] = "L") = (i < b /\ y[i + 1] = "C")
  BY <1>1 DEF WellFormed
<1> HIDE DEF a, b
<1>7. (a > 0 => x[a] # "L") /\ (b > 0 => y[1] # "C")
  <2>1. (a > 0 /\ x[a] = "L") = (a < a /\ x[a + 1] = "C")
    BY <1>1, <1>5
  <2>2. (0 > 0 /\ y[0] = "L") = (0 < b /\ y[1] = "C")
    <3>1. 0 \in 0..b /\ 0 + 1 = 1
      BY <1>1
    <3>. QED  BY <1>6, <3>1
  <2>3. ~(a < a) /\ ~(0 > 0) /\ (b > 0 => 0 < b)
    BY <1>1
  <2>. QED  BY <2>1, <2>2, <2>3
<1>8. b > 0 => z[a + 1] # "C"
  <2>1. b > 0 => 1 \in 1..b
    BY <1>1
  <2>. QED  BY <1>4, <1>7, <2>1
<1>9. ASSUME NEW i \in 0..(a + b) PROVE (i > 0 /\ z[i] = "L") = (i < a + b /\ z[i + 1] = "C")
  <2>1. CASE i < a
    <3>1. i \in 0..a /\ i + 1 \in 1..a /\ (i > 0 => i \in 1..a) /\ i < a + b
      BY <1>1, <2>1
    <3>2. (i > 0 /\ x[i] = "L") = (i < a /\ x[i + 1] = "C")
      BY <1>5, <3>1
    <3>. QED  BY <1>3, <2>1, <3>1, <3>2
  <2>2. CASE i = a
    <3>1. (i > 0 => i \in 1..a) /\ (i < a + b => b > 0)
      BY <1>1, <2>2
    <3>2. ~(i > 0 /\ z[i] = "L")
      BY <1>3, <1>7, <2>2, <3>1
    <3>3. ~(i < a + b /\ z[i + 1] = "C")
      BY <1>8, <2>2, <3>1
    <3>. QED  BY <3>2, <3>3
  <2>3. CASE i > a
    <3> DEFINE j == i - a
    <3>1. /\ j \in 1..b /\ j \in 0..b /\ j > 0 /\ i > 0 /\ a + j = i /\ a + (j + 1) = i + 1
          /\ (j < b <=> i < a + b) /\ (j < b => j + 1 \in 1..b)
      BY <1>1, <2>3
    <3> HIDE DEF j
    <3>2. (j > 0 /\ y[j] = "L") = (j < b /\ y[j + 1] = "C")
      BY <1>6, <3>1
    <3>3. z[i] = y[j] /\ (j < b => z[i + 1] = y[j + 1])
      BY <1>4, <3>1
    <3>. QED  BY <3>1, <3>2, <3>3
  <2>. QED  BY <1>1, <2>1, <2>2, <2>3
<1>10. WholeText(z)
  BY <1>2, <1>9 DEF WholeText, WellFormed, Texts
<1>11. a \in Boundaries(z)
  <2>1. a \in 0..(a + b) /\ (a = a + b \/ b > 0)
    BY <1>1
  <2>. QED  BY <1>2, <1>8, <2>1 DEF Boundaries, Trail
<1>. QED  BY <1>2, <1>10, <1>11 DEF z, a, b

\* Blanks and breaks are whole.
LEMMA PlainIsWhole ==
    ASSUME NEW s, s \in Texts, \A i \in 1..Len(s) : s[i] \in Break
    PROVE  WholeText(s)
<1>1. Len(s) \in Nat
  BY DEF Texts
<1>2. \A i \in 0..Len(s) : ~(i > 0 /\ s[i] = "L") /\ ~(i < Len(s) /\ s[i + 1] = "C")
  <2>1. SUFFICES ASSUME NEW i \in 0..Len(s)
                 PROVE  ~(i > 0 /\ s[i] = "L") /\ ~(i < Len(s) /\ s[i + 1] = "C")
    OBVIOUS
  <2>2. (i > 0 => i \in 1..Len(s)) /\ (i < Len(s) => i + 1 \in 1..Len(s))
    BY <1>1
  <2>. QED  BY <2>2 DEF Break
<1>. QED  BY <1>2 DEF WholeText, WellFormed

-----------------------------------------------------------------------------
(* Tabs with whole characters                                               *)

\* The caret and the selection are between whole characters, whatever the anchor selects.
Clean(b) ==
    WholeText(b.text) /\ b.cursor \in Boundaries(b.text) /\ (b.anchor < 0 \/ b.anchor \in Boundaries(b.text))
\* No anchor is left behind that selects nothing.
Loose(b) == b.anchor < 0 \/ HasSelection(b)

LEMMA CleanIsWhole ==
    ASSUME NEW b, BufferOK(b)
    PROVE  (Clean(b) => Whole(b)) /\ (Whole(b) /\ Loose(b) => Clean(b))
<1>1. b.anchor \in Int /\ b.text \in Texts
  BY Fields
<1>. QED  BY <1>1 DEF Clean, Whole, WholeText, Loose, HasSelection

LEMMA StillIsClean ==
    ASSUME NEW b, NEW c, Still(c, b)
    PROVE  (Clean(b) => Clean(c)) /\ (Whole(b) => Whole(c)) /\ (Loose(b) => Loose(c))
BY DEF Still, Clean, Whole, Loose, HasSelection

\* What leaves the text, the caret and the anchor alone.
LEMMA BookkeepingIsStill ==
    ASSUME NEW b, BufferOK(b), NEW a, NEW kind, NEW before
    PROVE  /\ Still(Unrun(b), b) /\ Still(Moves(b), b)
           /\ Still(Edit(a, b, kind, before), b)
<1>1. b \in Buffer
  BY DEF BufferOK
<1> DEFINE r == NoRun
           l == "none"
           p == [b EXCEPT !.run = r]
           q == [p EXCEPT !.last = l]
<1>2. Unrun(b) = p /\ Moves(b) = q
  BY DEF Unrun, Moves
<1> HIDE DEF r
<1>3. Still(p, b) /\ DOMAIN p = DOMAIN b
  BY <1>1 DEF Still, Buffer
<1>4. Still(q, b)
  <2> HIDE DEF p
  <2>. QED  BY <1>1, <1>3 DEF Still, Buffer
<1>5. Still(Edit(a, b, kind, before), b)
  <2> DEFINE t == b.text
             s == IF kind # "other" /\ a.run.kind = kind THEN b.run ELSE [kind |-> kind, text |-> before]
             u == [b EXCEPT !.tip = t]
             v == [u EXCEPT !.run = s]
  <2>1. Edit(a, b, kind, before) = v
    BY <1>1 DEF Edit, Buffer
  <2> HIDE DEF t, s
  <2>2. Still(u, b) /\ DOMAIN u = DOMAIN b
    BY <1>1 DEF Still, Buffer
  <2> HIDE DEF u
  <2>3. Still(v, b)
    BY <1>1, <2>2 DEF Still, Buffer
  <2>. QED  BY <2>1, <2>3
<1>. QED  BY <1>2, <1>3, <1>4, <1>5

LEMMA PushIsStill ==
    ASSUME NEW b, BufferOK(b), NEW kind, kind \in EditKinds
    PROVE  BufferOK(PushUndo(b, kind)) /\ Still(PushUndo(b, kind), b)
BY PushUndoOK DEF IsPushed, Same, FieldNames, Still

\* The caret goes to a boundary.
LEMMA MoveIsClean ==
    ASSUME NEW b, BufferOK(b), Clean(b), NEW to, to \in Boundaries(b.text), NEW extend, extend \in BOOLEAN
    PROVE  Clean(MoveCursorTo(b, to, extend)) /\ MoveCursorTo(b, to, extend).text = b.text
<1> DEFINE a == IF ~extend THEN -1 ELSE IF b.anchor < 0 THEN b.cursor ELSE b.anchor
           n == Len(b.text)
           c == Max({0, Min({to, n})})
           p1 == [b EXCEPT !.anchor = a]
           p2 == [p1 EXCEPT !.cursor = c]
<1>1. MoveCursorTo(b, to, extend) = p2
  BY DEF MoveCursorTo
<1>2. b \in Buffer /\ n \in Nat /\ to \in 0..n /\ 0 \in Int
  BY Fields DEF Boundaries
<1>3. a < 0 \/ a \in Boundaries(b.text)
  BY DEF Clean
<1> HIDE DEF a, n
<1>4. c = to
  <2>1. Min({to, n}) = to
    BY <1>2, MinOfTwo
  <2>2. to \in Int /\ 0 <= to
    BY <1>2
  <2>3. Max({0, to}) = IF 0 <= to THEN to ELSE 0
    BY <1>2, <2>2, MaxOfTwo
  <2>. QED  BY <2>1, <2>2, <2>3
<1> HIDE DEF c
<1>5. p1.text = b.text /\ p1.anchor = a /\ DOMAIN p1 = DOMAIN b
  BY <1>2 DEF Buffer
<1> HIDE DEF p1
<1>6. p2.text = b.text /\ p2.anchor = a /\ p2.cursor = c
  BY <1>2, <1>5 DEF Buffer
<1> HIDE DEF p2
<1>. QED  BY <1>1, <1>3, <1>4, <1>6 DEF Clean

\* Everything is selected, from a boundary to a boundary.
LEMMA AllIsClean ==
    ASSUME NEW b, BufferOK(b), Clean(b)
    PROVE  Clean(AllSelected(b))
<1> DEFINE z == 0
           n == Len(b.text)
           p1 == [b EXCEPT !.anchor = z]
           p2 == [p1 EXCEPT !.cursor = n]
<1>1. AllSelected(b) = p2
  BY DEF AllSelected
<1>2. b \in Buffer /\ z \in Boundaries(b.text) /\ n \in Boundaries(b.text)
  BY EndsAreBoundaries DEF BufferOK, Clean, WholeText
<1> HIDE DEF z, n
<1>3. p1.text = b.text /\ p1.anchor = z /\ DOMAIN p1 = DOMAIN b
  BY <1>2 DEF Buffer
<1> HIDE DEF p1
<1>4. p2.text = b.text /\ p2.anchor = z /\ p2.cursor = n
  BY <1>2, <1>3 DEF Buffer
<1> HIDE DEF p2
<1>. QED  BY <1>1, <1>2, <1>4 DEF Clean

\* The text, the caret and the mark are written.
LEMMA Rewritten ==
    ASSUME NEW b, b \in Buffer, NEW v, NEW k
    PROVE  LET e == [b EXCEPT !.text = v, !.cursor = k, !.dirty = TRUE]
           IN  e.text = v /\ e.cursor = k /\ e.anchor = b.anchor /\ DOMAIN e = DOMAIN b
<1> DEFINE p1 == [b EXCEPT !.text = v]
           p2 == [p1 EXCEPT !.cursor = k]
           p3 == [p2 EXCEPT !.dirty = TRUE]
<1>1. p1.text = v /\ p1.cursor = b.cursor /\ p1.anchor = b.anchor /\ DOMAIN p1 = DOMAIN b
  BY DEF Buffer
<1> HIDE DEF p1
<1>2. p2.text = v /\ p2.cursor = k /\ p2.anchor = b.anchor /\ DOMAIN p2 = DOMAIN b
  BY <1>1 DEF Buffer
<1> HIDE DEF p2
<1>3. p3.text = v /\ p3.cursor = k /\ p3.anchor = b.anchor /\ DOMAIN p3 = DOMAIN b
  BY <1>2 DEF Buffer
<1>. QED  BY <1>3 DEF p1, p2

\* What is between two boundaries goes.
LEMMA ErasedIsClean ==
    ASSUME NEW b, BufferOK(b), WholeText(b.text),
           NEW from, from \in Boundaries(b.text), NEW to, to \in Boundaries(b.text)
    PROVE  LET e == Erased(b, from, to)
           IN  /\ WholeText(e.text) /\ e.cursor \in Boundaries(e.text) /\ e.anchor = b.anchor
               /\ BufferOK(e)
<1> DEFINE t == b.text
           x == SubSeq(t, 1, from)
           y == SubSeq(t, to + 1, Len(t))
           v == x \o y
           e == [b EXCEPT !.text = v, !.cursor = from, !.dirty = TRUE]
<1>1. Erased(b, from, to) = e /\ b \in Buffer
  BY DEF Erased, BufferOK
<1>2. WholeText(x) /\ Len(x) = from /\ WholeText(y)
  <2> HIDE DEF t
  <2>1. WholeText(t) /\ from \in Boundaries(t) /\ to \in Boundaries(t)
    BY DEF t
  <2>. QED  BY <2>1, PrefixIsWhole, SuffixIsWhole
<1>3. from \in 0..Len(t) /\ to \in Nat
  BY Fields DEF Boundaries
<1>4. BufferOK(Erased(b, from, to))
  BY <1>3, ErasedOK DEF IsRewritten
<1> HIDE DEF x, y
<1>5. WholeText(v) /\ from \in Boundaries(v)
  BY <1>2, JoinIsWhole
<1> HIDE DEF v
<1>6. e.text = v /\ e.cursor = from /\ e.anchor = b.anchor
  BY <1>1, Rewritten
<1> HIDE DEF e
<1>. QED  BY <1>1, <1>4, <1>5, <1>6

\* Whole characters are put in at the caret.
LEMMA InsertedIsClean ==
    ASSUME NEW b, BufferOK(b), WholeText(b.text), b.cursor \in Boundaries(b.text), NEW s, WholeText(s)
    PROVE  LET e == Inserted(b, s)
           IN  WholeText(e.text) /\ e.cursor \in Boundaries(e.text) /\ e.anchor = b.anchor
<1> DEFINE t == b.text
           c == b.cursor
           x == SubSeq(t, 1, c)
           y == SubSeq(t, c + 1, Len(t))
           z == x \o s
           v == z \o y
           k == c + Len(s)
           e == [b EXCEPT !.text = v, !.cursor = k, !.dirty = TRUE]
<1>1. Inserted(b, s) = e /\ b \in Buffer
  <2>1. b \in Buffer
    BY DEF BufferOK
  <2>. QED  BY <2>1 DEF Inserted, Buffer
<1>2. WholeText(x) /\ Len(x) = c /\ WholeText(y)
  <2> HIDE DEF t, c
  <2>1. WholeText(t) /\ c \in Boundaries(t)
    BY DEF t, c
  <2>. QED  BY <2>1, PrefixIsWhole, SuffixIsWhole
<1> HIDE DEF x, y, c
<1>3. WholeText(z) /\ Len(z) = k
  BY <1>2, JoinIsWhole
<1> HIDE DEF z, k
<1>4. WholeText(v) /\ k \in Boundaries(v)
  BY <1>2, <1>3, JoinIsWhole
<1> HIDE DEF v
<1>5. e.text = v /\ e.cursor = k /\ e.anchor = b.anchor
  BY <1>1, Rewritten
<1> HIDE DEF e
<1>. QED  BY <1>1, <1>4, <1>5

\* The selection goes, and its anchor with it.
LEMMA DeletionIsClean ==
    ASSUME NEW b, BufferOK(b), Clean(b)
    PROVE  Clean(DeleteSelection(b)) /\ (Loose(b) => DeleteSelection(b).anchor < 0)
<1>1. CASE ~HasSelection(b)
  BY <1>1 DEF DeleteSelection, Loose
<1>2. CASE HasSelection(b)
  <2> DEFINE u == PushUndo(b, "other")
             from == SelBegin(b)
             to == SelEnd(b)
             e == Erased(u, from, to)
             none == -1
             d == [e EXCEPT !.anchor = none]
  <2>1. DeleteSelection(b) = d
    BY <1>2 DEF DeleteSelection
  <2>2. BufferOK(u) /\ Still(u, b)
    BY PushIsStill DEF EditKinds
  <2>3. from \in Boundaries(b.text) /\ to \in Boundaries(b.text)
    <3> DEFINE x == b.anchor
               y == b.cursor
               B == Boundaries(b.text)
    <3>1. x \in Int /\ y \in Int /\ x >= 0 /\ x # y
      BY <1>2, Fields DEF HasSelection
    <3>2. x \in B /\ y \in B
      BY <3>1 DEF Clean
    <3>3. from = Min({x, y}) /\ to = Max({x, y})
      BY <1>2 DEF SelBegin, SelEnd
    <3> HIDE DEF x, y, B, from, to
    <3>4. Min({x, y}) = (IF x <= y THEN x ELSE y) /\ Max({x, y}) = (IF x <= y THEN y ELSE x)
      BY <3>1, MinOfTwo, MaxOfTwo
    <3>5. from \in B /\ to \in B
      BY <3>2, <3>3, <3>4
    <3>. QED  BY <3>5 DEF B
  <2> HIDE DEF u, from, to
  <2>4. WholeText(u.text) /\ from \in Boundaries(u.text) /\ to \in Boundaries(u.text)
    BY <2>2, <2>3 DEF Still, Clean
  <2>5. WholeText(e.text) /\ e.cursor \in Boundaries(e.text) /\ e \in Buffer
    BY <2>2, <2>4, ErasedIsClean DEF BufferOK
  <2> HIDE DEF e
  <2>6. none < 0
    OBVIOUS
  <2> HIDE DEF none
  <2>7. d.text = e.text /\ d.cursor = e.cursor /\ d.anchor = none
    BY <2>5 DEF Buffer
  <2> HIDE DEF d
  <2>. QED  BY <2>1, <2>5, <2>6, <2>7 DEF Clean
<1>. QED  BY <1>1, <1>2

\* Whole characters take the place of the selection.
LEMMA InsertionIsClean ==
    ASSUME NEW b, BufferOK(b), Clean(b), NEW s, WholeText(s), NEW kind, kind \in EditKinds
    PROVE  /\ Loose(b) => Clean(InsertText(b, s, kind))
           /\ BufferOK(InsertText(b, s, kind))
<1> DEFINE d == DeleteSelection(b)
           u == PushUndo(d, kind)
           e == Inserted(u, s)
<1>1. InsertText(b, s, kind) = e
  BY DEF InsertText, Inserted
<1>2. BufferOK(d) /\ Clean(d) /\ (Loose(b) => d.anchor < 0)
  BY DeletedBufferOK, DeletionIsClean
<1> HIDE DEF d
<1>3. BufferOK(u) /\ Still(u, d)
  BY <1>2, PushIsStill
<1> HIDE DEF u
<1>4. WholeText(u.text) /\ u.cursor \in Boundaries(u.text) /\ u.anchor = d.anchor /\ s \in Texts
  BY <1>2, <1>3 DEF Still, Clean, WholeText
<1>5. WholeText(e.text) /\ e.cursor \in Boundaries(e.text) /\ e.anchor = u.anchor
  BY <1>3, <1>4, InsertedIsClean
<1>6. BufferOK(e)
  BY <1>3, <1>4, InsertedOK DEF IsRewritten
<1> HIDE DEF e
<1>. QED  BY <1>1, <1>2, <1>4, <1>5, <1>6 DEF Clean

\* Undo and redo show a text as it was.
LEMMA RestoredIsWhole ==
    ASSUME NEW b, b \in Buffer, NEW s, s \in Snap, Whole(s)
    PROVE  Whole(Unrun(Restored(b, s)))
<1> DEFINE t == s.text
           c == Min({s.cursor, Len(s.text)})
           a == s.anchor
           l == "other"
           p1 == [b EXCEPT !.text = t]
           p2 == [p1 EXCEPT !.cursor = c]
           p3 == [p2 EXCEPT !.anchor = a]
           p4 == [p3 EXCEPT !.dirty = TRUE]
           p5 == [p4 EXCEPT !.last = l]
<1>1. Restored(b, s) = p5
  BY DEF Restored
<1>2. c = s.cursor
  <2> DEFINE x == s.cursor
             y == Len(s.text)
  <2>1. x \in Int /\ y \in Int /\ x <= y
    BY DEF Whole, Boundaries, Snap, Texts
  <2> HIDE DEF x, y
  <2>2. Min({x, y}) = x
    BY <2>1, MinOfTwo
  <2>. QED  BY <2>2 DEF x, y
<1> HIDE DEF c, t, a
<1>3. p1.text = t /\ DOMAIN p1 = DOMAIN b
  BY DEF Buffer
<1> HIDE DEF p1
<1>4. p2.text = t /\ p2.cursor = c /\ DOMAIN p2 = DOMAIN b
  BY <1>3 DEF Buffer
<1> HIDE DEF p2
<1>5. p3.text = t /\ p3.cursor = c /\ p3.anchor = a /\ DOMAIN p3 = DOMAIN b
  BY <1>4 DEF Buffer
<1> HIDE DEF p3
<1>6. p4.text = t /\ p4.cursor = c /\ p4.anchor = a /\ DOMAIN p4 = DOMAIN b
  BY <1>5 DEF Buffer
<1> HIDE DEF p4
<1>7. p5.text = t /\ p5.cursor = c /\ p5.anchor = a /\ DOMAIN p5 = DOMAIN b
  BY <1>6 DEF Buffer
<1> HIDE DEF p5
<1>8. Unrun(p5).text = t /\ Unrun(p5).cursor = c /\ Unrun(p5).anchor = a
  BY <1>7 DEF Unrun, Buffer
<1>9. Still(Unrun(p5), s)
  BY <1>2, <1>8 DEF Still, t, a
<1>. QED  BY <1>1, <1>9, StillIsClean

-----------------------------------------------------------------------------
(* Steps with whole characters                                              *)

Ready(b) == Whole(b) /\ Loose(b) /\ HistoryWhole(b) /\ WellFormed(clip)
CharactersKept ==
    \A i \in DOMAIN buffers \cap DOMAIN buffers' :
        Ready(buffers[i]) => Whole(buffers'[i])

\* An input on the tab that is shown.
LEMMA InputIsWhole ==
    ASSUME EditorTypeOK, NEW c, Input(c), active # 0, Ready(buffers[active]) => Whole(c)
    PROVE  CharactersKept
<1>1. buffers' = [buffers EXCEPT ![active] = c]
  BY DEF Input, Becomes
<1>2. \A i \in DOMAIN buffers : buffers'[i] = IF i = active THEN c ELSE buffers[i]
  BY <1>1 DEF EditorTypeOK
<1>. QED  BY <1>2 DEF CharactersKept, Ready

\* What the tab that is shown is before an input.
LEMMA ReadyTab ==
    ASSUME EditorTypeOK, BuffersOK, active # 0
    PROVE  /\ BufferInv(buffers[active]) /\ BufferOK(buffers[active])
           /\ Ready(buffers[active]) => /\ Clean(buffers[active]) /\ Loose(buffers[active])
                                        /\ HistoryWhole(buffers[active]) /\ WholeText(clip)
<1>1. BufferInv(buffers[active]) /\ BufferOK(buffers[active])
  BY ActiveTab
<1>. QED  BY <1>1, CleanIsWhole DEF Ready, WholeText, EditorTypeOK

\* The anchor and the caret of a click are what the mouse hits.
LEMMA ClickIsWhole == ASSUME EditorTypeOK, BuffersOK, Click PROVE CharactersKept
<1> DEFINE o == buffers[active]
<1>1. active # 0
  BY DEF Click, OnBuffer
<1>2. PICK at, to \in Boundaries(o.text), shift, dragged \in BOOLEAN :
         Input(IF dragged THEN MoveCursorTo(MoveCursorTo(o, at, shift), to, TRUE) ELSE MoveCursorTo(o, at, shift))
  BY DEF Click, Text
<1> DEFINE b == MoveCursorTo(o, at, shift)
           c == MoveCursorTo(b, to, TRUE)
           e == IF dragged THEN c ELSE b
<1>3. BufferOK(o) /\ (Ready(o) => Clean(o))
  BY <1>1, ReadyTab
<1> HIDE DEF o
<1>4. ASSUME Ready(o) PROVE Whole(e)
  <2>1. at \in Int
    BY DEF Boundaries
  <2>2. Clean(b) /\ BufferOK(b) /\ b.text = o.text
    BY <1>3, <1>4, <2>1, MoveIsClean, MoveOK
  <2> HIDE DEF b
  <2>3. to \in Int
    BY DEF Boundaries
  <2>4. Clean(c) /\ BufferOK(c)
    BY <2>2, <2>3, MoveIsClean, MoveOK
  <2> HIDE DEF c
  <2>. QED  BY <2>2, <2>4, CleanIsWhole
<1>5. Input(e)
  BY <1>2
<1> HIDE DEF e
<1>. QED  BY <1>1, <1>4, <1>5, InputIsWhole DEF o

LEMMA RightClickIsWhole == ASSUME EditorTypeOK, BuffersOK, RightClick PROVE CharactersKept
<1> DEFINE o == buffers[active]
<1>1. active # 0
  BY DEF RightClick, OnBuffer
<1>2. PICK at \in Boundaries(o.text) : Input(MoveCursorTo(o, at, FALSE))
  BY DEF RightClick, Text
<1> DEFINE c == MoveCursorTo(o, at, FALSE)
<1>3. BufferOK(o) /\ (Ready(o) => Clean(o)) /\ at \in Int
  BY <1>1, ReadyTab DEF Boundaries
<1> HIDE DEF o
<1>4. ASSUME Ready(o) PROVE Whole(c)
  <2>1. Clean(c) /\ BufferOK(c)
    BY <1>3, <1>4, MoveIsClean, MoveOK
  <2>. QED  BY <2>1, CleanIsWhole
<1>5. Input(c)
  BY <1>2
<1> HIDE DEF c
<1>. QED  BY <1>1, <1>4, <1>5, InputIsWhole DEF o

\* The snapshot that is taken off a history.
LEMMA LastIsWhole ==
    ASSUME NEW s, s \in Seq(Snap), s # <<>>, \A x \in Range(s) : Whole(x)
    PROVE  Last(s) \in Snap /\ Whole(Last(s))
<1> DEFINE n == Len(s)
<1>1. n \in Nat /\ n # 0 /\ Last(s) = s[n]
  BY EmptySeq DEF Last
<1>2. n \in DOMAIN s
  BY <1>1
<1>3. Last(s) \in Range(s)
  BY <1>1, <1>2 DEF Range
<1>. QED  BY <1>3, OneLess

LEMMA UndoIsWholeStep == ASSUME EditorTypeOK, BuffersOK, Undo PROVE CharactersKept
<1> DEFINE o == buffers[active]
           c == Unrun(ApplyUndo(o))
<1>1. active # 0 /\ o.undo # <<>> /\ Input(c)
  BY DEF Undo, OnBuffer
<1>2. BufferOK(o) /\ (Ready(o) => HistoryWhole(o))
  BY <1>1, ReadyTab
<1> HIDE DEF o
<1>3. ASSUME Ready(o) PROVE Whole(c)
  <2> DEFINE s == Last(o.undo)
             r == Append(o.redo, Snapshot(o))
             u == Front(o.undo)
             p == [o EXCEPT !.redo = r]
             q == [p EXCEPT !.undo = u]
  <2>1. o.undo \in Seq(Snap) /\ o.redo \in Seq(Snap) /\ o \in Buffer /\ Snapshot(o) \in Snap
    BY <1>2, Fields, SnapshotOK
  <2>2. s \in Snap /\ Whole(s) /\ u \in Seq(Snap)
    BY <1>1, <1>2, <1>3, <2>1, LastIsWhole, OneLess DEF HistoryWhole
  <2>3. r \in Seq(Snap)
    BY <2>1, OneMore
  <2>4. c = Unrun(Restored(q, s))
    BY <1>1 DEF ApplyUndo
  <2> HIDE DEF s, r, u, c
  <2>5. p \in Buffer
    BY <2>1, <2>3 DEF Buffer
  <2> HIDE DEF p
  <2>6. q \in Buffer
    BY <2>2, <2>5 DEF Buffer
  <2> HIDE DEF q
  <2>. QED  BY <2>2, <2>4, <2>6, RestoredIsWhole
<1> HIDE DEF c
<1>. QED  BY <1>1, <1>3, InputIsWhole DEF o

LEMMA RedoIsWholeStep == ASSUME EditorTypeOK, BuffersOK, Redo PROVE CharactersKept
<1> DEFINE o == buffers[active]
           c == Unrun(ApplyRedo(o))
<1>1. active # 0 /\ o.redo # <<>> /\ Input(c)
  BY DEF Redo, OnBuffer
<1>2. BufferOK(o) /\ (Ready(o) => HistoryWhole(o))
  BY <1>1, ReadyTab
<1> HIDE DEF o
<1>3. ASSUME Ready(o) PROVE Whole(c)
  <2> DEFINE s == Last(o.redo)
             u == Append(o.undo, Snapshot(o))
             r == Front(o.redo)
             p == [o EXCEPT !.undo = u]
             q == [p EXCEPT !.redo = r]
  <2>1. o.undo \in Seq(Snap) /\ o.redo \in Seq(Snap) /\ o \in Buffer /\ Snapshot(o) \in Snap
    BY <1>2, Fields, SnapshotOK
  <2>2. s \in Snap /\ Whole(s) /\ r \in Seq(Snap)
    BY <1>1, <1>2, <1>3, <2>1, LastIsWhole, OneLess DEF HistoryWhole
  <2>3. u \in Seq(Snap)
    BY <2>1, OneMore
  <2>4. c = Unrun(Restored(q, s))
    BY <1>1 DEF ApplyRedo
  <2> HIDE DEF s, r, u, c
  <2>5. p \in Buffer
    BY <2>1, <2>3 DEF Buffer
  <2> HIDE DEF p
  <2>6. q \in Buffer
    BY <2>2, <2>5 DEF Buffer
  <2> HIDE DEF q
  <2>. QED  BY <2>2, <2>4, <2>6, RestoredIsWhole
<1> HIDE DEF c
<1>. QED  BY <1>1, <1>3, InputIsWhole DEF o

LEMMA SelectAllIsWhole == ASSUME EditorTypeOK, BuffersOK, SelectAll PROVE CharactersKept
<1> DEFINE o == buffers[active]
           c == AllSelected(o)
           d == Moves(c)
<1>1. active # 0 /\ (Input(d) \/ Input(c))
  BY DEF SelectAll, OnBuffer, Moves
<1>2. BufferInv(o) /\ BufferOK(o) /\ (Ready(o) => Clean(o))
  BY <1>1, ReadyTab
<1> HIDE DEF o
<1>3. BufferOK(c)
  BY <1>2, AllSelectedKeeps, InvParts DEF Kept
<1>4. Still(d, c)
  BY <1>3, BookkeepingIsStill
<1>5. ASSUME Ready(o) PROVE Whole(c)
  BY <1>2, <1>3, <1>5, AllIsClean, CleanIsWhole
<1>6. ASSUME Ready(o) PROVE Whole(d)
  BY <1>4, <1>5, <1>6, StillIsClean
<1> HIDE DEF c, d
<1>. QED  BY <1>1, <1>5, <1>6, InputIsWhole DEF o

LEMMA MenuCutIsWhole == ASSUME EditorTypeOK, BuffersOK, MenuCut PROVE CharactersKept
<1> DEFINE o == buffers[active]
           t == o.text
           u == PushUndo(o, "other")
           d == DeleteSelection(u)
           c == Edit(o, d, "other", t)
<1>1. active # 0 /\ buffers' = [buffers EXCEPT ![active] = c]
  BY DEF MenuCut, OnBuffer, Becomes
<1>2. BufferOK(o) /\ (Ready(o) => Clean(o)) /\ "other" \in EditKinds
  BY <1>1, ReadyTab DEF EditKinds
<1> HIDE DEF o
<1>3. ASSUME Ready(o) PROVE Whole(c)
  <2>1. BufferOK(u) /\ Clean(u)
    BY <1>2, <1>3, PushIsStill, StillIsClean
  <2> HIDE DEF u, t
  <2>2. BufferOK(d) /\ Clean(d)
    BY <2>1, DeletionIsClean, DeletedBufferOK
  <2> HIDE DEF d
  <2>3. Still(c, d) /\ Whole(d)
    BY <2>2, BookkeepingIsStill, CleanIsWhole
  <2>. QED  BY <2>3, StillIsClean
<1>4. \A i \in DOMAIN buffers : buffers'[i] = IF i = active THEN c ELSE buffers[i]
  BY <1>1 DEF EditorTypeOK
<1> HIDE DEF c
<1>. QED  BY <1>3, <1>4 DEF CharactersKept, Ready, o

\* An insertion, as the history records it.
LEMMA EditIsWhole ==
    ASSUME NEW b, BufferOK(b), Clean(b), Loose(b), NEW s, WholeText(s), NEW kind, kind \in EditKinds,
           NEW a, NEW k, NEW before
    PROVE  Whole(Edit(a, InsertText(b, s, kind), k, before))
<1> DEFINE d == InsertText(b, s, kind)
           c == Edit(a, d, k, before)
<1>1. BufferOK(d) /\ Clean(d)
  BY InsertionIsClean
<1> HIDE DEF d
<1>2. Still(c, d) /\ Whole(d)
  BY <1>1, BookkeepingIsStill, CleanIsWhole
<1> HIDE DEF c
<1>3. Whole(c)
  BY <1>2, StillIsClean
<1>. QED  BY <1>3 DEF c, d

LEMMA PasteIsWhole == ASSUME EditorTypeOK, BuffersOK, Paste PROVE CharactersKept
<1> DEFINE o == buffers[active]
           c == Edit(o, InsertText(o, clip, "other"), "other", o.text)
<1>1. active # 0 /\ Input(c)
  BY DEF Paste, OnBuffer
<1>2. BufferOK(o) /\ (Ready(o) => Clean(o) /\ Loose(o) /\ WholeText(clip)) /\ "other" \in EditKinds
  BY <1>1, ReadyTab DEF EditKinds
<1> HIDE DEF o
<1>3. ASSUME Ready(o) PROVE Whole(c)
  BY <1>2, <1>3, EditIsWhole
<1> HIDE DEF c
<1>. QED  BY <1>1, <1>3, InputIsWhole DEF o

LEMMA TypeIsWhole == ASSUME EditorTypeOK, BuffersOK, Type PROVE CharactersKept
<1> DEFINE o == buffers[active]
<1>1. active # 0
  BY DEF Type, OnBuffer
<1>2. PICK s \in Bursts :
         Input(Edit(IF HasSelection(o) THEN Unrun(o) ELSE o, InsertText(o, s, "insert"), "insert",
                    DeleteSelection(o).text))
  BY DEF Type
<1>3. BufferOK(o) /\ (Ready(o) => Clean(o) /\ Loose(o)) /\ "insert" \in EditKinds /\ WholeText(s)
  BY <1>1, ReadyTab, BurstsAssumption, TextsAssumption DEF EditKinds, WholeText, Texts
<1> HIDE DEF o
<1> DEFINE a == IF HasSelection(o) THEN Unrun(o) ELSE o
           before == DeleteSelection(o).text
           c == Edit(a, InsertText(o, s, "insert"), "insert", before)
<1>4. Input(c)
  BY <1>2
<1> HIDE DEF a, before
<1>5. ASSUME Ready(o) PROVE Whole(c)
  BY <1>3, <1>5, EditIsWhole
<1> HIDE DEF c
<1>. QED  BY <1>1, <1>4, <1>5, InputIsWhole DEF o

\* Delete, Backspace and their words.
LEMMA DeletedIsWhole ==
    ASSUME NEW b, BufferOK(b), Clean(b), b.anchor < 0,
           NEW from, from \in Boundaries(b.text), NEW to, to \in Boundaries(b.text)
    PROVE  Whole(Deleted(b, from, to))
<1> DEFINE u == PushUndo(b, "delete")
           d == Erased(u, from, to)
           t == b.text
           c == Edit(b, d, "delete", t)
<1>1. Deleted(b, from, to) = c
  BY DEF Deleted
<1>2. BufferOK(u) /\ Still(u, b)
  BY PushIsStill DEF EditKinds
<1> HIDE DEF u
<1>3. WholeText(u.text) /\ from \in Boundaries(u.text) /\ to \in Boundaries(u.text) /\ u.anchor = b.anchor
  BY <1>2 DEF Still, Clean
<1>4. BufferOK(d) /\ Clean(d)
  BY <1>2, <1>3, ErasedIsClean DEF Clean
<1> HIDE DEF d, t
<1>5. Still(c, d) /\ Whole(d)
  BY <1>4, BookkeepingIsStill, CleanIsWhole
<1> HIDE DEF c
<1>6. Whole(c)
  BY <1>5, StillIsClean
<1>. QED  BY <1>1, <1>6

LEMMA DeleteKeysIsWhole == ASSUME EditorTypeOK, BuffersOK, DeleteKeys PROVE CharactersKept
<1> DEFINE o == buffers[active]
           t == o.text
           k == o.cursor
           d == DeleteSelection(o)
           e == Edit(o, d, "other", t)
<1>1. active # 0
  BY DEF DeleteKeys, OnBuffer
<1>2. \/ HasSelection(o) /\ Input(e)
      \/ ~HasSelection(o) /\ \E from \in {PrevUtf8Boundary(t, k), PrevWordBoundary(t, k)} : Input(Deleted(o, from, k))
      \/ ~HasSelection(o) /\ \E to \in {NextUtf8Boundary(t, k), NextWordBoundary(t, k)} : Input(Deleted(o, k, to))
  BY DEF DeleteKeys
<1>3. BufferOK(o) /\ (Ready(o) => Clean(o) /\ Loose(o))
  BY <1>1, ReadyTab
<1> HIDE DEF o
<1>4. Ready(o) => t \in Texts /\ WellFormed(t) /\ k \in Boundaries(t) /\ (~HasSelection(o) => o.anchor < 0)
  BY <1>3 DEF Clean, Loose, WholeText
<1>5. CASE HasSelection(o) /\ Input(e)
  <2>1. ASSUME Ready(o) PROVE Whole(e)
    <3>1. BufferOK(d) /\ Clean(d)
      BY <1>3, <2>1, DeletionIsClean, DeletedBufferOK
    <3> HIDE DEF d, t
    <3>2. Still(e, d) /\ Whole(d)
      BY <3>1, BookkeepingIsStill, CleanIsWhole
    <3>. QED  BY <3>2, StillIsClean
  <2> HIDE DEF e
  <2>. QED  BY <1>1, <1>5, <2>1, InputIsWhole DEF o
<1>6. ASSUME ~HasSelection(o),
             NEW from \in {PrevUtf8Boundary(t, k), PrevWordBoundary(t, k)}, Input(Deleted(o, from, k))
      PROVE  CharactersKept
  <2> DEFINE c == Deleted(o, from, k)
  <2>1. ASSUME Ready(o) PROVE Whole(c)
    <3>1. from \in Boundaries(t)
      <4> HIDE DEF t, k
      <4>. QED  BY <1>4, <1>6, <2>1, BackIsBoundary
    <3>. QED  BY <1>3, <1>4, <1>6, <2>1, <3>1, DeletedIsWhole
  <2>2. Input(c)
    BY <1>6
  <2> HIDE DEF c
  <2>. QED  BY <1>1, <2>1, <2>2, InputIsWhole DEF o
<1>7. ASSUME ~HasSelection(o),
             NEW to \in {NextUtf8Boundary(t, k), NextWordBoundary(t, k)}, Input(Deleted(o, k, to))
      PROVE  CharactersKept
  <2> DEFINE c == Deleted(o, k, to)
  <2>1. ASSUME Ready(o) PROVE Whole(c)
    <3>1. to \in Boundaries(t)
      <4> HIDE DEF t, k
      <4>. QED  BY <1>4, <1>7, <2>1, OnIsBoundary
    <3>. QED  BY <1>3, <1>4, <1>7, <2>1, <3>1, DeletedIsWhole
  <2>2. Input(c)
    BY <1>7
  <2> HIDE DEF c
  <2>. QED  BY <1>1, <2>1, <2>2, InputIsWhole DEF o
<1>. QED  BY <1>2, <1>5, <1>6, <1>7

LEMMA ArrowsIsWhole == ASSUME EditorTypeOK, BuffersOK, Arrows PROVE CharactersKept
<1> DEFINE o == buffers[active]
           t == o.text
           k == o.cursor
<1>1. active # 0
  BY DEF Arrows, OnBuffer
<1>2. PICK to \in {PrevUtf8Boundary(t, k), NextUtf8Boundary(t, k), PrevWordBoundary(t, k),
                   NextWordBoundary(t, k), LineStart(t, k), LineEnd(t, k)}, shift \in BOOLEAN :
         Input(Moves(MoveCursorTo(o, to, shift)))
  BY DEF Arrows
<1>3. BufferOK(o) /\ (Ready(o) => Clean(o))
  BY <1>1, ReadyTab
<1> DEFINE b == MoveCursorTo(o, to, shift)
           c == Moves(b)
<1> HIDE DEF o
<1>4. ASSUME Ready(o) PROVE Whole(c)
  <2>1. t \in Texts /\ WellFormed(t) /\ k \in Boundaries(t)
    BY <1>3, <1>4 DEF Clean, WholeText
  <2>2. to \in Boundaries(t)
    <3> HIDE DEF t, k
    <3>1. k \in 0..Len(t)
      BY <2>1 DEF Boundaries
    <3>. QED  BY <1>2, <2>1, <3>1, BackIsBoundary, OnIsBoundary, LineIsBoundary
  <2>3. to \in Int
    BY <2>2 DEF Boundaries
  <2>4. BufferOK(b) /\ Clean(b)
    BY <1>3, <1>4, <2>2, <2>3, MoveOK, MoveIsClean
  <2> HIDE DEF b
  <2>5. Still(c, b) /\ Whole(b)
    BY <2>4, BookkeepingIsStill, CleanIsWhole
  <2>. QED  BY <2>5, StillIsClean
<1>5. Input(c)
  BY <1>2
<1> HIDE DEF c
<1>. QED  BY <1>1, <1>4, <1>5, InputIsWhole DEF o

\* What Enter and Tab put in.
LEMMA BlankIsWhole == ASSUME NEW n, n \in Int PROVE WholeText(Blank(n))
<1> DEFINE s == Blank(n)
<1>1. s \in Texts
  BY BlankOK
<1>2. DOMAIN s = 1..n /\ \A i \in 1..n : s[i] = "s"
  BY DEF Blank
<1> HIDE DEF s
<1>3. DOMAIN s = 1..Len(s)
  BY <1>1 DEF Texts
<1>4. \A i \in 1..Len(s) : s[i] \in Break
  BY <1>2, <1>3 DEF Break
<1>. QED  BY <1>1, <1>4, PlainIsWhole DEF s

LEMMA IndentIsWhole ==
    ASSUME NEW t, t \in Texts, NEW start, start \in 0..Len(t)
    PROVE  WholeText(<<"n">> \o SubSeq(t, start + 1, SkipOn(t, start, Space)))
<1> DEFINE m == start + 1
           e == SkipOn(t, start, Space)
           x == SubSeq(t, m, e)
           l == <<"n">>
<1>1. e \in start..Len(t) /\ (\A k \in start..(e - 1) : t[k + 1] \in Space) /\ Len(t) \in Nat
  BY SkipOnIs DEF Texts
<1> HIDE DEF e
<1>2. m \in Int /\ e \in Int /\ \A i \in m..e : t[i] \in Break
  <2>1. m \in Int /\ e \in Int
    BY <1>1
  <2>2. ASSUME NEW i \in m..e PROVE t[i] \in Break
    <3>1. i - 1 \in start..(e - 1) /\ i - 1 + 1 = i
      BY <1>1
    <3>. QED  BY <1>1, <3>1 DEF Space, Break
  <2>. QED  BY <2>1, <2>2
<1> HIDE DEF m
<1>3. x \in Seq(Break)
  BY <1>2, SubSeqProperties
<1>4. l \in Seq(Break)
  BY DEF Break
<1> HIDE DEF x, l
<1>5. l \o x \in Seq(Break)
  BY <1>3, <1>4, ConcatProperties
<1> DEFINE z == l \o x
<1> HIDE DEF z
<1>6. z \in Texts /\ \A i \in 1..Len(z) : z[i] \in Break
  BY <1>5 DEF z, Texts, Bytes, Break
<1>. QED  BY <1>6, PlainIsWhole DEF z, l, x, m, e

LEMMA EnterOrTabIsWhole == ASSUME EditorTypeOK, BuffersOK, EnterOrTab PROVE CharactersKept
<1> DEFINE o == buffers[active]
           before == o.text
           d == DeleteSelection(o)
           t == d.text
           k == d.cursor
           start == LineStart(t, k)
           l == <<"n">> \o SubSeq(t, start + 1, SkipOn(t, start, Space))
           gap == TabWidth - (Col(t, k) % TabWidth)
<1>1. active # 0
  BY DEF EnterOrTab, OnBuffer
<1>2. PICK s \in {l, Blank(gap)} : Input(Edit(o, InsertText(d, s, "other"), "other", before))
  BY DEF EnterOrTab
<1>3. BufferOK(o) /\ (Ready(o) => Clean(o) /\ Loose(o)) /\ "other" \in EditKinds
  BY <1>1, ReadyTab DEF EditKinds
<1> HIDE DEF o
<1>4. BufferOK(d) /\ (Ready(o) => Clean(d) /\ Loose(d))
  BY <1>3, DeletedBufferOK, DeletionIsClean DEF Loose
<1> HIDE DEF d
<1>5. t \in Texts /\ k \in 0..Len(t) /\ Len(t) \in Nat
  BY <1>4, Fields
<1> HIDE DEF t, k
<1>6. start \in 0..k /\ Col(t, k) \in Nat
  BY <1>5, LineOK
<1>7. start \in 0..Len(t) /\ gap \in Int
  BY <1>5, <1>6, EditorAssumption
<1> HIDE DEF start, gap
<1>8. WholeText(l) /\ WholeText(Blank(gap))
  BY <1>5, <1>7, IndentIsWhole, BlankIsWhole
<1> HIDE DEF l
<1>9. WholeText(s)
  BY <1>2, <1>8
<1> DEFINE c == Edit(o, InsertText(d, s, "other"), "other", before)
<1>10. Input(c)
  BY <1>2
<1> HIDE DEF before
<1>11. ASSUME Ready(o) PROVE Whole(c)
  BY <1>3, <1>4, <1>9, <1>11, EditIsWhole
<1> HIDE DEF c
<1>. QED  BY <1>1, <1>10, <1>11, InputIsWhole DEF o

\* Opening leaves the tabs there are alone, saving all but the mark.
LEMMA OpenedStill ==
    ASSUME EditorTypeOK, BuffersOK, NEW p, p \in Paths, p[2] = "here"
    PROVE  /\ Opened(p) \in Seq(Buffer) /\ Focus(p) \in DOMAIN Opened(p)
           /\ \A i \in DOMAIN buffers \cap DOMAIN Opened(p) : Opened(p)[i] = buffers[i]
<1>1. Opened(p) \in Seq(Buffer) /\ Focus(p) \in 1..Len(Opened(p))
  BY OpenedTabs DEF TabsOK
<1>2. CASE Tab(p) # {}
  <2>1. Opened(p) = buffers
    BY <1>2, OpenedOK
  <2>. QED  BY <1>1, <2>1
<1>3. CASE Tab(p) = {}
  <2>1. PICK c : Fresh(c) /\ Opened(p) = Append(buffers, c)
    BY <1>3, OpenedOK
  <2>2. c \in Buffer /\ buffers \in Seq(Buffer)
    BY <2>1 DEF Fresh, BufferInv, BufferOK, EditorTypeOK
  <2> DEFINE bs == Append(buffers, c)
  <2>3. \A i \in 1..Len(buffers) : bs[i] = buffers[i]
    BY <2>2, AppendProperties
  <2> HIDE DEF bs
  <2>4. DOMAIN buffers = 1..Len(buffers) /\ Opened(p) = bs
    BY <2>1, <2>2 DEF bs
  <2>. QED  BY <1>1, <2>3, <2>4
<1>. QED  BY <1>2, <1>3

\* Tabs whose text, caret and anchor stay keep their characters.
LEMMA StillKeeps ==
    ASSUME \A i \in DOMAIN buffers \cap DOMAIN buffers' : Still(buffers'[i], buffers[i])
    PROVE  CharactersKept
BY StillIsClean DEF CharactersKept, Ready

LEMMA OpenFileIsWhole == ASSUME EditorTypeOK, BuffersOK, OpenFile PROVE CharactersKept
<1>1. PICK p \in Paths : p[2] = "here" /\ buffers' = Opened(p)
  BY DEF OpenFile
<1>2. \A i \in DOMAIN buffers \cap DOMAIN buffers' : buffers'[i] = buffers[i]
  BY <1>1, OpenedStill
<1>. QED  BY <1>2, StillKeeps DEF Still

LEMMA CreateFileIsWhole == ASSUME EditorTypeOK, BuffersOK, CreateFile PROVE CharactersKept
<1>1. PICK p \in Paths :
         /\ p[2] = "here" /\ active' = Focus(p)
         /\ Save(Opened(p), Focus(p)) \/ buffers' = Opened(p)
  BY DEF CreateFile
<1>2. UNCHANGED clip
  BY DEF CreateFile
<1> DEFINE bs == Opened(p)
           k == Focus(p)
<1>3. /\ bs \in Seq(Buffer) /\ k \in DOMAIN bs /\ \A i \in DOMAIN buffers \cap DOMAIN bs : bs[i] = buffers[i]
      /\ TabsOK(bs) /\ (DiskInv => TabsOnDisk(bs))
  BY <1>1, OpenedStill, OpenedTabs
<1>4. active' = k /\ (Save(bs, k) \/ buffers' = bs)
  BY <1>1
<1> HIDE DEF bs, k
<1>5. DOMAIN buffers' = DOMAIN bs /\ \A i \in DOMAIN bs : Still(buffers'[i], bs[i])
  <2>1. CASE Save(bs, k)
    BY <1>2, <1>3, <1>4, <2>1, SavedOK
  <2>2. CASE buffers' = bs
    BY <2>2 DEF Still
  <2>. QED  BY <1>4, <2>1, <2>2
<1>6. \A i \in DOMAIN buffers \cap DOMAIN buffers' : Still(buffers'[i], buffers[i])
  BY <1>3, <1>5
<1>. QED  BY <1>6, StillKeeps

LEMMA SaveActiveIsWhole == ASSUME EditorTypeOK, BuffersOK, SaveActive PROVE CharactersKept
<1>1. active # 0 /\ active' = active /\ UNCHANGED clip /\ Save(buffers, active)
  BY DEF SaveActive
<1>2. TabsOK(buffers) /\ active \in DOMAIN buffers /\ (DiskInv => TabsOnDisk(buffers))
  BY <1>1 DEF EditorTypeOK, BuffersOK, TabsOK, DiskInv, TabsOnDisk
<1>3. DOMAIN buffers' = DOMAIN buffers /\ \A i \in DOMAIN buffers : Still(buffers'[i], buffers[i])
  BY <1>1, <1>2, SavedOK
<1>. QED  BY <1>3, StillKeeps

LEMMA CharactersStep == EditorTypeOK /\ BuffersOK /\ [Next]_vars => Vertical \/ CloseTab \/ CharactersKept
<1>1. SUFFICES ASSUME EditorTypeOK, BuffersOK, [Next]_vars, ~Vertical, ~CloseTab PROVE CharactersKept
  OBVIOUS
<1>2. CASE OpenFile
  BY <1>1, <1>2, OpenFileIsWhole
<1>3. CASE CreateFile
  BY <1>1, <1>3, CreateFileIsWhole
<1>4. CASE SaveActive
  BY <1>1, <1>4, SaveActiveIsWhole
<1>5. CASE SwitchTab
  BY <1>5 DEF SwitchTab, CharactersKept, Ready
<1>7. CASE Click
  BY <1>1, <1>7, ClickIsWhole
<1>8. CASE RightClick
  BY <1>1, <1>8, RightClickIsWhole
<1>9. CASE Undo
  BY <1>1, <1>9, UndoIsWholeStep
<1>10. CASE Redo
  BY <1>1, <1>10, RedoIsWholeStep
<1>11. CASE SelectAll
  BY <1>1, <1>11, SelectAllIsWhole
<1>12. CASE Copy
  BY <1>12 DEF Copy, CharactersKept, Ready
<1>13. CASE MenuCut
  BY <1>1, <1>13, MenuCutIsWhole
<1>14. CASE Paste
  BY <1>1, <1>14, PasteIsWhole
<1>15. CASE DeleteKeys
  BY <1>1, <1>15, DeleteKeysIsWhole
<1>16. CASE Arrows
  BY <1>1, <1>16, ArrowsIsWhole
<1>17. CASE EnterOrTab
  BY <1>1, <1>17, EnterOrTabIsWhole
<1>18. CASE Type
  BY <1>1, <1>18, TypeIsWhole
<1>19. CASE UNCHANGED vars
  BY <1>19 DEF vars, CharactersKept, Ready
<1>. QED  BY <1>1, <1>2, <1>3, <1>4, <1>5, <1>7, <1>8, <1>9, <1>10, <1>11, <1>12, <1>13,
             <1>14, <1>15, <1>16, <1>17, <1>18, <1>19 DEF Next

\* Whatever is typed, deleted, pasted, undone or clicked, no character is cut and the caret
\* and the selection stay between characters, but for vertical moves and the anchor that a
\* selection of nothing leaves behind (CodeEditor.cpp:192, 298, 371).
THEOREM CharactersStay == Spec => CharactersStayWhole
<1> DEFINE Good == EditorTypeOK /\ BuffersOK
<1>1. Good /\ [Next]_vars =>
         [\A i \in DOMAIN buffers \cap DOMAIN buffers' :
             /\ ~Vertical /\ ~CloseTab
             /\ Whole(buffers[i]) /\ (buffers[i].anchor < 0 \/ HasSelection(buffers[i]))
             /\ HistoryWhole(buffers[i]) /\ WellFormed(clip)
             => Whole(buffers'[i])]_vars
  BY CharactersStep DEF CharactersKept, Ready, Loose
<1>2. Spec => []Good
  BY EditorInvariance
<1> HIDE DEF Good
<1>. QED  BY <1>1, <1>2, PTL DEF Spec, CharactersStayWhole

=============================================================================
