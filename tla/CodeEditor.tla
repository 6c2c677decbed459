----------------------------- MODULE CodeEditor -----------------------------
(***************************************************************************)
(* The script editor of the workspace (app/CodeEditor.cpp) and the buttons *)
(* over it (WorkspacePanel::drawCodeTab): open files, their carets and     *)
(* selections, the undo history, and what of it is on disk.                *)
(*                                                                         *)
(* A text is a sequence of bytes; offsets count from zero, as in the code, *)
(* so the byte after offset c is t[c + 1].  Bytes are told apart as the    *)
(* code tells them apart: "a" is part of a word, "s" a blank, "n" a line   *)
(* break, "L" and "C" the two bytes of a character outside ASCII.  One     *)
(* action is what one frame's keys or mouse do; drawing is left out.       *)
(* Operators whose name ends in Fault are seeded bugs.                     *)
(***************************************************************************)
EXTENDS Integers, Sequences, FiniteSets, SequencesExt

CONSTANTS
    Names,      \* relative paths of scripts
    Elsewhere,  \* those of them that are found in another directory than the current one
    AtStart,    \* the scripts that exist at the start, and what they hold
    Bursts,     \* what the keyboard delivers in one frame
    TabWidth, PageLines, UndoCap,
    MaxText,    \* bound: bytes in a buffer
    MaxEvents   \* bound: events

ASSUME EditorAssumption == TabWidth \in Nat \ {0} /\ UndoCap \in Nat \ {0} /\ Elsewhere \subseteq Names

VARIABLES
    buffers,  \* open files, in the order of their tabs
    active,   \* the tab shown, or 0
    disk,     \* what each path holds
    clip,     \* the clipboard
    events

vars == <<buffers, active, disk, clip, events>>

Bytes == {"a", "s", "n", "L", "C"}

ASSUME TextsAssumption ==
    /\ Bursts \subseteq Seq(Bytes) /\ \A n \in DOMAIN AtStart : AtStart[n] \in Seq(Bytes)
    /\ PageLines \in Nat

\* A path as it is written in a scene, or as it was found.
Paths == Names \X {"here", "elsewhere"}
Missing == <<"missing">>

-----------------------------------------------------------------------------
(* Offsets in a text. *)

Word == {"a"}
Space == {"s"}
Trail == {"C"}
Break == {"n", "s"}

\* The first offset from c on whose byte is not in the set, the last one down to c.
SkipOn(t, c, bytes) == Min({q \in c..Len(t) : q = Len(t) \/ t[q + 1] \notin bytes})
SkipBack(t, c, bytes) == Max({0} \cup {q \in 1..c : t[q] \notin bytes})

PrevUtf8BoundaryFault(t, c) == Max({0, c - 1})
PrevUtf8Boundary(t, c) == Max({0, SkipBack(t, c, Trail) - 1})
NextUtf8Boundary(t, c) == IF c >= Len(t) THEN Len(t) ELSE SkipOn(t, c + 1, Trail)

\* The bytes that form one run with b: words, or what is neither word nor blank.
Alike(b) == {x \in Bytes \ Break : (x \in Word) = (b \in Word)}

PrevWordBoundary(t, c) ==
    LET p == SkipBack(t, c, Space)
    IN  IF p = 0 THEN 0
        ELSE IF t[p] = "n" THEN (IF p = c THEN p - 1 ELSE p)
        ELSE SkipBack(t, p, Alike(t[p]))
NextWordBoundary(t, c) ==
    IF c >= Len(t) THEN Len(t)
    ELSE IF t[c + 1] = "n" THEN c + 1
    ELSE SkipOn(t, SkipOn(t, c, Alike(t[c + 1])), Space)

LineStarts(t) == {0} \cup {i \in DOMAIN t : t[i] = "n"}
LineStart(t, c) == Max({s \in LineStarts(t) : s <= c})
LineEnd(t, c) == SkipOn(t, LineStart(t, c), Bytes \ {"n"})
Line(t, c) == Cardinality({s \in LineStarts(t) : s <= c}) - 1
Col(t, c) == c - LineStart(t, c)
\* lineColToByte: the line and then the column are clamped, the column by bytes.
LineColToByte(t, line, col) ==
    LET wanted == Max({0, Min({line, Cardinality(LineStarts(t)) - 1})})
        start == CHOOSE s \in LineStarts(t) : Line(t, s) = wanted
    IN  Min({start + col, LineEnd(t, start)})

\* Where characters begin: what a click can hit.
Boundaries(t) == {c \in 0..Len(t) : c = Len(t) \/ t[c + 1] \notin Trail}

-----------------------------------------------------------------------------
(* One buffer. *)

\* The last five fields are history: the text as it was opened, after the last
\* edit, and before the present run of edits of one kind; edits the cap dropped; and
\* whether its file was written from another tab since, or its own last write fell short.
NoRun == [kind |-> "none", text |-> <<>>]
NewBuffer(path, text, dirty) ==
    [path |-> path, text |-> text, cursor |-> 0, anchor |-> -1, dirty |-> dirty,
     undo |-> <<>>, redo |-> <<>>, last |-> "none",
     opened |-> text, tip |-> text, run |-> NoRun, dropped |-> FALSE, behind |-> FALSE]

HasSelection(b) == b.anchor >= 0 /\ b.anchor # b.cursor
SelBegin(b) == IF HasSelection(b) THEN Min({b.anchor, b.cursor}) ELSE b.cursor
SelEnd(b) == IF HasSelection(b) THEN Max({b.anchor, b.cursor}) ELSE b.cursor
Selected(b) == SubSeq(b.text, SelBegin(b) + 1, Min({SelEnd(b), Len(b.text)}))

MoveCursorTo(b, to, extend) ==
    [b EXCEPT !.anchor = IF ~extend THEN -1 ELSE IF @ < 0 THEN b.cursor ELSE @,
              !.cursor = Max({0, Min({to, Len(b.text)})})]

Snapshot(b) == [text |-> b.text, cursor |-> b.cursor, anchor |-> b.anchor]

GoesOn(b, kind) == b.undo # <<>> /\ b.last = kind /\ kind \in {"insert", "delete"}
PushedFault(b) == [b EXCEPT !.undo = Append(@, Snapshot(b))]
Pushed(b) ==
    LET grown == Append(b.undo, Snapshot(b))
    IN  [b EXCEPT !.undo = IF Len(grown) > UndoCap THEN Tail(grown) ELSE grown,
                  !.dropped = @ \/ Len(grown) > UndoCap, !.redo = <<>>]
PushUndo(b, kind) ==
    IF GoesOn(b, kind) THEN [b EXCEPT !.redo = <<>>] ELSE [Pushed(b) EXCEPT !.last = kind]

Erased(b, from, to) ==
    [b EXCEPT !.text = SubSeq(@, 1, from) \o SubSeq(@, to + 1, Len(@)), !.cursor = from, !.dirty = TRUE]

DeleteSelection(b) ==
    IF HasSelection(b)
    THEN [Erased(PushUndo(b, "other"), SelBegin(b), SelEnd(b)) EXCEPT !.anchor = -1] ELSE b

\* A selection goes in an undo step of its own.  Only deleteSelection resets the anchor.
InsertText(b, s, kind) ==
    LET d == PushUndo(DeleteSelection(b), kind)
    IN  [d EXCEPT !.text = SubSeq(@, 1, d.cursor) \o s \o SubSeq(@, d.cursor + 1, Len(@)),
                  !.cursor = @ + Len(s), !.dirty = TRUE]

Restored(b, s) ==
    [b EXCEPT !.text = s.text, !.cursor = Min({s.cursor, Len(s.text)}), !.anchor = s.anchor,
              !.dirty = TRUE, !.last = "other"]
ApplyUndo(b) ==
    IF b.undo = <<>> THEN b
    ELSE Restored([b EXCEPT !.redo = Append(@, Snapshot(b)), !.undo = Front(@)], Last(b.undo))
ApplyRedo(b) ==
    IF b.redo = <<>> THEN b
    ELSE Restored([b EXCEPT !.undo = Append(@, Snapshot(b)), !.redo = Front(@)], Last(b.redo))

-----------------------------------------------------------------------------
(* History variables. *)

\* b was made of a by an edit of that kind; `before` is the text the edit began with.
Edit(a, b, kind, before) ==
    [b EXCEPT !.tip = b.text,
              !.run = IF kind # "other" /\ a.run.kind = kind THEN @ ELSE [kind |-> kind, text |-> before]]
Unrun(b) == [b EXCEPT !.run = NoRun]

-----------------------------------------------------------------------------
(* Files and tabs. *)

Init ==
    /\ buffers = <<>> /\ active = 0 /\ clip = <<>> /\ events = 0
    /\ disk = [p \in Paths |->
                IF p[1] \in DOMAIN AtStart /\ (p[2] = "elsewhere") = (p[1] \in Elsewhere) THEN AtStart[p[1]] ELSE Missing]

Event == events < MaxEvents /\ events' = events + 1

\* readFileWithFallback: the path itself first, then the other directories.
Found(p) ==
    IF disk[p] # Missing THEN {p} ELSE {q \in Paths : q[1] = p[1] /\ p[2] = "here" /\ disk[q] # Missing}

Tab(p) == {i \in DOMAIN buffers : buffers[i].path = p}
\* The tab is looked up under the path as given, and opened under the path as found.
Opened(p) ==
    IF Tab(p) # {} THEN buffers
    ELSE IF Found(p) = {} THEN Append(buffers, NewBuffer(p, <<>>, TRUE))
    ELSE LET q == CHOOSE q \in Found(p) : TRUE IN Append(buffers, NewBuffer(q, disk[q], FALSE))
Focus(p) == IF Tab(p) # {} THEN Min(Tab(p)) ELSE Len(buffers) + 1

OpenFile ==
    /\ Event
    /\ \E p \in Paths : p[2] = "here" /\ buffers' = Opened(p) /\ active' = Focus(p)
    /\ UNCHANGED <<disk, clip>>

\* Opening the stream empties the file, and what then becomes of the write is not checked:
\* it is whole, or falls short.
Written(text) == {text, <<>>}
Saved(b, t) == [b EXCEPT !.dirty = FALSE, !.behind = t # b.text]
Passed(b, path) == IF b.path = path THEN [b EXCEPT !.behind = TRUE] ELSE b
Save(tabs, i) ==
    \E t \in Written(tabs[i].text) :
       /\ disk' = [disk EXCEPT ![tabs[i].path] = t]
       /\ buffers' = [j \in DOMAIN tabs |-> IF j = i THEN Saved(tabs[j], t) ELSE Passed(tabs[j], tabs[i].path)]

\* The New popup opens the file and saves it; the stream may fail to open.
CreateFile ==
    /\ Event
    /\ \E p \in Paths :
          /\ p[2] = "here" /\ active' = Focus(p)
          /\ Save(Opened(p), Focus(p)) \/ (buffers' = Opened(p) /\ UNCHANGED disk)
    /\ UNCHANGED clip

SaveActive == Event /\ active # 0 /\ Save(buffers, active) /\ UNCHANGED <<active, clip>>

\* The tabs of one file share an id of ImGui: a frame shows them all, and hands them the
\* keys one after the other, a step each here.
SwitchTab ==
    /\ Event /\ \E i \in DOMAIN buffers \ {active} : active' = i
    /\ UNCHANGED <<buffers, disk, clip>>

\* Closing asks nothing.  The next frame makes the tab that is shown the active one.
CloseTab ==
    /\ Event
    /\ \E i \in DOMAIN buffers :
          /\ buffers' = RemoveAt(buffers, i)
          /\ IF i = active THEN active' \in {j \in 0..Len(buffers') : j = 0 <=> buffers' = <<>>}
             ELSE active' = IF active > i THEN active - 1 ELSE active
    /\ UNCHANGED <<disk, clip>>

-----------------------------------------------------------------------------
(* The mouse and the keyboard, on the tab that is shown. *)

Text == buffers[active].text
Becomes(b) == buffers' = [buffers EXCEPT ![active] = b] /\ Len(b.text) <= MaxText
Input(b) == Becomes(b) /\ UNCHANGED <<active, disk, clip>>
OnBuffer == Event /\ active # 0

\* A click, and what the mouse is dragged to before it is released, be it back again.
\* It does not end a run of edits.
Click ==
    /\ OnBuffer
    /\ \E at, to \in Boundaries(Text), shift, dragged \in BOOLEAN :
          LET b == MoveCursorTo(buffers[active], at, shift)
          IN  /\ to # at => dragged
              /\ Input(IF dragged THEN MoveCursorTo(b, to, TRUE) ELSE b)
RightClick ==
    /\ OnBuffer /\ ~HasSelection(buffers[active])
    /\ \E at \in Boundaries(Text) : Input(MoveCursorTo(buffers[active], at, FALSE))

Undo == OnBuffer /\ buffers[active].undo # <<>> /\ Input(Unrun(ApplyUndo(buffers[active])))
Redo == OnBuffer /\ buffers[active].redo # <<>> /\ Input(Unrun(ApplyRedo(buffers[active])))

AllSelected(b) == [b EXCEPT !.anchor = 0, !.cursor = Len(b.text)]
\* The key ends a run of edits, the menu's entry does not.
SelectAll ==
    /\ OnBuffer
    /\ \/ Input([Unrun(AllSelected(buffers[active])) EXCEPT !.last = "none"])
       \/ Input(AllSelected(buffers[active]))

Copy ==
    /\ OnBuffer /\ HasSelection(buffers[active])
    /\ clip' = Selected(buffers[active]) /\ UNCHANGED <<buffers, active, disk>>
\* Only the menu cuts, and it pushes one undo step more than deleteSelection does.
MenuCut ==
    /\ OnBuffer /\ HasSelection(buffers[active])
    /\ LET b == buffers[active] IN
          /\ clip' = Selected(b)
          /\ Becomes(Edit(b, DeleteSelection(PushUndo(b, "other")), "other", b.text))
    /\ UNCHANGED <<active, disk>>
Paste ==
    /\ OnBuffer /\ clip # <<>>
    /\ LET b == buffers[active] IN Input(Edit(b, InsertText(b, clip, "other"), "other", b.text))

\* An edit of its own, or one that goes on a run.
Deleted(b, from, to) == Edit(b, Erased(PushUndo(b, "delete"), from, to), "delete", b.text)
DeleteKeys ==
    /\ OnBuffer
    /\ LET b == buffers[active] IN
          \/ HasSelection(b) /\ Input(Edit(b, DeleteSelection(b), "other", b.text))
          \/ /\ ~HasSelection(b) /\ b.cursor > 0
             /\ \E from \in {PrevUtf8Boundary(b.text, b.cursor), PrevWordBoundary(b.text, b.cursor)} :
                   Input(Deleted(b, from, b.cursor))
          \/ /\ ~HasSelection(b) /\ b.cursor < Len(b.text)
             /\ \E to \in {NextUtf8Boundary(b.text, b.cursor), NextWordBoundary(b.text, b.cursor)} :
                   Input(Deleted(b, b.cursor, to))

\* A key that moves the caret ends a run of edits.
Moves(b) == [Unrun(b) EXCEPT !.last = "none"]
Arrows ==
    /\ OnBuffer
    /\ LET b == buffers[active] IN
       \E to \in {PrevUtf8Boundary(b.text, b.cursor), NextUtf8Boundary(b.text, b.cursor),
                  PrevWordBoundary(b.text, b.cursor), NextWordBoundary(b.text, b.cursor),
                  LineStart(b.text, b.cursor), LineEnd(b.text, b.cursor)}, shift \in BOOLEAN :
          Input(Moves(MoveCursorTo(b, to, shift)))

\* Up, Down, PageUp, PageDown keep the column in bytes; Up on the first line and
\* Down on the last one move nothing.
Vertical ==
    /\ OnBuffer
    /\ LET b == buffers[active]  line == Line(b.text, b.cursor) IN
       \E by \in {-1, 1, -PageLines, PageLines}, shift \in BOOLEAN :
          IF by \in {-1, 1} /\ line + by \notin 0..(Cardinality(LineStarts(b.text)) - 1) THEN Input(Moves(b))
          ELSE Input(Moves(MoveCursorTo(b, LineColToByte(b.text, line + by, Col(b.text, b.cursor)), shift)))

Blank(n) == [i \in 1..n |-> "s"]
\* Enter repeats the indentation of its line, Tab goes on to the next stop.
EnterOrTab ==
    /\ OnBuffer
    /\ LET b == buffers[active]  d == DeleteSelection(b)
           start == LineStart(d.text, d.cursor)
           indent == SubSeq(d.text, start + 1, SkipOn(d.text, start, Space))
       IN  \E s \in {<<"n">> \o indent, Blank(TabWidth - (Col(d.text, d.cursor) % TabWidth))} :
              Input(Edit(b, InsertText(d, s, "other"), "other", b.text))

Type ==
    /\ OnBuffer
    /\ \E s \in Bursts :
          LET b == buffers[active]
          IN  Input(Edit(IF HasSelection(b) THEN Unrun(b) ELSE b, InsertText(b, s, "insert"),
                         "insert", DeleteSelection(b).text))

Next ==
    \/ OpenFile \/ CreateFile \/ SaveActive \/ SwitchTab \/ CloseTab
    \/ Click \/ RightClick \/ Undo \/ Redo \/ SelectAll \/ Copy \/ MenuCut \/ Paste
    \/ DeleteKeys \/ Arrows \/ Vertical \/ EnterOrTab \/ Type

Spec == Init /\ [][Next]_vars

-----------------------------------------------------------------------------
All == {buffers[i] : i \in DOMAIN buffers}

\* Nothing that was ever written is lost to undo and redo: undoing all leads to the text
\* as it was opened, unless the cap dropped a step, and redoing all to the text after the
\* last edit; one undo takes back the present run of typing or of deleting, all of it and
\* nothing else (CodeEditor.cpp:336, "one undo step ... a whole word burst").  A selection
\* that is typed over is a step before the run, against the comment at CodeEditor.cpp:375
\* (ReplacingIsOneStep below).
UndoIsWhole(b) ==
    /\ b.dropped \/ b.opened = IF b.undo = <<>> THEN b.text ELSE Head(b.undo).text
    /\ b.tip = IF b.redo = <<>> THEN b.text ELSE Head(b.redo).text
    /\ b.run.kind \in {"insert", "delete"} =>
           b.undo # <<>> /\ Last(b.undo).text = b.run.text

\* The history is whole in every tab, and through all that is done a tab without the mark
\* of unsaved work holds what is on disk, but for the two mishaps the editor does not see:
\* the same file written from a second tab, which a file found in another directory gets
\* each time it is opened, and a write that fell short (CodeEditor.cpp:92, 155).
HistoryIsWhole == \A b \in All : UndoIsWhole(b) /\ (b.dirty \/ b.behind \/ disk[b.path] = b.text)

\* No character is cut; the keyboard delivers whole ones.
WellFormed(t) == \A i \in 0..Len(t) : (i > 0 /\ t[i] = "L") = (i < Len(t) /\ t[i + 1] = "C")
ASSUME BurstsAssumption == \A s \in Bursts : WellFormed(s)

\* Characters stay whole, and the caret and the selection between them, through every
\* input but two: vertical moves count bytes, and an anchor that a selection of nothing
\* leaves behind is not moved by edits (CodeEditor.cpp:192, 298, 371).  Closing a tab
\* changes no other one, only its number.
Whole(b) ==
    WellFormed(b.text) /\ b.cursor \in Boundaries(b.text)
    /\ (HasSelection(b) => b.anchor \in Boundaries(b.text))
HistoryWhole(b) == \A s \in Range(b.undo) \cup Range(b.redo) : Whole(s)
CharactersStayWhole ==
    [][\A i \in DOMAIN buffers \cap DOMAIN buffers' :
          /\ ~Vertical /\ ~CloseTab
          /\ Whole(buffers[i]) /\ (buffers[i].anchor < 0 \/ HasSelection(buffers[i]))
          /\ HistoryWhole(buffers[i]) /\ WellFormed(clip)
          => Whole(buffers'[i])]_vars

\* CodeEditor.hpp:55: openFile "creates the buffer if not already open".
FileIsOpenOnce == \A i, j \in DOMAIN buffers : buffers[i].path = buffers[j].path => i = j

\* CodeEditor.cpp:375: "replace-selection as an atomic ... edit so it stays a single undo step".
ReplacingIsOneStep ==
    [][Type /\ HasSelection(buffers[active])
       => Last(buffers'[active].undo).text = buffers[active].text]_vars
=============================================================================
