-------------------------------- MODULE Page --------------------------------
(***************************************************************************)
(* A game in the browser: the standalone build's frame (Application::tick, *)
(* advanceSim), its settings menu (GameMenu), the player's input, and the  *)
(* NetClient of a multiplayer game with what it makes of the frames the    *)
(* server sends (net/NetClient.cpp, in the detail Replication leaves out). *)
(*                                                                         *)
(* Keys and the mouse change between frames; a frame reads them as they    *)
(* are.  Time is counted in units of which a fixed step takes StepTime.    *)
(* The world is one line: a pose is a number, and a snapshot has a body    *)
(* where it was at some moment up to now, as it is a datagram that may be  *)
(* late, lost or doubled.  W is both up in the menu and the way forward.   *)
(* Drawing, sound and layout are left out; the mouse is at a row of the    *)
(* menu or at none of them (0).                                            *)
(* Operators whose name ends in Fault are seeded bugs.                     *)
(***************************************************************************)
EXTENDS Protocol, FiniteSets

CONSTANTS
    Flags,        \* the toggles of the menu, in order; "neon" and "fill" are among them
    OtherBuild,   \* settings in local storage when the page is first opened
    StepTime, MaxAccum,          \* FIXED_DT and the cap of simAccumulator
    FirstRepeat, NextRepeat,     \* the two delays of a held direction
    InterpDelay,  \* interpDelay_, in steps
    MaxSamples,   \* samples kept of a body
    SnapDistance, HardSnapDistance,  \* thresholds of applyLocalReconcile
    Pal, Ball, Crate,  \* another player, a spawned object, a body of the scene file
    Deltas,       \* bound: lengths of a frame
    Hands,        \* bound: what the player touches, by whether there is a server
    MaxInputs,    \* bound: changes of it
    MaxFrames,    \* bound: frames the server sends
    MaxTime       \* bound: steps of NetClient

Keys == {"Escape", "W", "S", "Space", "Tab"}
Rows == Flags \o <<"quality", "resume", "quit">>
Me == 1

ASSUME PageAssumption ==
    /\ {"neon", "fill"} \subseteq {Flags[i] : i \in DOMAIN Flags}
    /\ Flags \in Seq(STRING) /\ OtherBuild \in Nat
    /\ Len(Flags) <= 16   \* "bits 0..15  feature flags"
    /\ \A i, j \in DOMAIN Rows : Rows[i] = Rows[j] => i = j
    /\ {StepTime, MaxAccum, InterpDelay, MaxSamples, MaxFrames, MaxTime} \subseteq Nat
    /\ {FirstRepeat, NextRepeat} \subseteq Nat
    /\ {Pal, Ball, Crate} \subseteq Nat \ {Me}
    /\ SnapDistance \in Nat /\ HardSnapDistance \in Nat /\ SnapDistance < HardSnapDistance
    /\ StepTime > 0 /\ Deltas \subseteq Nat /\ MaxInputs \in [BOOLEAN -> Nat]
    /\ Hands \in [BOOLEAN -> SUBSET (Keys \union {"mouse", "lock", "reload"})]

VARIABLES
    online,   \* netClient_ exists
    held,     \* s_keyState
    mouse,    \* the pointer: its row and the left button
    locked,   \* the pointer is locked
    tab,      \* PlayerController::lastTabPressed
    menu,     \* GameMenu
    vfx,      \* editor::VFX, as far as the menu owns it
    stored,   \* local storage: 0 or the packed settings
    accum,    \* simAccumulator
    inbox,    \* frames delivered and not polled
    net,      \* NetClient and the player's body
    quit,     \* the window is closed
    inputs, sent,  \* changes of the input and frames of the server so far
    press,    \* history: what has become of the press of the select keys and the button
    last      \* history: what activated a row in the last frame

vars == <<online, held, mouse, locked, tab, menu, vfx, stored, accum, inbox, net, quit,
          inputs, sent, press, last>>

-----------------------------------------------------------------------------
(* Settings. *)

kSettingsVersion == 1
Quality == <<"Low", "Medium", "High">>
Defaults == [on |-> {"fill"}, quality |-> 3, boosted |-> FALSE]

VersionOf(packed) == (packed \div 2^24) % 256

\* The bits of the first n flags.
BitsOf(v) ==
    LET low[n \in 0..Len(Flags)] ==
            IF n = 0 THEN 0 ELSE low[n - 1] + (IF Flags[n] \in v.on THEN 2^(n - 1) ELSE 0)
    IN  low

PackSettings(v) ==
    kSettingsVersion * 2^24 + (v.quality - 1) * 2^16 + BitsOf(v)[Len(Flags)]

\* The intensity of neon is not stored: the flag brings back a visible one.
UnpackSettingsFault(packed, v) ==
    IF VersionOf(packed) # kSettingsVersion THEN v
    ELSE LET on == {Flags[i] : i \in {i \in DOMAIN Flags : (packed \div 2^(i - 1)) % 2 = 1}}
             q == (packed \div 2^16) % 256
         IN  [on |-> on, quality |-> IF q <= 1 THEN q + 1 ELSE 3, boosted |-> v.boosted]
UnpackSettings(packed, v) ==
    IF VersionOf(packed) # kSettingsVersion THEN v
    ELSE LET on == {Flags[i] : i \in {i \in DOMAIN Flags : (packed \div 2^(i - 1)) % 2 = 1}}
             q == (packed \div 2^16) % 256
         IN  [on |-> on, quality |-> IF q <= 1 THEN q + 1 ELSE 3,
              boosted |-> v.boosted \/ "neon" \in on]

LoadSettings == IF stored = 0 THEN Defaults ELSE UnpackSettings(stored, Defaults)

\* The settings as they look on the screen.
Look(v) == [on |-> v.on, quality |-> v.quality, glow |-> "neon" \in v.on /\ v.boosted]

-----------------------------------------------------------------------------
(* GameMenu::update, as a function of the part of the state it works on:    *)
(* the menu, the settings, the storage, the pointer's lock, whether quit is *)
(* requested and what has activated a row.                                  *)

NewMenu == [open |-> FALSE, selected |-> 1, up |-> FALSE, down |-> FALSE, select |-> FALSE,
            toggle |-> FALSE, button |-> FALSE, timer |-> 0, seen |-> 0, restore |-> TRUE]

SetOpenFault(m, open) == [m EXCEPT !.open = open, !.toggle = TRUE, !.timer = 0]
SetOpen(m, open) ==
    [m EXCEPT !.open = open, !.select = TRUE, !.toggle = TRUE, !.up = TRUE, !.down = TRUE,
              !.button = TRUE, !.timer = 0]

Flipped(v, flag) ==
    LET on == IF flag \in v.on THEN v.on \ {flag} ELSE v.on \union {flag}
    IN  [v EXCEPT !.on = on, !.boosted = @ \/ (flag = "neon" /\ flag \in on)]

Activate(s, row, by) ==
    LET v == CASE Rows[row] = "quality" -> [s.vfx EXCEPT !.quality = (@ % Len(Quality)) + 1]
               [] Rows[row] \in {"resume", "quit"} -> s.vfx
               [] OTHER -> Flipped(s.vfx, Rows[row])
    IN  [s EXCEPT !.vfx = v, !.stored = PackSettings(v), !.by = by,
                  !.menu = IF Rows[row] = "resume" THEN SetOpen(@, FALSE) ELSE @,
                  !.quit = @ \/ Rows[row] = "quit"]

\* Escape: the pointer is released on opening and put back on closing.
Toggle(s) ==
    LET m == SetOpen(s.menu, ~s.menu.open)
    IN  [s EXCEPT !.menu = IF m.open THEN [m EXCEPT !.restore = s.locked] ELSE m,
                  !.locked = IF m.open THEN FALSE ELSE m.restore]

\* A press moves by one row; a direction that is held moves again when the timer is up.
Move(s, dt) ==
    LET m == s.menu
        up == "W" \in held
        down == "S" \in held
        timer == IF up \/ down THEN m.timer - dt ELSE 0
        again == (up \/ down) /\ timer <= 0
        pressed == (up /\ ~m.up) \/ (down /\ ~m.down)
        stepUp == up /\ (~m.up \/ (again /\ ~pressed))
        stepDown == down /\ (~m.down \/ (again /\ ~pressed /\ ~up))
    IN  [s EXCEPT !.menu = [m EXCEPT
            !.up = up, !.down = down,
            !.timer = IF again THEN (IF m.up \/ m.down THEN NextRepeat ELSE FirstRepeat) ELSE timer,
            !.selected = IF stepUp THEN (IF @ = 1 THEN Len(Rows) ELSE @ - 1)
                         ELSE IF stepDown THEN (@ % Len(Rows)) + 1 ELSE @]]

\* The mouse takes over the selection when it has moved.
Hover(s) ==
    [s EXCEPT !.menu.seen = mouse.row,
              !.menu.selected = IF mouse.row # 0 /\ mouse.row # s.menu.seen THEN mouse.row ELSE @]

Clicks(s) == mouse.row # 0 /\ mouse.down /\ ~s.menu.button
Click(s) ==
    LET done == Activate([s EXCEPT !.menu.selected = mouse.row], mouse.row, "button")
    IN  [done EXCEPT !.menu.button = TRUE]

Select(s) ==
    LET select == "Space" \in held
        m == [s.menu EXCEPT
                !.button = mouse.down /\ (@ \/ mouse.row # 0), !.select = select]
        done == IF select /\ ~s.menu.select
                THEN Activate([s EXCEPT !.menu = m], m.selected, "key") ELSE [s EXCEPT !.menu = m]
    IN  IF done.menu.open THEN done ELSE [done EXCEPT !.locked = done.menu.restore]

MenuUpdate(dt) ==
    LET s == [menu |-> [menu EXCEPT !.toggle = "Escape" \in held], vfx |-> vfx,
              stored |-> stored, locked |-> locked, quit |-> FALSE, by |-> "nothing"]
        moved == Hover(Move(s, dt))
    IN  IF "Escape" \in held /\ ~menu.toggle THEN Toggle(s)
        ELSE IF ~menu.open THEN s
        ELSE IF Clicks(moved) THEN Click(moved) ELSE Select(moved)

\* The menu has had the frame's input, and the world stands still: it was open and has
\* not just been closed by Escape, or has just been opened.
Consumed(s) == s.menu.open \/ (menu.open /\ ~("Escape" \in held /\ ~menu.toggle))

-----------------------------------------------------------------------------
(* NetClient.  A body it follows: whether it has been placed, has a         *)
(* collider, the pose it is shown at (in 60ths), and its samples.           *)

Scale == 60
Rep(placed) == [placed |-> placed, collider |-> placed, shown |-> 0, buf |-> <<>>]

NewNet == [time |-> 0, hello |-> FALSE, joined |-> FALSE, me |-> 0, seq |-> 0, pos |-> 0,
           own |-> 0, reps |-> [n \in {Crate} |-> Rep(TRUE)], names |-> {}]

\* ensurePlayerAvatar and onSpawn: nothing is there to collide with before it is placed.
Ensured(c, n) ==
    IF n \in DOMAIN c.reps THEN c
    ELSE [c EXCEPT !.reps = [k \in DOMAIN c.reps \union {n} |-> IF k = n THEN Rep(FALSE) ELSE @[k]]]

RemoveRep(c, n) ==
    [c EXCEPT !.reps = [k \in DOMAIN c.reps \ {n} |-> @[k]], !.names = @ \ {n}]

\* applyLocalReconcile: trust the prediction, pull it closer by a quarter of the way
\* (rounded), or put it where the server has it.
Distance(a, b) == IF a < b THEN b - a ELSE a - b
ReconciledFault(pos, server) ==
    LET err == Distance(pos, server) IN
    IF err <= SnapDistance THEN pos
    ELSE (3 * pos + server) \div 4
Reconciled(pos, server) ==
    LET err == Distance(pos, server) IN
    IF err <= SnapDistance THEN pos
    ELSE IF err >= HardSnapDistance THEN server
    ELSE (3 * pos + server) \div 4

\* One entity of a snapshot.
SampledEntity(c, e) ==
    IF e.netId = c.me THEN [c EXCEPT !.pos = Reconciled(@, e.pos), !.own = e.pos]
    ELSE LET d == IF e.netId = Pal THEN Ensured(c, Pal) ELSE c IN
         IF e.netId \notin DOMAIN d.reps THEN d
         ELSE LET buf == Append(d.reps[e.netId].buf, [t |-> d.time, pos |-> e.pos])
              IN  [d EXCEPT !.reps[e.netId].buf =
                      IF Len(buf) > MaxSamples THEN Tail(buf) ELSE buf]

\* A snapshot, entity by entity.
Sampled(c, entities) ==
    LET after[i \in 0..Len(entities)] ==
            IF i = 0 THEN c ELSE SampledEntity(after[i - 1], entities[i])
    IN  after[Len(entities)]

\* Explosion: the blast is replayed on the player's own body.
Applied(c, frame) ==
    LET m == Decode(frame) IN
    CASE m.type = "ServerWelcome" -> [c EXCEPT !.joined = TRUE, !.me = m.playerNetId]
      [] m.type = "PlayerJoin" ->
            IF m.netId = c.me THEN c
            ELSE [Ensured(c, m.netId) EXCEPT !.names = @ \union {m.netId}]
      [] m.type = "SpawnEntity" -> Ensured(c, m.netId)
      [] m.type \in {"PlayerLeave", "DespawnEntity"} -> RemoveRep(c, m.netId)
      [] m.type = "Explosion" /\ c.joined -> [c EXCEPT !.pos = @ + m.speed]
      [] m.type = "Snapshot" /\ c.joined -> Sampled(c, m.entities)
      [] OTHER -> c

\* processIncoming: all that has arrived, in order.
Heard(c, frames) ==
    LET after[i \in 0..Len(frames)] == IF i = 0 THEN c ELSE Applied(after[i - 1], frames[i])
    IN  after[Len(frames)]

\* updateReplicated: the samples that are over go, and the body is shown between the
\* first two that are left, InterpDelay behind the clock.
Trimmed(buf, target) ==
    LET first == CHOOSE k \in DOMAIN buf :
                    /\ \A j \in 2..k : buf[j].t <= target
                    /\ k < Len(buf) => buf[k + 1].t > target
    IN  SubSeq(buf, first, Len(buf))

PoseAt(buf, target) ==
    IF target <= buf[1].t \/ Len(buf) = 1 THEN Scale * buf[1].pos
    ELSE LET span == buf[2].t - buf[1].t
         IN  Scale * buf[1].pos
                + (Scale * (buf[2].pos - buf[1].pos) * (target - buf[1].t)) \div span

Followed(rep, target) ==
    LET buf == Trimmed(rep.buf, target) IN
    IF rep.buf = <<>> THEN rep
    ELSE [rep EXCEPT !.buf = buf, !.shown = PoseAt(buf, target),
                     !.placed = TRUE, !.collider = TRUE]

\* One fixed step: the player's script moves the body by the keys, then
\* NetClient::update says hello, takes all that has arrived, sends the input and moves
\* the bodies.  Without a server where the player is matters to nothing here.
Stepped(c, frames) ==
    LET walked == [c EXCEPT !.pos = IF "W" \in held THEN @ + 1 ELSE @]
        heard == Heard([walked EXCEPT !.time = @ + 1, !.hello = TRUE], frames)
        told == IF heard.joined THEN [heard EXCEPT !.seq = @ + 1] ELSE heard
    IN  IF ~online THEN c
        ELSE [told EXCEPT !.reps = [n \in DOMAIN @ |-> Followed(@[n], told.time - InterpDelay)]]

\* advanceSim: the steps the accumulated time is good for; the first of them polls.
StepsFor(dt) ==
    LET total == accum + dt IN (IF total > MaxAccum THEN MaxAccum ELSE total) \div StepTime
LeftOver(dt) ==
    LET total == accum + dt IN (IF total > MaxAccum THEN MaxAccum ELSE total) % StepTime
Advanced(n) ==
    LET after[i \in 0..n] ==
            IF i = 0 THEN net ELSE Stepped(after[i - 1], IF i = 1 THEN inbox ELSE <<>>)
    IN  after[n]

-----------------------------------------------------------------------------
(* The page. *)

Init ==
    /\ online \in BOOLEAN
    /\ held = {} /\ mouse = [row |-> 0, down |-> FALSE]
    /\ locked = TRUE /\ tab = FALSE
    /\ menu = NewMenu
    /\ stored \in {0, OtherBuild}
    /\ vfx = LoadSettings
    /\ accum = 0 /\ inbox = <<>> /\ net = NewNet /\ quit = FALSE
    /\ inputs = 0 /\ sent = 0
    /\ press = [key |-> "up", button |-> "up"] /\ last = "nothing"

May(hand) ==
    hand \in Hands[online] /\ inputs < MaxInputs[online] /\ inputs' = inputs + 1

Input(hand) ==
    /\ May(hand) /\ ~quit
    /\ UNCHANGED <<online, locked, tab, menu, vfx, stored, accum, inbox, net, quit, sent,
                   press, last>>

\* em_game_keydown and em_game_keyup.
KeyDown(k) == k \notin held /\ held' = held \union {k} /\ UNCHANGED mouse /\ Input(k)
KeyUp(k) == k \in held /\ held' = held \ {k} /\ UNCHANGED mouse /\ Input(k)

PointerMoves(row) ==
    /\ ~locked /\ row # mouse.row
    /\ mouse' = [mouse EXCEPT !.row = row]
    /\ UNCHANGED held /\ Input("mouse")
Button == mouse' = [mouse EXCEPT !.down = ~@] /\ UNCHANGED held /\ Input("mouse")

\* The browser takes the lock away without asking the page.
LockLost ==
    /\ locked /\ locked' = FALSE
    /\ May("lock") /\ ~quit
    /\ UNCHANGED <<online, held, mouse, tab, menu, vfx, stored, accum, inbox, net, quit, sent,
                   press, last>>

\* What a press has come to: it is the menu's if it began while the menu was open.
Began(state, down) ==
    CASE ~down -> "up"
      [] down /\ state = "up" -> IF menu.open THEN "menu" ELSE "other"
      [] OTHER -> state

\* playerInputSystem, where there is a player: Tab toggles the lock.
TabPressed == "Tab" \in held /\ ~tab

Frame(dt) ==
    LET s == MenuUpdate(dt)
        active == Consumed(s)
        now == [key |-> Began(press.key, "Space" \in held),
                button |-> Began(press.button, mouse.down)]
    IN
    /\ ~quit
    /\ menu' = s.menu /\ vfx' = s.vfx /\ stored' = s.stored /\ quit' = s.quit
    /\ last' = IF s.by = "nothing" THEN "nothing"
               ELSE IF now[s.by] = "menu" THEN "deliberate" ELSE "stray"
    /\ press' = IF s.by = "nothing" THEN now ELSE [now EXCEPT ![s.by] = "spent"]
    /\ IF active \/ s.quit
       THEN locked' = s.locked /\ UNCHANGED <<tab, accum, inbox, net>>
       ELSE /\ net.time + StepsFor(dt) <= MaxTime
            /\ accum' = LeftOver(dt)
            /\ net' = Advanced(StepsFor(dt))
            /\ inbox' = IF online /\ StepsFor(dt) > 0 THEN <<>> ELSE inbox
            /\ tab' = ("Tab" \in held)
            /\ locked' = IF TabPressed THEN ~s.locked ELSE s.locked
    /\ UNCHANGED <<online, held, mouse, inputs, sent>>

\* The server's frames, as cow_net_deliver queues them.  The welcome and what happens in
\* the room come in order; a snapshot is of any moment so far, an earlier one after a
\* later one as well, and may come before the welcome.
Entity(n, pos) == [netId |-> n, pos |-> pos, rot |-> "rot", vel |-> pos + 1]
Lifecycle(type, n) == [type |-> type, netId |-> n]
SnapshotOf(others, pos, at) ==
    [type |-> "Snapshot", serverTick |-> at, ackSeq |-> 0,
     entities |-> <<Entity(Me, pos)>> \o [i \in DOMAIN others |-> Entity(others[i], at)]]
Welcome == [type |-> "ServerWelcome", playerNetId |-> Me, sceneId |-> 0, tickRate |-> 60]

Snapshots ==
    {SnapshotOf(<<Crate, Pal, Ball>>, pos, at) :
        pos \in {SnapDistance + 1, 2 * HardSnapDistance}, at \in 0..sent}
News ==
    {Lifecycle("PlayerLeave", Pal), Lifecycle("DespawnEntity", Ball),
     [type |-> "PlayerJoin", netId |-> Pal, name |-> "pal"],
     [type |-> "SpawnEntity", netId |-> Ball, kind |-> 0, scale |-> 1, color |-> 0],
     [type |-> "Explosion", pos |-> 0, radius |-> 6, speed |-> HardSnapDistance,
      upBias |-> 0, spin |-> 8]}

Waits(type, i) == i \in DOMAIN inbox /\ Decode(inbox[i]).type = type
Hears(type) == \E i \in DOMAIN inbox : Waits(type, i)

Deliver ==
    /\ online /\ net.hello /\ ~quit /\ sent < MaxFrames
    /\ \E m \in Snapshots \union
                (IF net.joined \/ Hears("ServerWelcome") THEN News ELSE {Welcome}) :
          inbox' = Append(inbox, Encode(m))
    /\ sent' = sent + 1
    /\ UNCHANGED <<online, held, mouse, locked, tab, menu, vfx, stored, accum, net, quit, inputs,
                   press, last>>

\* The page is loaded again: only what is in local storage is left.
Reload ==
    /\ May("reload")
    /\ vfx' = LoadSettings
    /\ held' = {} /\ mouse' = [row |-> 0, down |-> FALSE]
    /\ locked' = TRUE /\ tab' = FALSE /\ menu' = NewMenu
    /\ accum' = 0 /\ inbox' = <<>> /\ net' = NewNet /\ quit' = FALSE /\ sent' = 0
    /\ press' = [key |-> "up", button |-> "up"] /\ last' = "nothing"
    /\ UNCHANGED <<online, stored>>

Next ==
    \/ \E k \in Keys : KeyDown(k) \/ KeyUp(k)
    \/ \E row \in 0..Len(Rows) : PointerMoves(row)
    \/ Button \/ LockLost \/ Reload \/ Deliver
    \/ \E dt \in Deltas : Frame(dt)

Spec == Init /\ [][Next]_vars

-----------------------------------------------------------------------------
(* Properties. *)

\* A press acts on at most one row of the menu, and only if it began while the menu was
\* open: what the player was holding when it opened, and what opened or closed it, flips
\* no setting and ends no game (GameMenu.cpp:190, "Reset edge state so the keypress that
\* opened the menu isn't also read as the first selection, and vice versa on the way out").
PressesAreMeant == last # "stray"

\* What the player chose is what a fresh page would show, at every moment, although the
\* strength of neon is not among what is stored (packSettings, unpackSettings, activate).
SettingsSurvive ==
    VersionOf(stored) = kSettingsVersion => Look(UnpackSettings(stored, Defaults)) = Look(vfx)

\* The client follows the server.  A body that has only gone forward, in what the client
\* holds of it and in what has come since, is never shown further back than it was,
\* however late its frames are taken in bulk after a pause in the menu: it is shown
\* further back only because a snapshot overtook another or the body itself turned.  And
\* a frame that hears of its own player and of no blast leaves it within the hard
\* threshold of where the server last had it, plus the steps it walks meanwhile
\* (processIncoming, updateReplicated, applyLocalReconcile).
Told(frame, n) ==
    LET m == Decode(frame)
    IN  {m.entities[k].pos :
            k \in {k \in (IF m.type = "Snapshot" THEN DOMAIN m.entities ELSE {}) :
                     m.entities[k].netId = n}}
Onward(n) ==
    LET rep == net.reps[n]
    IN  /\ \A i, j \in DOMAIN rep.buf : i <= j => rep.buf[i].pos <= rep.buf[j].pos
        /\ \A i \in DOMAIN inbox : \A p \in Told(inbox[i], n) :
              /\ rep.shown <= Scale * p
              /\ \A j \in DOMAIN rep.buf : rep.buf[j].pos <= p
              /\ \A j \in DOMAIN inbox : \A q \in Told(inbox[j], n) : i <= j => p <= q
NeverShownBack ==
    \A n \in DOMAIN net.reps \intersect DOMAIN net'.reps :
        net.reps[n].placed /\ net'.reps[n].placed
            /\ net'.reps[n].shown < net.reps[n].shown => ~Onward(n)
HearsOfItself ==
    \E i \in DOMAIN inbox :
        Waits("Snapshot", i) /\ (net.joined \/ \E j \in 1..i : Waits("ServerWelcome", j))
StaysNear ==
    inbox' = <<>> /\ HearsOfItself /\ ~Hears("Explosion") =>
        Distance(net'.pos, net'.own) < HardSnapDistance + net'.time - net.time
ServerIsFollowed == [][sent' # 0 => NeverShownBack /\ StaysNear]_vars

\* See Understood: every frame that arrives here.
FramesAreUnderstood == inbox # <<>> => Understood(Last(inbox))
=============================================================================
