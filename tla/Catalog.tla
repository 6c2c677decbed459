------------------------------ MODULE Catalog ------------------------------
(***************************************************************************)
(* The control API's catalog (control/src/api.rs, db.rs, bundle.rs): games *)
(* and their versions in SQLite, bundles in directories named by the hash  *)
(* of their content, and the requests that publish, republish, change,     *)
(* delete, join and download.                                              *)
(*                                                                         *)
(* Every request is a task.  The connection to the database is behind one  *)
(* lock, which a handler holds for a whole block of statements; the file   *)
(* operations of store() are outside of it, and those of two requests      *)
(* interleave one by one, also when both write the same bundle and so the  *)
(* same staging directory.  The server may be killed between any two       *)
(* steps; what is on disk and what SQLite has committed survive it.        *)
(*                                                                         *)
(* A bundle is the set of its paths and the set of paths its scene names;  *)
(* equal bundles have equal hashes, so a bundle stands for its sha.        *)
(* Titles, descriptions, sizes, times and play counts are left out.  An id *)
(* is random, so no id is given twice.                                     *)
(* Operators whose name ends in Fault are seeded bugs, as in GameServer.   *)
(***************************************************************************)
EXTENDS Integers, FiniteSets, Sequences

CONSTANTS
    Requests,      \* requests that may be under way at one time
    GameIds,       \* ids make_id may return
    Uploads,       \* bundles that browsers send
    MaxFiles,      \* Limits::max_files
    MaxRooms,      \* RoomConfig::max_rooms
    MaxVersions,   \* bound: versions of one game
    MaxMishaps     \* bound: restarts of the server and failing operations

Paths == [dir: {"models", "scenes", "scripts", "other"},
          name: STRING, ext: {"obj", "json", "cow", "txt"}, nested: BOOLEAN]
ENTRY_SCENE == [dir |-> "scenes", name |-> "scene", ext |-> "json", nested |-> FALSE]

ASSUME UploadsAssumption ==
    \A u \in Uploads : u.files \subseteq Paths /\ u.refs \subseteq Paths

ASSUME BoundsAssumption ==
    /\ MaxFiles \in Nat /\ MaxRooms \in Nat /\ MaxVersions \in Nat
    /\ MaxMishaps \in Nat

Free == "free"
NoRow == -1
NoGame == "no game"
ASSUME NamesAssumption == Free \notin Requests /\ NoGame \notin GameIds

VARIABLES
    current,    \* games: the version of each row, 0 for NULL, or NoRow
    public,     \* games: those whose visibility is public
    versions,   \* game_versions: the bundle of each version, in order
    dbHolder,   \* the request that holds the lock of the connection
    stored,     \* the paths in a bundle's directory; {} if there is none
    staging,    \* the same for its .staging directory
    raced,      \* history: bundles whose staging directory was cleared under a writer
    job,        \* what each request is about and where its handler stands
    rooms,      \* rooms running: game, version, bundle
    issued,     \* ids given out so far
    mishaps     \* restarts and failed operations so far

tables == <<current, public, versions>>
disk == <<stored, staging, raced>>
vars == <<tables, dbHolder, disk, job, rooms, issued, mishaps>>

\* What bundle::validate asks of an upload.
CheckPath(p) ==
    <<p.dir, p.ext>> \in {<<"scenes", "json">>, <<"scripts", "cow">>, <<"models", "obj">>}

ValidateFault(u) ==
    /\ Cardinality(u.files) <= MaxFiles
    /\ \A p \in u.files : CheckPath(p)
    /\ ENTRY_SCENE \in u.files
Validate(u) ==
    /\ Cardinality(u.files) <= MaxFiles
    /\ \A p \in u.files : CheckPath(p)
    /\ ENTRY_SCENE \in u.files
    /\ u.refs \subseteq u.files

Valid == {u \in Uploads : Validate(u)}

Stages == {"idle", "look", "clear", "write", "rename", "recheck", "rows", "version",
           "patch", "delete", "disk", "room", "count", "load"}

\* The stages in which a handler is inside bundle::store.
Storing == {"look", "clear", "write", "rename", "recheck"}

NoUpload == [files |-> {}, refs |-> {}]
Idle == [at |-> "idle", new |-> FALSE, game |-> NoGame, upload |-> NoUpload,
         left |-> {}, version |-> 0]

Jobs == [at: Stages, new: BOOLEAN, game: GameIds \union {NoGame},
         upload: Valid \union {NoUpload}, left: SUBSET UNION {u.files : u \in Uploads},
         version: Nat]

Init ==
    /\ current = [g \in GameIds |-> NoRow]
    /\ public = {}
    /\ versions = [g \in GameIds |-> <<>>]
    /\ dbHolder = Free
    /\ stored = [u \in Uploads |-> {}]
    /\ staging = [u \in Uploads |-> {}]
    /\ raced = {}
    /\ job = [r \in Requests |-> Idle]
    /\ rooms = {}
    /\ issued = {}
    /\ mishaps = 0

Exists(g) == current[g] # NoRow
LooksComplete(u) == ENTRY_SCENE \in stored[u]
At(r, stage) == job[r].at = stage
Go(r, stage) == job' = [job EXCEPT ![r].at = stage]
Ends(r) == job' = [job EXCEPT ![r] = Idle]

-----------------------------------------------------------------------------
(* publish and republish. *)

\* Fault: the upload is stored without bundle::validate.
PublishArrivesFault(r, u) ==
    /\ At(r, "idle")
    /\ job' = [job EXCEPT ![r] = [Idle EXCEPT !.at = "look", !.new = TRUE, !.upload = u]]
    /\ UNCHANGED <<tables, dbHolder, disk, rooms, issued, mishaps>>

\* publish(): a key that is refused and an upload that is not valid change nothing.
PublishArrives(r, u) ==
    /\ At(r, "idle") /\ u \in Valid
    /\ job' = [job EXCEPT ![r] = [Idle EXCEPT !.at = "look", !.new = TRUE, !.upload = u]]
    /\ UNCHANGED <<tables, dbHolder, disk, rooms, issued, mishaps>>

\* republish(): require_edit_key reads the row of the game under a lock of its own.
RepublishArrives(r, g, u) ==
    /\ At(r, "idle") /\ dbHolder = Free
    /\ Exists(g) /\ u \in Valid
    /\ job' = [job EXCEPT ![r] = [Idle EXCEPT !.at = "look", !.game = g, !.upload = u]]
    /\ UNCHANGED <<tables, dbHolder, disk, rooms, issued, mishaps>>

StoreLooks(r) ==
    /\ At(r, "look")
    /\ Go(r, IF LooksComplete(job[r].upload) THEN "rows" ELSE "clear")
    /\ UNCHANGED <<tables, dbHolder, disk, rooms, issued, mishaps>>

\* Another request is writing the same bundle, or about to move it into place.
Rivals(r) == {q \in Requests : job[q].at \in {"write", "rename"} /\ job[q].upload = job[r].upload}

\* remove_dir_all of the staging directory, whose name is that of the bundle alone.
StoreClears(r) ==
    /\ At(r, "clear")
    /\ staging' = [staging EXCEPT ![job[r].upload] = {}]
    /\ raced' = IF Rivals(r) = {} THEN raced ELSE raced \union {job[r].upload}
    /\ job' = [job EXCEPT ![r].at = "write", ![r].left = job[r].upload.files]
    /\ UNCHANGED <<tables, dbHolder, stored, rooms, issued, mishaps>>

\* The map of files is ordered by path: models, then scenes, then scripts.
Rank == [models |-> 1, scenes |-> 2, scripts |-> 3]
FirstOf(paths) == {p \in paths : \A q \in paths : Rank[p.dir] <= Rank[q.dir]}

\* Fault: files are written where they are looked for, without a staging directory.
WrittenFault(u, p) ==
    /\ stored' = [stored EXCEPT ![u] = @ \union {p}]
    /\ staging' = [staging EXCEPT ![u] = @ \union {p}]
Written(u, p) ==
    /\ staging' = [staging EXCEPT ![u] = @ \union {p}]
    /\ UNCHANGED stored

StoreWrites(r) ==
    /\ At(r, "write")
    /\ \E p \in FirstOf(job[r].left) :
        /\ Written(job[r].upload, p)
        /\ job' = [job EXCEPT
               ![r].left = @ \ {p},
               ![r].at = IF job[r].left = {p} THEN "rename" ELSE "write"]
    /\ UNCHANGED <<tables, dbHolder, raced, rooms, issued, mishaps>>

\* An error of the file system: the staging directory is left as it is.
StoreFails(r) ==
    /\ At(r, "write") /\ mishaps < MaxMishaps
    /\ Ends(r) /\ mishaps' = mishaps + 1
    /\ UNCHANGED <<tables, dbHolder, disk, rooms, issued>>

\* rename() puts the staging directory where there is none.
StoreRenames(r) ==
    LET u == job[r].upload IN
    /\ At(r, "rename")
    /\ staging[u] # {} /\ stored[u] = {}
    /\ stored' = [stored EXCEPT ![u] = staging[u]]
    /\ staging' = [staging EXCEPT ![u] = {}]
    /\ Go(r, "rows")
    /\ UNCHANGED <<tables, dbHolder, raced, rooms, issued, mishaps>>

\* rename() fails: another request has moved the staging directory, or the bundle's
\* directory is there and not empty.
RenameLost(r) ==
    LET u == job[r].upload IN
    /\ At(r, "rename")
    /\ staging[u] = {} \/ stored[u] # {}
    /\ staging' = [staging EXCEPT ![u] = {}]
    /\ Go(r, "recheck")
    /\ UNCHANGED <<tables, dbHolder, stored, raced, rooms, issued, mishaps>>

StoreRechecks(r) ==
    /\ At(r, "recheck")
    /\ IF LooksComplete(job[r].upload) THEN Go(r, "rows") ELSE Ends(r)
    /\ UNCHANGED <<tables, dbHolder, disk, rooms, issued, mishaps>>

\* make_id: a slug of the title and a random suffix.
FreshIds == GameIds \ issued

\* db::insert_game commits by itself; publish() keeps the lock for add_version.
InsertGame(r) ==
    /\ At(r, "rows") /\ job[r].new /\ dbHolder = Free
    /\ \E g \in FreshIds, listed \in BOOLEAN :
        /\ issued' = issued \union {g}
        /\ current' = [current EXCEPT ![g] = 0]
        /\ public' = IF listed THEN public \union {g} ELSE public
        /\ job' = [job EXCEPT ![r].game = g, ![r].at = "version"]
    /\ dbHolder' = r
    /\ UNCHANGED <<versions, disk, rooms, mishaps>>

\* SELECT COALESCE(MAX(version), 0) + 1.
NextVersionFault(g) == IF Len(versions[g]) = 1 THEN 1 ELSE Len(versions[g]) + 1
NextVersion(g) == Len(versions[g]) + 1

\* db::add_version: one transaction, which the foreign key refuses without the game.
MayAddFault(g) == TRUE
MayAdd(g) == Exists(g)

Recorded(g, u) ==
    /\ versions' = [versions EXCEPT ![g] =
           [v \in DOMAIN @ \union {NextVersion(g)} |-> IF v = NextVersion(g) THEN u ELSE @[v]]]
    /\ current' = [current EXCEPT ![g] = IF @ = NoRow THEN NoRow ELSE NextVersion(g)]

AddVersion(r) ==
    LET g == job[r].game IN
    /\ \/ At(r, "version")
       \/ At(r, "rows") /\ ~job[r].new /\ dbHolder = Free
    /\ IF MayAdd(g)
       THEN Len(versions[g]) < MaxVersions /\ Recorded(g, job[r].upload)
       ELSE UNCHANGED <<current, versions>>
    /\ dbHolder' = IF dbHolder = r THEN Free ELSE dbHolder
    /\ Ends(r)
    /\ UNCHANGED <<public, disk, rooms, issued, mishaps>>

\* add_version fails and is rolled back: the row of the game stays without a version.
AddVersionFails(r) ==
    /\ At(r, "version") /\ mishaps < MaxMishaps
    /\ dbHolder' = Free /\ mishaps' = mishaps + 1
    /\ Ends(r)
    /\ UNCHANGED <<tables, disk, rooms, issued>>

-----------------------------------------------------------------------------
(* patch_game and delete_game: the key is checked and the row is changed    *)
(* under two locks.                                                         *)

ChangeArrives(r, g, change) ==
    /\ At(r, "idle") /\ dbHolder = Free /\ Exists(g)
    /\ job' = [job EXCEPT ![r] = [Idle EXCEPT !.at = change, !.game = g]]
    /\ UNCHANGED <<tables, dbHolder, disk, rooms, issued, mishaps>>

\* UPDATE games ... WHERE id: no row, no effect.
PatchGame(r) ==
    LET g == job[r].game IN
    /\ At(r, "patch") /\ dbHolder = Free
    /\ \E listed \in BOOLEAN :
           public' = IF listed /\ Exists(g) THEN public \union {g} ELSE public \ {g}
    /\ Ends(r)
    /\ UNCHANGED <<current, versions, dbHolder, disk, rooms, issued, mishaps>>

\* Versions go with their game (ON DELETE CASCADE); bundles stay on disk.
CascadeFault(g) == UNCHANGED versions
Cascade(g) == versions' = [versions EXCEPT ![g] = <<>>]

DeleteGame(r) ==
    LET g == job[r].game IN
    /\ At(r, "delete") /\ dbHolder = Free
    /\ current' = [current EXCEPT ![g] = NoRow]
    /\ public' = public \ {g}
    /\ Cascade(g)
    /\ Ends(r)
    /\ UNCHANGED <<dbHolder, disk, rooms, issued, mishaps>>

-----------------------------------------------------------------------------
(* list_games, get_bundle and join_game. *)

Listed == {g \in public : Exists(g) /\ current[g] # 0}

\* The version a request serves: that of the row, read with its bundle.
Served(g) == current[g]

\* current_sha and the first block of join_game; stage is what the handler does next.
ReadCurrent(r, g, stage) ==
    /\ At(r, "idle") /\ dbHolder = Free
    /\ Exists(g) /\ current[g] # 0
    /\ job' = [job EXCEPT ![r] = [Idle EXCEPT
           !.at = stage, !.game = g, !.version = Served(g),
           !.upload = versions[g][Served(g)]]]
    /\ UNCHANGED <<tables, dbHolder, disk, rooms, issued, mishaps>>

\* join_game: the scene must be on disk.
JoinChecks(r) ==
    /\ At(r, "disk")
    /\ IF LooksComplete(job[r].upload) THEN Go(r, "room") ELSE Ends(r)
    /\ UNCHANGED <<tables, dbHolder, disk, rooms, issued, mishaps>>

\* rooms.join(): the room of this game and version, an old one or a new one.
JoinEnters(r) ==
    /\ At(r, "room")
    /\ rooms' = rooms \union
           {[game |-> job[r].game, version |-> job[r].version, upload |-> job[r].upload]}
    /\ rooms' = rooms \/ Cardinality(rooms) < MaxRooms
    /\ Go(r, "count")
    /\ UNCHANGED <<tables, dbHolder, disk, issued, mishaps>>

\* The server is at capacity, or the room does not start.
JoinRefused(r) ==
    /\ At(r, "room")
    /\ Ends(r)
    /\ UNCHANGED <<tables, dbHolder, disk, rooms, issued, mishaps>>

\* bump_play_count, also for a game that is gone by now: it changes no row then.
JoinCounts(r) ==
    /\ At(r, "count") /\ dbHolder = Free
    /\ Ends(r)
    /\ UNCHANGED <<tables, dbHolder, disk, rooms, issued, mishaps>>

\* bundle::load reads the files directly under scripts/ and models/.
Download(u) == IF LooksComplete(u) THEN {p \in stored[u] : ~p.nested} ELSE {}

GetBundle(r) ==
    /\ At(r, "load")
    /\ Ends(r)
    /\ UNCHANGED <<tables, dbHolder, disk, rooms, issued, mishaps>>

RoomEnds ==
    /\ \E room \in rooms : rooms' = rooms \ {room}
    /\ UNCHANGED <<tables, dbHolder, disk, job, issued, mishaps>>

\* The browser hangs up: a handler that awaits the lock or a room is dropped there.
HungUp(r) ==
    /\ job[r].at \in {"rows", "patch", "delete", "room", "count"}
    /\ mishaps < MaxMishaps /\ mishaps' = mishaps + 1
    /\ Ends(r)
    /\ UNCHANGED <<tables, dbHolder, disk, rooms, issued>>

\* The server is killed and started again: rooms and requests are gone.
Crash ==
    /\ mishaps < MaxMishaps
    /\ mishaps' = mishaps + 1
    /\ dbHolder' = Free /\ rooms' = {}
    /\ job' = [r \in Requests |-> Idle]
    /\ UNCHANGED <<tables, disk, issued>>

-----------------------------------------------------------------------------
Store(r) ==
    \/ StoreLooks(r) \/ StoreClears(r) \/ StoreWrites(r) \/ StoreFails(r)
    \/ StoreRenames(r) \/ RenameLost(r) \/ StoreRechecks(r)

Arrive(r) ==
    \/ \E u \in Uploads : PublishArrives(r, u)
    \/ \E g \in GameIds : \/ \E u \in Uploads : RepublishArrives(r, g, u)
                          \/ ChangeArrives(r, g, "patch")
                          \/ ChangeArrives(r, g, "delete")
                          \/ ReadCurrent(r, g, "disk")
                          \/ ReadCurrent(r, g, "load")

Rows(r) == InsertGame(r) \/ AddVersion(r) \/ AddVersionFails(r) \/ PatchGame(r) \/ DeleteGame(r)

Serve(r) == JoinChecks(r) \/ JoinEnters(r) \/ JoinRefused(r) \/ JoinCounts(r) \/ GetBundle(r)

Next ==
    \/ \E r \in Requests : Arrive(r) \/ Store(r) \/ Rows(r) \/ Serve(r) \/ HungUp(r)
    \/ RoomEnds \/ Crash

Spec == Init /\ [][Next]_vars

-----------------------------------------------------------------------------
(* Properties. *)

\* Types of the variables.
CatalogTypeOK ==
    /\ current \in [GameIds -> Nat \union {NoRow}]
    /\ public \subseteq GameIds
    /\ versions \in [GameIds -> Seq(Valid)]
    /\ dbHolder \in Requests \union {Free}
    /\ stored \in [Uploads -> SUBSET UNION {u.files : u \in Uploads}]
    /\ staging \in [Uploads -> SUBSET UNION {u.files : u \in Uploads}]
    /\ job \in [Requests -> Jobs]
    /\ raced \subseteq Uploads
    /\ rooms \subseteq [game: GameIds, version: Nat, upload: Valid]
    /\ issued \subseteq GameIds
    /\ mishaps \in Nat

\* bundle::store's promise, through crashes, failing writes and retries: a bundle's
\* directory holds every file of the bundle or does not exist.  A half-written one would
\* be served for ever if it has its scene, and could never be stored if it has none.
\* Only two uploads of one bundle, of which one clears what the other has written, may
\* leave such a directory.
StoredIsComplete == \A u \in Uploads \ raced : stored[u] \in {{}, u.files}

\* What the comments promise of identical uploads, too: that nothing ever leaves "a
\* half-populated bundle that looks complete" (bundle.rs 202-203), and that who loses the
\* race finds the destination "complete, which is exactly what we wanted" (219-220).
RacesAreHarmless == \A u \in Uploads : LooksComplete(u) => stored[u] = u.files

\* A game that is gone has no versions, and a row names its newest version.
RowsAgree ==
    \A g \in GameIds :
        IF Exists(g) THEN current[g] = Len(versions[g]) ELSE versions[g] = <<>>

\* Whatever version row the catalog holds, the directory of its bundle has the scene and
\* every file the scene names, unless two uploads of it have raced.
WorldsAreThere ==
    \A g \in GameIds : \A v \in DOMAIN versions[g] :
        LET u == versions[g][v]
        IN  u \in raced \/ {ENTRY_SCENE} \union u.refs \subseteq stored[u]

\* A join of a listed game finds its world, whatever order publish, republish, delete,
\* failures and crashes come in (publish, republish, delete_game, bundle::store), if its
\* bundle is not one that two uploads raced for.
VersionsArePlayable ==
    CatalogTypeOK /\ RowsAgree /\ WorldsAreThere
        /\ \A g \in Listed : current[g] \in DOMAIN versions[g]

\* Rooms are shared by game and version: the two name one world, also when the game has
\* been republished or deleted while its rooms run.
SameVersionSameWorld ==
    \A a, b \in rooms :
        a.game = b.game /\ a.version = b.version => a.upload = b.upload

\* The catalog is a ledger: versions are added at the end of a game, and a deleted game
\* stays deleted, although publish is two statements with failures and crashes between
\* and a deletion may overtake a republish (db.rs add_version, api.rs republish).
Gone == {g \in issued : current[g] = NoRow}
L == INSTANCE Ledger WITH Games <- GameIds, Bundles <- Valid, worlds <- versions, gone <- Gone
ImplementsLedger == L!Spec
=============================================================================
