--------------------------- MODULE CatalogProofs ---------------------------
(***************************************************************************)
(* Proofs about Catalog, and about Publisher which drives it, for any      *)
(* number of tabs, requests, games and bundles: the catalog                *)
(* implements Ledger, a room's game and version name one world, and every  *)
(* version recorded has its whole bundle on disk, unless an upload of that *)
(* bundle cleared the staging directory of another one under way.          *)
(*                                                                         *)
(* CatalogInv is inductive: the rows agree, a request that has got past    *)
(* its checks has what they checked, and what rooms and joins took from    *)
(* the tables (the claims) is still so while the game exists.  DiskInv     *)
(* adds what the writer of a bundle has written so far.                    *)
(***************************************************************************)
EXTENDS Publisher, SequenceTheorems, FiniteSetTheorems, TLAPS

\* A game that has a row got its id from InsertGame.
RowsIssued == \A g \in GameIds : Exists(g) => g \in issued

\* Handlers past require_edit_key, validate and the reads.
HasUpload(j) == j.at \in Storing \union {"rows", "version", "disk", "room", "load"}
HasGame(j) ==
    \/ j.at \in {"version", "patch", "delete", "disk", "room", "count", "load"}
    \/ j.at \in Storing \union {"rows"} /\ ~j.new
JobOK(j) == (HasUpload(j) => j.upload \in Valid) /\ (HasGame(j) => j.game \in issued)
JobsOK == \A r \in Requests : JobOK(job[r])

\* What rooms run, and what joins are about to run.
Claim(j) == [game |-> j.game, version |-> j.version, upload |-> j.upload]
Joining(j) == j.at \in {"disk", "room"}
Claims == rooms \union {Claim(job[r]) : r \in {r \in Requests : Joining(job[r])}}

Backed(c) ==
    /\ c.game \in issued
    /\ Exists(c.game) => /\ c.version \in DOMAIN versions[c.game]
                         /\ versions[c.game][c.version] = c.upload
ClaimsHold ==
    /\ \A c \in Claims : Backed(c)
    /\ \A a, b \in Claims : a.game = b.game /\ a.version = b.version => a.upload = b.upload

CatalogInv == CatalogTypeOK /\ RowsAgree /\ RowsIssued /\ JobsOK /\ ClaimsHold

LEMMA InitCatalog == Init => CatalogInv
<1> SUFFICES ASSUME Init PROVE CatalogInv
  OBVIOUS
<1>1. CatalogTypeOK
  <2>1. Idle \in Jobs
    BY DEF Idle, Jobs, Stages
  <2>2. <<>> \in Seq(Valid)
    OBVIOUS
  <2>. QED  BY <2>1, <2>2, BoundsAssumption DEF Init, CatalogTypeOK, NoRow
<1>2. RowsAgree /\ RowsIssued
  BY DEF Init, RowsAgree, RowsIssued, Exists
<1>3. \A r \in Requests : job[r].at = "idle"
  BY DEF Init, Idle
<1>4. JobsOK /\ ClaimsHold
  BY <1>3 DEF Init, JobsOK, JobOK, HasUpload, HasGame, Storing, ClaimsHold, Claims, Joining
<1>. QED  BY <1>1, <1>2, <1>4 DEF CatalogInv

-----------------------------------------------------------------------------
(* Parts of a step                                                         *)

\* A new version goes behind the others.
LEMMA RecordedAppends ==
    ASSUME CatalogTypeOK, NEW g \in GameIds, NEW u, Recorded(g, u)
    PROVE  /\ versions' = [versions EXCEPT ![g] = Append(@, u)]
           /\ current' = [current EXCEPT ![g] =
                             IF @ = NoRow THEN NoRow ELSE Len(versions[g]) + 1]
<1>. DEFINE s == versions[g]
<1>1. s \in Seq(Valid)
  BY DEF CatalogTypeOK
<1>2. [v \in DOMAIN s \union {Len(s) + 1} |-> IF v = Len(s) + 1 THEN u ELSE s[v]] = Append(s, u)
  <2>1. DOMAIN s \union {Len(s) + 1} = 1..(Len(s) + 1)
    BY <1>1
  <2>. QED  BY <1>1, <2>1
<1>. QED  BY <1>2 DEF Recorded, NextVersion

\* What every other step leaves alone.
Quiet == UNCHANGED <<current, versions, issued>>

LEMMA StepKinds ==
    ASSUME [Next]_vars
    PROVE  \/ Quiet
           \/ \E r \in Requests : InsertGame(r) \/ AddVersion(r) \/ DeleteGame(r)
<1>1. ASSUME NEW r \in Requests, Arrive(r) PROVE Quiet
  BY <1>1 DEF Arrive, PublishArrives, RepublishArrives, ChangeArrives, ReadCurrent, Quiet, tables
<1>2. ASSUME NEW r \in Requests, Store(r) PROVE Quiet
  BY <1>2 DEF Store, StoreLooks, StoreClears, StoreWrites, StoreFails, StoreRenames, RenameLost,
              StoreRechecks, Quiet, tables
<1>3. ASSUME NEW r \in Requests, AddVersionFails(r) \/ PatchGame(r) PROVE Quiet
  BY <1>3 DEF AddVersionFails, PatchGame, Quiet, tables
<1>4. ASSUME NEW r \in Requests, Serve(r) PROVE Quiet
  BY <1>4 DEF Serve, JoinChecks, JoinEnters, JoinRefused, JoinCounts, GetBundle, Quiet, tables
<1>5. ASSUME NEW r \in Requests, HungUp(r) PROVE Quiet
  BY <1>5 DEF HungUp, Quiet, tables
<1>6. CASE RoomEnds \/ Crash
  BY <1>6 DEF RoomEnds, Crash, Quiet, tables
<1>7. CASE UNCHANGED vars
  BY <1>7 DEF vars, Quiet, tables
<1>. QED  BY <1>1, <1>2, <1>3, <1>4, <1>5, <1>6, <1>7 DEF Next, Rows

LEMMA AddedToAGame ==
    ASSUME CatalogInv, NEW r \in Requests, AddVersion(r)
    PROVE  job[r].game \in GameIds /\ job[r].game \in issued /\ job[r].upload \in Valid
<1>1. JobOK(job[r])
  BY DEF CatalogInv, JobsOK
<1>2. HasUpload(job[r]) /\ HasGame(job[r])
  BY DEF AddVersion, At, HasUpload, HasGame
<1>. QED  BY <1>1, <1>2 DEF JobOK, CatalogInv, CatalogTypeOK

LEMMA DeletedGame ==
    ASSUME CatalogInv, NEW r \in Requests, DeleteGame(r)
    PROVE  job[r].game \in GameIds /\ job[r].game \in issued
<1>1. JobOK(job[r])
  BY DEF CatalogInv, JobsOK
<1>2. HasGame(job[r])
  BY DEF DeleteGame, At, HasGame
<1>. QED  BY <1>1, <1>2 DEF JobOK, CatalogInv, CatalogTypeOK

-----------------------------------------------------------------------------
(* The rows                                                                *)

LEMMA NextRows == CatalogInv /\ [Next]_vars => RowsAgree' /\ RowsIssued'
<1> SUFFICES ASSUME CatalogInv, [Next]_vars PROVE RowsAgree' /\ RowsIssued'
  OBVIOUS
<1>. USE DEF CatalogInv
<1>1. CASE Quiet
  BY <1>1 DEF Quiet, RowsAgree, RowsIssued, Exists
<1>2. ASSUME NEW r \in Requests, InsertGame(r) PROVE RowsAgree' /\ RowsIssued'
  <2>1. PICK g \in FreshIds : issued' = issued \union {g} /\ current' = [current EXCEPT ![g] = 0]
    BY <1>2 DEF InsertGame
  <2>2. versions[g] = <<>> /\ g \in GameIds
    BY <2>1 DEF FreshIds, RowsIssued, RowsAgree
  <2>3. Len(versions[g]) = 0
    BY <2>2
  <2>4. versions' = versions
    BY <1>2 DEF InsertGame
  <2>. QED  BY <2>1, <2>2, <2>3, <2>4 DEF RowsAgree, RowsIssued, Exists, NoRow, CatalogTypeOK
<1>3. ASSUME NEW r \in Requests, AddVersion(r) PROVE RowsAgree' /\ RowsIssued'
  <2>. DEFINE g == job[r].game
              u == job[r].upload
  <2>1. g \in GameIds /\ u \in Valid
    BY <1>3, AddedToAGame
  <2>2. issued' = issued
    BY <1>3 DEF AddVersion
  <2>3. CASE UNCHANGED <<current, versions>>
    BY <2>2, <2>3 DEF RowsAgree, RowsIssued, Exists
  <2>4. CASE Exists(g) /\ Recorded(g, u)
    <3>1. /\ versions' = [versions EXCEPT ![g] = Append(@, u)]
          /\ current' = [current EXCEPT ![g] = Len(versions[g]) + 1]
      BY <2>1, <2>4, RecordedAppends DEF Exists
    <3>2. versions[g] \in Seq(Valid)
      BY <2>1 DEF CatalogTypeOK
    <3>3. Len(Append(versions[g], u)) = Len(versions[g]) + 1 /\ Len(versions[g]) \in Nat
      BY <3>2, <2>1
    <3>4. ASSUME NEW h \in GameIds
          PROVE  /\ IF Exists(h)' THEN current'[h] = Len(versions'[h]) ELSE versions'[h] = <<>>
                 /\ Exists(h)' => h \in issued'
      <4>1. CASE h = g
        <5>1. current'[h] = Len(versions[g]) + 1 /\ versions'[h] = Append(versions[g], u)
          BY <4>1, <3>1, <2>1 DEF CatalogTypeOK
        <5>. QED  BY <5>1, <4>1, <3>3, <2>2, <2>4 DEF Exists, NoRow, RowsIssued
      <4>2. CASE h # g
        <5>1. current'[h] = current[h] /\ versions'[h] = versions[h]
          BY <4>2, <3>1, <2>1 DEF CatalogTypeOK
        <5>. QED  BY <5>1, <2>2 DEF Exists, RowsAgree, RowsIssued
      <4>. QED  BY <4>1, <4>2
    <3>. QED  BY <3>4 DEF RowsAgree, RowsIssued
  <2>. QED  BY <1>3, <2>3, <2>4 DEF AddVersion, MayAdd
<1>4. ASSUME NEW r \in Requests, DeleteGame(r) PROVE RowsAgree' /\ RowsIssued'
  <2>1. job[r].game \in GameIds
    BY <1>4, DeletedGame
  <2>. QED  BY <1>4, <2>1 DEF DeleteGame, Cascade, RowsAgree, RowsIssued, Exists, NoRow, CatalogTypeOK
<1>. QED  BY <1>1, <1>2, <1>3, <1>4, StepKinds

-----------------------------------------------------------------------------
(* Refinement of Ledger                                                    *)

LEMMA InitLedger == Init => L!Init
BY DEF Init, L!Init, Gone

LEMMA NextLedger == CatalogInv /\ [Next]_vars => [L!Next]_<<versions, Gone>>
<1> SUFFICES ASSUME CatalogInv, [Next]_vars PROVE [L!Next]_<<versions, Gone>>
  OBVIOUS
<1>. USE DEF CatalogInv
<1>1. CASE Quiet
  BY <1>1 DEF Quiet, Gone
<1>2. ASSUME NEW r \in Requests, InsertGame(r) PROVE UNCHANGED <<versions, Gone>>
  <2>1. PICK g \in FreshIds : issued' = issued \union {g} /\ current' = [current EXCEPT ![g] = 0]
    BY <1>2 DEF InsertGame
  <2>2. g \in GameIds /\ g \notin issued
    BY <2>1 DEF FreshIds
  <2>3. Gone' = Gone
    BY <2>1, <2>2 DEF Gone, NoRow, CatalogTypeOK
  <2>. QED  BY <1>2, <2>3 DEF InsertGame
<1>3. ASSUME NEW r \in Requests, AddVersion(r) PROVE [L!Next]_<<versions, Gone>>
  <2>. DEFINE g == job[r].game
              u == job[r].upload
  <2>1. g \in GameIds /\ u \in Valid
    BY <1>3, AddedToAGame
  <2>2. issued' = issued
    BY <1>3 DEF AddVersion
  <2>3. CASE UNCHANGED <<current, versions>>
    BY <2>2, <2>3 DEF Gone
  <2>4. CASE Exists(g) /\ Recorded(g, u)
    <3>1. /\ versions' = [versions EXCEPT ![g] = Append(@, u)]
          /\ current' = [current EXCEPT ![g] = Len(versions[g]) + 1]
      BY <2>1, <2>4, RecordedAppends DEF Exists
    <3>2. Len(versions[g]) \in Nat
      BY <2>1 DEF CatalogTypeOK
    <3>3. Gone' = Gone /\ g \notin Gone
      BY <2>1, <2>2, <2>4, <3>1, <3>2 DEF Gone, Exists, NoRow, CatalogTypeOK
    <3>4. L!Publish(g, u)
      BY <3>1, <3>3 DEF L!Publish
    <3>. QED  BY <3>4, <2>1 DEF L!Next
  <2>. QED  BY <1>3, <2>3, <2>4 DEF AddVersion, MayAdd
<1>4. ASSUME NEW r \in Requests, DeleteGame(r) PROVE [L!Next]_<<versions, Gone>>
  <2>. DEFINE g == job[r].game
  <2>1. g \in GameIds /\ g \in issued
    BY <1>4, DeletedGame
  <2>2. current' = [current EXCEPT ![g] = NoRow] /\ issued' = issued
    BY <1>4 DEF DeleteGame
  <2>3. Gone' = Gone \union {g}
    BY <2>1, <2>2 DEF Gone, CatalogTypeOK
  <2>4. L!Delete(g)
    BY <1>4, <2>3 DEF DeleteGame, Cascade, L!Delete
  <2>. QED  BY <2>1, <2>4 DEF L!Next
<1>. QED  BY <1>1, <1>2, <1>3, <1>4, StepKinds

-----------------------------------------------------------------------------
(* Requests                                                                *)

\* The files of any upload.
Files == UNION {u.files : u \in Uploads}

LEMMA IdleJob == Idle \in Jobs /\ ~HasUpload(Idle) /\ ~HasGame(Idle) /\ ~Joining(Idle)
BY DEF Idle, Jobs, Stages, HasUpload, HasGame, Joining, Storing

LEMMA ValidUploads == \A u \in Valid : u \in Uploads /\ u.files \subseteq Files
BY DEF Valid, Files

JobsStayOK == job' \in [Requests -> Jobs] /\ JobsOK'

\* One request gets a new job, or goes on with the one it has.
LEMMA NewJob ==
    ASSUME CatalogInv, NEW r \in Requests, NEW j \in Jobs,
           job' = [job EXCEPT ![r] = j], issued \subseteq issued',
           HasUpload(j) => j.upload \in Valid, HasGame(j) => j.game \in issued'
    PROVE  JobsStayOK
<1>1. job \in [Requests -> Jobs]
  BY DEF CatalogInv, CatalogTypeOK
<1>2. ASSUME NEW q \in Requests PROVE JobOK(job[q])'
  <2>1. CASE q = r
    <3>1. job'[q] = j
      BY <2>1, <1>1
    <3>. QED  BY <3>1 DEF JobOK, HasUpload, HasGame
  <2>2. CASE q # r
    <3>1. job'[q] = job[q] /\ JobOK(job[q])
      BY <2>2, <1>1 DEF CatalogInv, JobsOK
    <3>. QED  BY <3>1 DEF JobOK, HasUpload, HasGame
  <2>. QED  BY <2>1, <2>2
<1>. QED  BY <1>1, <1>2 DEF JobsStayOK, JobsOK

LEMMA Ended ==
    ASSUME CatalogInv, NEW r \in Requests, Ends(r), UNCHANGED issued
    PROVE  JobsStayOK
BY IdleJob, NewJob DEF Ends

LEMMA MovedOn ==
    ASSUME CatalogInv, NEW r \in Requests, NEW stage \in Stages, Go(r, stage), UNCHANGED issued,
           HasUpload([job[r] EXCEPT !.at = stage]) => HasUpload(job[r]),
           HasGame([job[r] EXCEPT !.at = stage]) => HasGame(job[r])
    PROVE  JobsStayOK
<1>. DEFINE j == [job[r] EXCEPT !.at = stage]
<1>1. job[r] \in Jobs /\ JobOK(job[r])
  BY DEF CatalogInv, CatalogTypeOK, JobsOK
<1>2. j \in Jobs /\ j.upload = job[r].upload /\ j.game = job[r].game
  BY <1>1 DEF Jobs
<1>3. job' = [job EXCEPT ![r] = j]
  BY DEF Go
<1>4. (HasUpload(j) => j.upload \in Valid) /\ (HasGame(j) => j.game \in issued)
  BY <1>1, <1>2 DEF JobOK
<1>. QED  BY <1>2, <1>3, <1>4, NewJob

LEMMA ArrivesOK ==
    ASSUME CatalogInv, NEW r \in Requests, Arrive(r)
    PROVE  JobsStayOK
<1>1. ASSUME NEW u \in Uploads, PublishArrives(r, u) PROVE JobsStayOK
  <2>. DEFINE j == [Idle EXCEPT !.at = "look", !.new = TRUE, !.upload = u]
  <2>1. j \in Jobs /\ j.upload = u /\ ~HasGame(j)
    BY <1>1, IdleJob DEF PublishArrives, Jobs, Stages, HasGame, Storing, Idle
  <2>2. job' = [job EXCEPT ![r] = j] /\ issued' = issued /\ u \in Valid
    BY <1>1 DEF PublishArrives
  <2>. HIDE DEF j
  <2>. QED  BY <2>1, <2>2, NewJob
<1>2. ASSUME NEW g \in GameIds, NEW u \in Uploads, RepublishArrives(r, g, u) PROVE JobsStayOK
  <2>. DEFINE j == [Idle EXCEPT !.at = "look", !.game = g, !.upload = u]
  <2>1. j \in Jobs /\ j.upload = u /\ j.game = g
    BY <1>2, IdleJob DEF RepublishArrives, Jobs, Stages, Idle
  <2>2. g \in issued
    BY <1>2 DEF RepublishArrives, CatalogInv, RowsIssued
  <2>3. job' = [job EXCEPT ![r] = j] /\ issued' = issued /\ u \in Valid
    BY <1>2 DEF RepublishArrives
  <2>. HIDE DEF j
  <2>. QED  BY <2>1, <2>2, <2>3, NewJob
<1>3. ASSUME NEW g \in GameIds, NEW change \in {"patch", "delete"}, ChangeArrives(r, g, change)
      PROVE  JobsStayOK
  <2>. DEFINE j == [Idle EXCEPT !.at = change, !.game = g]
  <2>1. j \in Jobs /\ j.game = g /\ ~HasUpload(j)
    BY IdleJob DEF Jobs, Stages, HasUpload, Storing, Idle
  <2>2. g \in issued
    BY <1>3 DEF ChangeArrives, CatalogInv, RowsIssued
  <2>3. job' = [job EXCEPT ![r] = j] /\ issued' = issued
    BY <1>3 DEF ChangeArrives
  <2>. HIDE DEF j
  <2>. QED  BY <2>1, <2>2, <2>3, NewJob
<1>4. ASSUME NEW g \in GameIds, NEW stage \in {"disk", "load"}, ReadCurrent(r, g, stage)
      PROVE  JobsStayOK
  <2>. DEFINE u == versions[g][current[g]]
              j == [Idle EXCEPT !.at = stage, !.game = g, !.version = current[g], !.upload = u]
  <2>1. u \in Valid /\ current[g] \in Nat
    BY <1>4 DEF ReadCurrent, CatalogInv, CatalogTypeOK, RowsAgree, Exists
  <2>2. j \in Jobs /\ j.game = g /\ j.upload = u
    BY <2>1, IdleJob DEF Jobs, Stages, Idle
  <2>3. g \in issued
    BY <1>4 DEF ReadCurrent, CatalogInv, RowsIssued
  <2>4. job' = [job EXCEPT ![r] = j] /\ issued' = issued
    BY <1>4 DEF ReadCurrent, Served
  <2>. HIDE DEF j, u
  <2>. QED  BY <2>1, <2>2, <2>3, <2>4, NewJob
<1>. QED  BY <1>1, <1>2, <1>3, <1>4 DEF Arrive

LEMMA StoreOK ==
    ASSUME CatalogInv, NEW r \in Requests, Store(r)
    PROVE  JobsStayOK
<1>a. job[r] \in Jobs /\ JobOK(job[r])
  BY DEF CatalogInv, CatalogTypeOK, JobsOK
<1>1. CASE StoreLooks(r) \/ RenameLost(r) \/ StoreRenames(r)
  <2>1. PICK stage \in {"rows", "clear", "recheck"} : Go(r, stage)
    BY <1>1 DEF StoreLooks, RenameLost, StoreRenames
  <2>2. job[r].at \in {"look", "rename"} /\ issued' = issued
    BY <1>1 DEF StoreLooks, RenameLost, StoreRenames, At
  <2>3. HasUpload(job[r]) /\ (HasGame([job[r] EXCEPT !.at = stage]) => HasGame(job[r]))
    BY <2>2, <1>a DEF HasUpload, HasGame, Storing, Jobs
  <2>4. stage \in Stages
    BY DEF Stages
  <2>. QED  BY <2>1, <2>2, <2>3, <2>4, MovedOn
<1>2. CASE StoreClears(r)
  <2>. DEFINE j == [job[r] EXCEPT !.at = "write", !.left = job[r].upload.files]
  <2>1. HasUpload(job[r]) /\ (HasGame(j) => HasGame(job[r])) /\ job[r].upload \in Valid
    BY <1>2, <1>a DEF StoreClears, At, HasUpload, HasGame, Storing, JobOK, Jobs
  <2>2. j \in Jobs /\ j.upload = job[r].upload /\ j.game = job[r].game
    BY <2>1, <1>a, ValidUploads DEF Jobs, Stages, Files
  <2>3. job' = [job EXCEPT ![r] = j] /\ issued' = issued
    BY <1>2 DEF StoreClears
  <2>4. HasGame(j) => j.game \in issued'
    BY <1>a, <2>1, <2>2, <2>3 DEF JobOK
  <2>. HIDE DEF j
  <2>. QED  BY <2>1, <2>2, <2>3, <2>4, NewJob
<1>3. CASE StoreWrites(r)
  <2>1. PICK p \in FirstOf(job[r].left) :
            job' = [job EXCEPT ![r].left = @ \ {p},
                               ![r].at = IF job[r].left = {p} THEN "rename" ELSE "write"]
    BY <1>3 DEF StoreWrites
  <2>. DEFINE j == [job[r] EXCEPT !.left = @ \ {p},
                                  !.at = IF job[r].left = {p} THEN "rename" ELSE "write"]
  <2>2. HasUpload(job[r]) /\ (HasGame(j) => HasGame(job[r])) /\ job[r].upload \in Valid
    BY <1>3, <1>a DEF StoreWrites, At, HasUpload, HasGame, Storing, JobOK, Jobs
  <2>3. j \in Jobs /\ j.upload = job[r].upload /\ j.game = job[r].game
    BY <1>a DEF Jobs, Stages
  <2>4. job' = [job EXCEPT ![r] = j] /\ issued' = issued
    BY <1>3, <2>1 DEF StoreWrites
  <2>5. HasGame(j) => j.game \in issued'
    BY <1>a, <2>2, <2>3, <2>4 DEF JobOK
  <2>. HIDE DEF j
  <2>. QED  BY <2>2, <2>3, <2>4, <2>5, NewJob
<1>4. CASE StoreFails(r)
  BY <1>4, Ended DEF StoreFails
<1>5. CASE StoreRechecks(r)
  <2>1. job[r].at = "recheck" /\ issued' = issued
    BY <1>5 DEF StoreRechecks, At
  <2>2. CASE Go(r, "rows")
    <3>1. HasUpload(job[r]) /\ (HasGame([job[r] EXCEPT !.at = "rows"]) => HasGame(job[r]))
      BY <2>1, <1>a DEF HasUpload, HasGame, Storing, Jobs
    <3>. QED  BY <2>1, <2>2, <3>1, MovedOn DEF Stages
  <2>3. CASE Ends(r)
    BY <2>1, <2>3, Ended
  <2>. QED  BY <1>5, <2>2, <2>3 DEF StoreRechecks
<1>. QED  BY <1>1, <1>2, <1>3, <1>4, <1>5 DEF Store

LEMMA NextJobs == CatalogInv /\ [Next]_vars => JobsStayOK
<1> SUFFICES ASSUME CatalogInv, [Next]_vars PROVE JobsStayOK
  OBVIOUS
<1>1. ASSUME NEW r \in Requests, Arrive(r) \/ Store(r) PROVE JobsStayOK
  BY <1>1, ArrivesOK, StoreOK
<1>2. ASSUME NEW r \in Requests, InsertGame(r) PROVE JobsStayOK
  <2>1. PICK g \in FreshIds :
            /\ issued' = issued \union {g}
            /\ job' = [job EXCEPT ![r].game = g, ![r].at = "version"]
    BY <1>2 DEF InsertGame
  <2>. DEFINE j == [job[r] EXCEPT !.game = g, !.at = "version"]
  <2>2. job[r] \in Jobs /\ JobOK(job[r]) /\ HasUpload(job[r])
    BY <1>2 DEF InsertGame, At, HasUpload, CatalogInv, CatalogTypeOK, JobsOK
  <2>3. j \in Jobs /\ j.upload = job[r].upload /\ j.game = g
    BY <2>1, <2>2 DEF Jobs, Stages, FreshIds
  <2>4. j.upload \in Valid /\ j.game \in issued'
    BY <2>1, <2>2, <2>3 DEF JobOK
  <2>5. job' = [job EXCEPT ![r] = j]
    BY <2>1
  <2>. HIDE DEF j
  <2>. QED  BY <2>1, <2>3, <2>4, <2>5, NewJob
<1>3. ASSUME NEW r \in Requests, AddVersion(r) \/ AddVersionFails(r) \/ PatchGame(r) \/ DeleteGame(r)
      PROVE  JobsStayOK
  BY <1>3, Ended DEF AddVersion, AddVersionFails, PatchGame, DeleteGame
<1>4. ASSUME NEW r \in Requests, JoinRefused(r) \/ JoinCounts(r) \/ GetBundle(r) \/ HungUp(r)
      PROVE  JobsStayOK
  BY <1>4, Ended DEF JoinRefused, JoinCounts, GetBundle, HungUp
<1>5. ASSUME NEW r \in Requests, JoinChecks(r) \/ JoinEnters(r) PROVE JobsStayOK
  <2>1. /\ Go(r, "room") \/ Go(r, "count") \/ Ends(r)
        /\ job[r].at \in {"disk", "room"} /\ issued' = issued
    BY <1>5 DEF JoinChecks, JoinEnters, At
  <2>2. HasUpload(job[r]) /\ HasGame(job[r])
    BY <2>1 DEF HasUpload, HasGame
  <2>. QED  BY <2>1, <2>2, MovedOn, Ended DEF Stages
<1>6. CASE RoomEnds \/ UNCHANGED vars
  BY <1>6 DEF RoomEnds, vars, JobsStayOK, CatalogInv, CatalogTypeOK, JobsOK, JobOK, HasUpload, HasGame
<1>7. CASE Crash
  <2>1. job' = [r \in Requests |-> Idle]
    BY <1>7 DEF Crash
  <2>2. \A r \in Requests : job'[r] = Idle
    BY <2>1
  <2>3. \A r \in Requests : JobOK(job[r])'
    BY <2>2, IdleJob DEF JobOK, HasUpload, HasGame
  <2>. QED  BY <2>1, <2>3, IdleJob DEF JobsStayOK, JobsOK
<1>. QED  BY <1>1, <1>2, <1>3, <1>4, <1>5, <1>6, <1>7 DEF Next, Rows, Serve

-----------------------------------------------------------------------------
(* Types                                                                   *)

LEMMA NextVersionsType ==
    CatalogInv /\ [Next]_vars =>
        /\ current' \in [GameIds -> Nat \union {NoRow}]
        /\ versions' \in [GameIds -> Seq(Valid)]
        /\ issued' \subseteq GameIds
<1> SUFFICES ASSUME CatalogInv, [Next]_vars
             PROVE  /\ current' \in [GameIds -> Nat \union {NoRow}]
                    /\ versions' \in [GameIds -> Seq(Valid)]
                    /\ issued' \subseteq GameIds
  OBVIOUS
<1>. USE DEF CatalogInv
<1>1. CASE Quiet
  BY <1>1 DEF Quiet, CatalogTypeOK
<1>2. ASSUME NEW r \in Requests, InsertGame(r)
      PROVE  /\ current' \in [GameIds -> Nat \union {NoRow}] /\ versions' = versions
             /\ issued' \subseteq GameIds
  BY <1>2 DEF InsertGame, FreshIds, CatalogTypeOK
<1>3. ASSUME NEW r \in Requests, AddVersion(r)
      PROVE  /\ current' \in [GameIds -> Nat \union {NoRow}] /\ versions' \in [GameIds -> Seq(Valid)]
             /\ issued' = issued
  <2>. DEFINE g == job[r].game
              u == job[r].upload
  <2>1. g \in GameIds /\ u \in Valid
    BY <1>3, AddedToAGame
  <2>2. CASE UNCHANGED <<current, versions>>
    BY <1>3, <2>2 DEF AddVersion, CatalogTypeOK
  <2>3. CASE Recorded(g, u)
    <3>1. /\ versions' = [versions EXCEPT ![g] = Append(@, u)]
          /\ current' = [current EXCEPT ![g] = IF @ = NoRow THEN NoRow ELSE Len(versions[g]) + 1]
      BY <2>1, <2>3, RecordedAppends
    <3>2. Append(versions[g], u) \in Seq(Valid) /\ Len(versions[g]) + 1 \in Nat
      BY <2>1 DEF CatalogTypeOK
    <3>3. versions' \in [GameIds -> Seq(Valid)]
      BY <3>1, <3>2 DEF CatalogTypeOK
    <3>4. current' \in [GameIds -> Nat \union {NoRow}]
      BY <3>1, <3>2 DEF CatalogTypeOK
    <3>. QED  BY <1>3, <3>3, <3>4 DEF AddVersion
  <2>. QED  BY <1>3, <2>2, <2>3 DEF AddVersion
<1>4. ASSUME NEW r \in Requests, DeleteGame(r)
      PROVE  /\ current' \in [GameIds -> Nat \union {NoRow}] /\ versions' \in [GameIds -> Seq(Valid)]
             /\ issued' = issued
  <2>1. <<>> \in Seq(Valid)
    OBVIOUS
  <2>. QED  BY <1>4, <2>1 DEF DeleteGame, Cascade, CatalogTypeOK
<1>. QED  BY <1>1, <1>2, <1>3, <1>4, StepKinds DEF CatalogTypeOK

LEMMA NextTypes == CatalogInv /\ [Next]_vars => CatalogTypeOK'
<1> SUFFICES ASSUME CatalogInv, [Next]_vars PROVE CatalogTypeOK'
  OBVIOUS
<1>. DEFINE Rest == /\ public' \subseteq GameIds
                    /\ dbHolder' \in Requests \union {Free}
                    /\ stored' \in [Uploads -> SUBSET Files]
                    /\ staging' \in [Uploads -> SUBSET Files]
                    /\ raced' \subseteq Uploads
                    /\ rooms' \subseteq [game: GameIds, version: Nat, upload: Valid]
                    /\ mishaps' \in Nat
<1>1. /\ public \subseteq GameIds /\ dbHolder \in Requests \union {Free}
      /\ stored \in [Uploads -> SUBSET Files] /\ staging \in [Uploads -> SUBSET Files]
      /\ raced \subseteq Uploads
      /\ rooms \subseteq [game: GameIds, version: Nat, upload: Valid] /\ mishaps \in Nat
      /\ issued \subseteq GameIds
      /\ \A r \in Requests : job[r] \in Jobs /\ JobOK(job[r])
  BY DEF CatalogInv, CatalogTypeOK, JobsOK, Files
<1>2. ASSUME NEW r \in Requests, Arrive(r) PROVE Rest
  BY <1>1, <1>2 DEF Arrive, PublishArrives, RepublishArrives, ChangeArrives, ReadCurrent, tables, disk
<1>3. ASSUME NEW r \in Requests, Store(r) PROVE Rest
  <2>1. CASE StoreLooks(r) \/ StoreFails(r) \/ StoreRechecks(r)
    BY <1>1, <2>1 DEF StoreLooks, StoreFails, StoreRechecks, tables, disk
  <2>4. CASE StoreClears(r)
    <3>1. job[r].upload \in Uploads
      BY <1>1, <2>4, ValidUploads DEF StoreClears, At, JobOK, HasUpload, Storing
    <3>. QED  BY <1>1, <2>4, <3>1 DEF StoreClears, tables
  <2>2. CASE StoreWrites(r)
    <3>1. PICK p \in FirstOf(job[r].left) : Written(job[r].upload, p)
      BY <2>2 DEF StoreWrites
    <3>2. p \in Files
      BY <1>1, <3>1 DEF FirstOf, Jobs, Files
    <3>3. staging' \in [Uploads -> SUBSET Files] /\ stored' = stored
      BY <1>1, <3>1, <3>2 DEF Written
    <3>. QED  BY <1>1, <2>2, <3>3 DEF StoreWrites, tables
  <2>3. CASE StoreRenames(r) \/ RenameLost(r)
    <3>. DEFINE u == job[r].upload
    <3>1. u \in Uploads
      BY <1>1, <2>3, ValidUploads DEF StoreRenames, RenameLost, At, JobOK, HasUpload, Storing
    <3>2. stored' \in [Uploads -> SUBSET Files] /\ staging' \in [Uploads -> SUBSET Files]
      BY <1>1, <2>3, <3>1 DEF StoreRenames, RenameLost
    <3>. QED  BY <1>1, <2>3, <3>2 DEF StoreRenames, RenameLost, tables
  <2>. QED  BY <1>3, <2>1, <2>2, <2>3, <2>4 DEF Store
<1>4. ASSUME NEW r \in Requests, InsertGame(r) PROVE Rest
  BY <1>1, <1>4 DEF InsertGame, FreshIds, disk
<1>5. ASSUME NEW r \in Requests, AddVersion(r) \/ AddVersionFails(r) \/ DeleteGame(r) PROVE Rest
  BY <1>1, <1>5 DEF AddVersion, AddVersionFails, DeleteGame, disk, tables
<1>6. ASSUME NEW r \in Requests, PatchGame(r) PROVE Rest
  <2>1. job[r].game \in GameIds
    BY <1>1, <1>6 DEF PatchGame, At, JobOK, HasGame
  <2>. QED  BY <1>1, <1>6, <2>1 DEF PatchGame, disk
<1>7. ASSUME NEW r \in Requests, Serve(r) PROVE Rest
  <2>1. CASE JoinChecks(r) \/ JoinRefused(r) \/ JoinCounts(r) \/ GetBundle(r)
    BY <1>1, <2>1 DEF JoinChecks, JoinRefused, JoinCounts, GetBundle, tables, disk
  <2>2. CASE JoinEnters(r)
    <3>1. job[r].game \in GameIds /\ job[r].upload \in Valid /\ job[r].version \in Nat
      BY <1>1, <2>2 DEF JoinEnters, At, JobOK, HasGame, HasUpload, Jobs
    <3>. QED  BY <1>1, <2>2, <3>1 DEF JoinEnters, tables, disk
  <2>. QED  BY <1>7, <2>1, <2>2 DEF Serve
<1>8. ASSUME NEW r \in Requests, HungUp(r) PROVE Rest
  BY <1>1, <1>8 DEF HungUp, tables, disk
<1>9. ASSUME RoomEnds PROVE Rest
  BY <1>1, <1>9 DEF RoomEnds, tables, disk
<1>10. ASSUME Crash PROVE Rest
  BY <1>1, <1>10 DEF Crash, tables, disk
<1>11. ASSUME UNCHANGED vars PROVE Rest
  BY <1>1, <1>11 DEF vars, tables, disk
<1>12. Rest
  <2>. HIDE DEF Rest
  <2>. QED  BY <1>2, <1>3, <1>4, <1>5, <1>6, <1>7, <1>8, <1>9, <1>10, <1>11 DEF Next, Rows
<1>13. job' \in [Requests -> Jobs]
  BY NextJobs DEF JobsStayOK
<1>. QED  BY <1>12, <1>13, NextVersionsType DEF CatalogTypeOK, Files

-----------------------------------------------------------------------------
(* Claims                                                                  *)

\* A claim stays true, whatever is inserted, added or deleted.
LEMMA StaysBacked ==
    ASSUME CatalogInv, [Next]_vars, NEW c \in Claims
    PROVE  Backed(c)'
<1>. USE DEF CatalogInv
<1>1. Backed(c) /\ c.game \in GameIds
  BY DEF ClaimsHold, Backed, CatalogTypeOK
<1>2. CASE Quiet
  BY <1>1, <1>2 DEF Quiet, Backed, Exists
<1>3. ASSUME NEW r \in Requests, InsertGame(r) PROVE Backed(c)'
  <2>1. PICK g \in FreshIds : issued' = issued \union {g} /\ current' = [current EXCEPT ![g] = 0]
    BY <1>3 DEF InsertGame
  <2>2. c.game # g
    BY <1>1, <2>1 DEF Backed, FreshIds
  <2>. QED  BY <1>1, <1>3, <2>1, <2>2 DEF InsertGame, Backed, Exists, CatalogTypeOK
<1>4. ASSUME NEW r \in Requests, AddVersion(r) PROVE Backed(c)'
  <2>. DEFINE g == job[r].game
              u == job[r].upload
  <2>1. g \in GameIds /\ u \in Valid
    BY <1>4, AddedToAGame
  <2>2. issued' = issued
    BY <1>4 DEF AddVersion
  <2>3. CASE UNCHANGED <<current, versions>>
    BY <1>1, <2>2, <2>3 DEF Backed, Exists
  <2>4. CASE Exists(g) /\ Recorded(g, u)
    <3>1. /\ versions' = [versions EXCEPT ![g] = Append(@, u)]
          /\ current' = [current EXCEPT ![g] = Len(versions[g]) + 1]
      BY <2>1, <2>4, RecordedAppends DEF Exists
    <3>2. CASE c.game # g
      BY <1>1, <2>2, <3>1, <3>2 DEF Backed, Exists, CatalogTypeOK
    <3>3. CASE c.game = g
      <4>1. c.version \in DOMAIN versions[g] /\ versions[g][c.version] = c.upload
        BY <1>1, <2>4, <3>3 DEF Backed
      <4>2. versions[g] \in Seq(Valid) /\ versions'[g] = Append(versions[g], u)
        BY <2>1, <3>1 DEF CatalogTypeOK
      <4>3. c.version \in DOMAIN versions'[g] /\ versions'[g][c.version] = c.upload
        BY <4>1, <4>2, <2>1
      <4>. QED  BY <1>1, <2>2, <3>3, <4>3 DEF Backed
    <3>. QED  BY <3>2, <3>3
  <2>. QED  BY <1>4, <2>3, <2>4 DEF AddVersion, MayAdd
<1>5. ASSUME NEW r \in Requests, DeleteGame(r) PROVE Backed(c)'
  <2>1. job[r].game \in GameIds
    BY <1>5, DeletedGame
  <2>. QED  BY <1>1, <1>5, <2>1 DEF DeleteGame, Cascade, Backed, Exists, CatalogTypeOK
<1>. QED  BY <1>2, <1>3, <1>4, <1>5, StepKinds

\* Most steps claim nothing new.
LEMMA OldClaims ==
    ASSUME CatalogInv, [Next]_vars, Claims' \subseteq Claims
    PROVE  ClaimsHold'
<1>1. \A c \in Claims : Backed(c)'
  BY StaysBacked
<1>. QED  BY <1>1 DEF ClaimsHold, CatalogInv

LEMMA SameRooms ==
    ASSUME CatalogInv, rooms' \subseteq rooms, NEW r \in Requests, NEW j,
           job' = [job EXCEPT ![r] = j], Joining(j) => Claim(j) \in Claims
    PROVE  Claims' \subseteq Claims
<1>1. job \in [Requests -> Jobs]
  BY DEF CatalogInv, CatalogTypeOK
<1>2. ASSUME NEW q \in Requests, Joining(job[q])' PROVE Claim(job[q])' \in Claims
  <2>1. CASE q = r
    <3>1. job'[q] = j
      BY <2>1, <1>1
    <3>. QED  BY <3>1, <1>2 DEF Joining, Claim
  <2>2. CASE q # r
    <3>1. job'[q] = job[q]
      BY <2>2, <1>1
    <3>2. Joining(job[q]) /\ Claim(job[q])' = Claim(job[q])
      BY <3>1, <1>2 DEF Joining, Claim
    <3>. QED  BY <3>2 DEF Claims
  <2>. QED  BY <2>1, <2>2
<1>. QED  BY <1>2 DEF Claims

\* A request that goes to a stage where it does not join.
LEMMA NotJoining ==
    ASSUME CatalogInv, rooms' \subseteq rooms, NEW r \in Requests, NEW stage \in Stages \ {"disk", "room"},
           Go(r, stage) \/ Ends(r)
    PROVE  Claims' \subseteq Claims
<1>1. ~Joining([job[r] EXCEPT !.at = stage])
  BY DEF Joining, CatalogInv, CatalogTypeOK, Jobs
<1>. QED  BY <1>1, IdleJob, SameRooms DEF Go, Ends

LEMMA ReadsClaim ==
    ASSUME CatalogInv, [Next]_vars, NEW r \in Requests, NEW g \in GameIds,
           NEW stage \in {"disk", "load"}, ReadCurrent(r, g, stage)
    PROVE  ClaimsHold'
<1>. DEFINE u == versions[g][current[g]]
            j == [Idle EXCEPT !.at = stage, !.game = g, !.version = current[g], !.upload = u]
            c == [game |-> g, version |-> current[g], upload |-> u]
<1>1. job' = [job EXCEPT ![r] = j] /\ UNCHANGED <<rooms, issued, current, versions>>
  BY DEF ReadCurrent, Served, tables
<1>2. g \in issued /\ current[g] \in DOMAIN versions[g] /\ Exists(g)
  BY DEF ReadCurrent, CatalogInv, CatalogTypeOK, RowsAgree, RowsIssued, Exists
<1>3. Claims' \subseteq Claims \union {c}
  <2>1. job \in [Requests -> Jobs]
    BY DEF CatalogInv, CatalogTypeOK
  <2>2. job'[r] = j /\ \A q \in Requests \ {r} : job'[q] = job[q]
    BY <1>1, <2>1
  <2>3. Claim(j) = c
    BY DEF Claim, Idle
  <2>4. ASSUME NEW q \in Requests, Joining(job[q])' PROVE Claim(job[q])' \in Claims \union {c}
    <3>1. CASE q = r
      BY <2>2, <2>3, <3>1 DEF Claim
    <3>2. CASE q # r
      <4>1. Joining(job[q]) /\ Claim(job[q])' = Claim(job[q])
        BY <2>2, <3>2, <2>4 DEF Joining, Claim
      <4>. QED  BY <4>1 DEF Claims
    <3>. QED  BY <3>1, <3>2
  <2>. QED  BY <1>1, <2>4 DEF Claims
<1>4. \A a \in Claims \union {c} : Backed(a)
  BY <1>2 DEF Backed, CatalogInv, ClaimsHold
<1>5. \A a \in Claims \union {c} : Backed(a)'
  BY <1>1, <1>4 DEF Backed, Exists
<1>6. \A a \in Claims : a.game = g /\ a.version = current[g] => a.upload = u
  BY <1>2 DEF CatalogInv, ClaimsHold, Backed
<1>7. \A a, b \in Claims \union {c} : a.game = b.game /\ a.version = b.version => a.upload = b.upload
  <2>1. c.game = g /\ c.version = current[g] /\ c.upload = u
    OBVIOUS
  <2>. HIDE DEF c, u
  <2>. QED  BY <1>6, <2>1 DEF CatalogInv, ClaimsHold
<1>. QED  BY <1>3, <1>5, <1>7 DEF ClaimsHold

LEMMA NextClaims == CatalogInv /\ [Next]_vars => ClaimsHold'
<1> SUFFICES ASSUME CatalogInv, [Next]_vars PROVE ClaimsHold'
  OBVIOUS
<1>. DEFINE NoMore == Claims' \subseteq Claims
<1>. HIDE DEF NoMore
<1>1. ASSUME NEW r \in Requests, NEW u \in Uploads, PublishArrives(r, u) PROVE NoMore
  BY <1>1, SameRooms DEF PublishArrives, Joining, Idle, NoMore
<1>2. ASSUME NEW r \in Requests, NEW g \in GameIds, NEW u \in Uploads, RepublishArrives(r, g, u)
      PROVE  NoMore
  BY <1>2, SameRooms DEF RepublishArrives, Joining, Idle, NoMore
<1>3. ASSUME NEW r \in Requests, NEW g \in GameIds, NEW change \in {"patch", "delete"},
             ChangeArrives(r, g, change)
      PROVE  NoMore
  BY <1>3, SameRooms DEF ChangeArrives, Joining, Idle, NoMore
<1>4. ASSUME NEW r \in Requests, Store(r) PROVE NoMore
  <2>1. CASE StoreLooks(r) \/ StoreFails(r) \/ StoreRenames(r) \/ RenameLost(r) \/ StoreRechecks(r)
    <3>1. PICK stage \in {"rows", "clear", "recheck"} : Go(r, stage) \/ Ends(r)
      BY <2>1 DEF StoreLooks, StoreFails, StoreRenames, RenameLost, StoreRechecks
    <3>2. rooms' = rooms
      BY <2>1 DEF StoreLooks, StoreFails, StoreRenames, RenameLost, StoreRechecks
    <3>. QED  BY <3>1, <3>2, NotJoining DEF Stages, NoMore
  <2>2. CASE StoreClears(r)
    <3>. DEFINE j == [job[r] EXCEPT !.at = "write", !.left = job[r].upload.files]
    <3>1. ~Joining(j)
      BY DEF Joining, CatalogInv, CatalogTypeOK, Jobs
    <3>2. job' = [job EXCEPT ![r] = j] /\ rooms' = rooms
      BY <2>2 DEF StoreClears
    <3>. HIDE DEF j
    <3>. QED  BY <3>1, <3>2, SameRooms DEF NoMore
  <2>3. CASE StoreWrites(r)
    <3>1. PICK p \in FirstOf(job[r].left) :
              job' = [job EXCEPT ![r].left = @ \ {p},
                                 ![r].at = IF job[r].left = {p} THEN "rename" ELSE "write"]
      BY <2>3 DEF StoreWrites
    <3>. DEFINE j == [job[r] EXCEPT !.left = @ \ {p},
                                    !.at = IF job[r].left = {p} THEN "rename" ELSE "write"]
    <3>2. ~Joining(j)
      BY DEF Joining, CatalogInv, CatalogTypeOK, Jobs
    <3>3. job' = [job EXCEPT ![r] = j] /\ rooms' = rooms
      BY <2>3, <3>1 DEF StoreWrites
    <3>. HIDE DEF j
    <3>. QED  BY <3>2, <3>3, SameRooms DEF NoMore
  <2>. QED  BY <1>4, <2>1, <2>2, <2>3 DEF Store
<1>5. ASSUME NEW r \in Requests, InsertGame(r) PROVE NoMore
  <2>1. PICK g \in FreshIds : job' = [job EXCEPT ![r].game = g, ![r].at = "version"]
    BY <1>5 DEF InsertGame
  <2>. DEFINE j == [job[r] EXCEPT !.game = g, !.at = "version"]
  <2>2. ~Joining(j)
    BY DEF Joining, CatalogInv, CatalogTypeOK, Jobs
  <2>3. job' = [job EXCEPT ![r] = j] /\ rooms' = rooms
    BY <1>5, <2>1 DEF InsertGame
  <2>. HIDE DEF j
  <2>. QED  BY <2>2, <2>3, SameRooms DEF NoMore
<1>6. ASSUME NEW r \in Requests,
             \/ AddVersion(r) \/ AddVersionFails(r) \/ PatchGame(r) \/ DeleteGame(r)
             \/ JoinRefused(r) \/ JoinCounts(r) \/ GetBundle(r) \/ HungUp(r)
      PROVE  NoMore
  <2>1. Ends(r) /\ rooms' = rooms
    BY <1>6 DEF AddVersion, AddVersionFails, PatchGame, DeleteGame, JoinRefused, JoinCounts,
                GetBundle, HungUp
  <2>2. "idle" \in Stages \ {"disk", "room"}
    BY DEF Stages
  <2>. QED  BY <2>1, <2>2, NotJoining DEF NoMore
<1>7. ASSUME NEW r \in Requests, JoinChecks(r) PROVE NoMore
  <2>1. Joining(job[r]) /\ rooms' = rooms
    BY <1>7 DEF JoinChecks, At, Joining
  <2>2. CASE Ends(r)
    BY <2>1, <2>2, IdleJob, SameRooms DEF Ends, NoMore
  <2>3. CASE Go(r, "room")
    <3>. DEFINE j == [job[r] EXCEPT !.at = "room"]
    <3>1. Claim(j) = Claim(job[r])
      BY DEF Claim, CatalogInv, CatalogTypeOK, Jobs
    <3>2. Claim(j) \in Claims
      BY <2>1, <3>1 DEF Claims
    <3>3. job' = [job EXCEPT ![r] = j]
      BY <2>3 DEF Go
    <3>. HIDE DEF j
    <3>. QED  BY <2>1, <3>2, <3>3, SameRooms DEF NoMore
  <2>. QED  BY <1>7, <2>2, <2>3 DEF JoinChecks
<1>8. ASSUME NEW r \in Requests, JoinEnters(r) PROVE NoMore
  <2>1. /\ Joining(job[r]) /\ rooms' = rooms \union {Claim(job[r])}
        /\ job' = [job EXCEPT ![r] = [job[r] EXCEPT !.at = "count"]]
    BY <1>8 DEF JoinEnters, At, Joining, Claim, Go
  <2>2. Claim(job[r]) \in Claims
    BY <2>1 DEF Claims
  <2>3. job \in [Requests -> Jobs]
    BY DEF CatalogInv, CatalogTypeOK
  <2>4. ASSUME NEW q \in Requests, Joining(job[q])'
        PROVE  Joining(job[q]) /\ Claim(job[q])' = Claim(job[q])
    <3>1. q # r
      BY <2>1, <2>3, <2>4 DEF Joining, Jobs
    <3>2. job'[q] = job[q]
      BY <2>1, <2>3, <3>1
    <3>. QED  BY <2>4, <3>2 DEF Joining, Claim
  <2>. QED  BY <2>1, <2>2, <2>4 DEF Claims, NoMore
<1>9. ASSUME RoomEnds PROVE NoMore
  BY <1>9 DEF RoomEnds, Claims, NoMore
<1>10. ASSUME UNCHANGED vars PROVE NoMore
  BY <1>10 DEF vars, Claims, NoMore
<1>11. ASSUME Crash PROVE NoMore
  <2>1. rooms' = {} /\ \A q \in Requests : ~Joining(job[q])'
    BY <1>11, IdleJob DEF Crash, Joining
  <2>. QED  BY <2>1 DEF Claims, NoMore
<1>12. ASSUME NEW r \in Requests, NEW g \in GameIds, NEW stage \in {"disk", "load"},
              ReadCurrent(r, g, stage)
       PROVE  ClaimsHold'
  BY <1>12, ReadsClaim
<1>13. NoMore => ClaimsHold'
  BY OldClaims DEF NoMore
<1>. QED
  BY <1>1, <1>2, <1>3, <1>4, <1>5, <1>6, <1>7, <1>8, <1>9, <1>10, <1>11, <1>12, <1>13
  DEF Next, Arrive, Rows, Serve

-----------------------------------------------------------------------------
(* Theorems                                                                *)

\* The invariant holds along every behavior of the catalog (api.rs, db.rs, bundle.rs).
THEOREM CatalogInvariance == Spec => []CatalogInv
<1>1. CatalogInv /\ [Next]_vars => CatalogInv'
  BY NextTypes, NextRows, NextJobs, NextClaims DEF CatalogInv, JobsStayOK
<1>. QED  BY InitCatalog, <1>1, PTL DEF Spec

\* Every variable of the catalog stays in its range, for any number of requests and games.
THEOREM CatalogTypeCorrect == Spec => []CatalogTypeOK
<1>1. CatalogInv => CatalogTypeOK
  BY DEF CatalogInv
<1>. QED  BY CatalogInvariance, <1>1, PTL

\* Two rooms of one game and version run one world, also when versions were added or the
\* game was deleted between the read of join_game and the start of its room.
THEOREM RoomsShareTheirWorld == Spec => []SameVersionSameWorld
<1>1. CatalogInv => SameVersionSameWorld
  BY DEF CatalogInv, ClaimsHold, Claims, SameVersionSameWorld
<1>. QED  BY CatalogInvariance, <1>1, PTL

\* The catalog implements the ledger: locks, files, dropped requests and restarts can not
\* be seen in the versions of a game, which grow at the end until the game is deleted.
THEOREM CatalogIsALedger == Spec => ImplementsLedger
<1>1. CatalogInv /\ [Next]_vars => [L!Next]_<<versions, Gone>>
  BY NextLedger
<1>. QED  BY CatalogInvariance, InitLedger, <1>1, PTL DEF Spec, ImplementsLedger, L!Spec

-----------------------------------------------------------------------------
(* Bundles on disk, but for those that two requests wrote at a time        *)

Writing(j) == j.at \in {"write", "rename"}

JobDisk(j) ==
    j.upload \notin raced =>
        /\ j.at = "write" => staging[j.upload] \union j.left = j.upload.files
        /\ j.at = "rename" => staging[j.upload] = j.upload.files
        /\ j.at \in {"rows", "version"} => stored[j.upload] = j.upload.files

WritersApart ==
    \A q, r \in Requests :
        q # r /\ Writing(job[q]) /\ Writing(job[r]) /\ job[q].upload = job[r].upload
            => job[q].upload \in raced

JobsDisk == \A r \in Requests : JobDisk(job[r])

Whole(u) == u \notin raced => stored[u] = u.files

RecordedWhole ==
    \A g \in GameIds : \A v \in DOMAIN versions[g] : Whole(versions[g][v])

DiskInv == StoredIsComplete /\ JobsDisk /\ WritersApart /\ RecordedWhole

LEMMA InitDisk == Init => DiskInv
<1> SUFFICES ASSUME Init PROVE DiskInv
  OBVIOUS
<1>1. \A r \in Requests : job[r].at = "idle"
  BY DEF Init, Idle
<1>. QED
  BY <1>1 DEF Init, DiskInv, StoredIsComplete, JobsDisk, JobDisk, WritersApart, Writing, RecordedWhole, Whole

\* A request goes on without touching the disk.
LEMMA DiskKept ==
    ASSUME CatalogInv, DiskInv, UNCHANGED disk, NEW r \in Requests, NEW j,
           job' = [job EXCEPT ![r] = j], JobDisk(j),
           Writing(j) => Writing(job[r]) /\ j.upload = job[r].upload
    PROVE  StoredIsComplete' /\ JobsDisk' /\ WritersApart'
<1>1. job \in [Requests -> Jobs]
  BY DEF CatalogInv, CatalogTypeOK
<1>2. job'[r] = j /\ \A q \in Requests \ {r} : job'[q] = job[q]
  BY <1>1
<1>3. stored' = stored /\ staging' = staging /\ raced' = raced
  BY DEF disk
<1>4. ASSUME NEW q \in Requests PROVE JobDisk(job[q])'
  <2>1. CASE q = r
    BY <1>2, <1>3, <2>1 DEF JobDisk
  <2>2. CASE q # r
    BY <1>2, <1>3, <2>2 DEF JobDisk, DiskInv, JobsDisk
  <2>. QED  BY <2>1, <2>2
<1>5. WritersApart'
  <2>1. \A q \in Requests : Writing(job[q])' =>
            Writing(job[q]) /\ job'[q].upload = job[q].upload
    BY <1>2 DEF Writing
  <2>. QED  BY <1>3, <2>1 DEF WritersApart, DiskInv
<1>. QED  BY <1>3, <1>4, <1>5 DEF DiskInv, StoredIsComplete, JobsDisk

LEMMA DiskEnded ==
    ASSUME CatalogInv, DiskInv, UNCHANGED disk, NEW r \in Requests, Ends(r)
    PROVE  StoredIsComplete' /\ JobsDisk' /\ WritersApart'
<1>1. JobDisk(Idle) /\ ~Writing(Idle)
  BY DEF JobDisk, Writing, Idle
<1>. QED  BY <1>1, DiskKept DEF Ends

\* The versions of all games, as a set.
LEMMA RecordedStays ==
    ASSUME CatalogInv, DiskInv, [Next]_vars, UNCHANGED <<stored, raced>>
    PROVE  RecordedWhole'
<1>0. \A u : Whole(u)' <=> Whole(u)
  BY DEF Whole
<1>1. CASE UNCHANGED versions
  BY <1>0, <1>1 DEF RecordedWhole, DiskInv
<1>2. ASSUME NEW r \in Requests, AddVersion(r) PROVE RecordedWhole'
  <2>. DEFINE g == job[r].game
              u == job[r].upload
  <2>1. g \in GameIds /\ u \in Valid /\ Whole(u)
    BY <1>2, AddedToAGame DEF AddVersion, At, DiskInv, JobsDisk, JobDisk, Whole
  <2>2. CASE Recorded(g, u)
    <3>1. versions' = [versions EXCEPT ![g] = Append(@, u)]
      BY <2>1, <2>2, RecordedAppends DEF CatalogInv
    <3>2. ASSUME NEW h \in GameIds, NEW v \in DOMAIN versions'[h]
          PROVE  Whole(versions'[h][v])
      <4>1. CASE h # g
        BY <3>1, <3>2, <4>1, <2>1 DEF CatalogInv, CatalogTypeOK, DiskInv, RecordedWhole
      <4>2. CASE h = g
        <5>1. versions[g] \in Seq(Valid) /\ versions'[h] = Append(versions[g], u)
          BY <3>1, <4>2, <2>1 DEF CatalogInv, CatalogTypeOK
        <5>2. versions'[h][v] = u \/ (v \in DOMAIN versions[g] /\ versions'[h][v] = versions[g][v])
          BY <5>1, <3>2, <2>1
        <5>. QED  BY <5>2, <2>1 DEF DiskInv, RecordedWhole
      <4>. QED  BY <4>1, <4>2
    <3>. QED  BY <1>0, <3>2 DEF RecordedWhole
  <2>. QED  BY <1>1, <1>2, <2>2 DEF AddVersion
<1>3. ASSUME NEW r \in Requests, DeleteGame(r) PROVE RecordedWhole'
  <2>1. job[r].game \in GameIds
    BY <1>3, DeletedGame
  <2>2. \A h \in GameIds : versions'[h] = versions[h] \/ versions'[h] = <<>>
    BY <1>3, <2>1 DEF DeleteGame, Cascade, CatalogInv, CatalogTypeOK
  <2>3. DOMAIN <<>> = {}
    OBVIOUS
  <2>. QED  BY <1>0, <2>2, <2>3 DEF RecordedWhole, DiskInv
<1>4. ASSUME NEW r \in Requests, InsertGame(r) PROVE UNCHANGED versions
  BY <1>4 DEF InsertGame
<1>. QED  BY <1>1, <1>2, <1>3, <1>4, StepKinds DEF Quiet

\* A bundle that looks complete is, if no two uploads of it have raced.
LEMMA LooksWhole ==
    ASSUME DiskInv, NEW u \in Uploads \ raced, LooksComplete(u)
    PROVE  stored[u] = u.files
BY DEF DiskInv, StoredIsComplete, LooksComplete

\* A request writes to the staging directory of its bundle; that another one does so, too,
\* is noted.
LEMMA DiskWritten ==
    ASSUME CatalogInv, DiskInv, NEW r \in Requests, NEW j \in Jobs,
           job[r].upload \in Uploads, NEW content,
           job' = [job EXCEPT ![r] = j], j.upload = job[r].upload,
           staging' = [staging EXCEPT ![j.upload] = content],
           raced \subseteq raced',
           \A q \in Requests \ {r} :
               Writing(job[q]) /\ job[q].upload = j.upload => j.upload \in raced',
           \A u \in Uploads \ raced' : stored'[u] \in {stored[u], u.files},
           j.upload \notin raced' =>
               /\ (j.at = "write" => content \union j.left = j.upload.files)
               /\ (j.at = "rename" => content = j.upload.files)
               /\ (j.at \in {"rows", "version"} => stored'[j.upload] = j.upload.files)
    PROVE  StoredIsComplete' /\ JobsDisk' /\ WritersApart'
<1>1. job \in [Requests -> Jobs] /\ staging \in [Uploads -> SUBSET Files]
  BY DEF CatalogInv, CatalogTypeOK, Files
<1>2. job'[r] = j /\ \A q \in Requests \ {r} : job'[q] = job[q]
  BY <1>1
<1>3. staging'[j.upload] = content /\ \A u \in Uploads \ {j.upload} : staging'[u] = staging[u]
  BY <1>1
<1>4. StoredIsComplete'
  BY DEF DiskInv, StoredIsComplete
<1>5. ASSUME NEW q \in Requests PROVE JobDisk(job[q])'
  <2>1. CASE q = r
    BY <1>2, <1>3, <2>1 DEF JobDisk
  <2>2. CASE q # r
    <3> SUFFICES ASSUME job[q].upload \notin raced' PROVE JobDisk(job[q])'
      BY <1>2, <2>2 DEF JobDisk
    <3>1. job'[q] = job[q] /\ JobDisk(job[q]) /\ job[q].upload \notin raced
      BY <1>2, <2>2 DEF DiskInv, JobsDisk
    <3>2. job[q].at \in {"write", "rename", "rows", "version"} => job[q].upload \in Uploads
      BY ValidUploads DEF CatalogInv, JobsOK, JobOK, HasUpload, Storing
    <3>3. Writing(job[q]) => staging'[job[q].upload] = staging[job[q].upload]
      BY <1>3, <2>2, <3>2 DEF Writing
    <3>4. job[q].at \in {"rows", "version"} => stored'[job[q].upload] = job[q].upload.files
      BY <3>1, <3>2 DEF JobDisk
    <3>. QED  BY <3>1, <3>3, <3>4 DEF JobDisk, Writing
  <2>. QED  BY <2>1, <2>2
<1>6. WritersApart'
  <2>1. \A q \in Requests \ {r} : Writing(job[q])' =>
            /\ Writing(job[q]) /\ job'[q].upload = job[q].upload
            /\ job'[q].upload = job'[r].upload => job'[q].upload \in raced'
    BY <1>2 DEF Writing
  <2>. QED  BY <2>1 DEF WritersApart, DiskInv
<1>. QED  BY <1>4, <1>5, <1>6 DEF JobsDisk

LEMMA NextStore ==
    ASSUME CatalogInv, DiskInv, NEW r \in Requests, Store(r)
    PROVE  StoredIsComplete' /\ JobsDisk' /\ WritersApart'
<1>. DEFINE u == job[r].upload
<1>a. job[r] \in Jobs /\ JobDisk(job[r])
  BY DEF CatalogInv, CatalogTypeOK, DiskInv, JobsDisk
<1>b. job[r].at \in Storing => u \in Valid /\ u \in Uploads /\ u.files # {}
  BY ValidUploads DEF CatalogInv, JobsOK, JobOK, HasUpload, Valid, Validate
<1>1. ASSUME StoreLooks(r) \/ StoreRechecks(r) PROVE StoredIsComplete' /\ JobsDisk' /\ WritersApart'
  <2>1. UNCHANGED disk /\ job[r].at \in Storing
    BY <1>1 DEF StoreLooks, StoreRechecks, At, Storing
  <2>2. PICK stage \in {"rows", "clear"} :
            (Go(r, stage) \/ Ends(r)) /\ (stage = "rows" => LooksComplete(u))
    BY <1>1 DEF StoreLooks, StoreRechecks
  <2>3. CASE Ends(r)
    BY <2>1, <2>3, DiskEnded
  <2>4. CASE Go(r, stage)
    <3>. DEFINE j == [job[r] EXCEPT !.at = stage]
    <3>1. j.at = stage /\ j.upload = u
      BY <1>a DEF Jobs
    <3>2. JobDisk(j) /\ ~Writing(j)
      BY <1>b, <2>1, <2>2, <3>1, LooksWhole DEF JobDisk, Writing
    <3>3. job' = [job EXCEPT ![r] = j]
      BY <2>4 DEF Go
    <3>. HIDE DEF j
    <3>. QED  BY <2>1, <3>2, <3>3, DiskKept
  <2>. QED  BY <2>2, <2>3, <2>4
<1>2. ASSUME StoreFails(r) PROVE StoredIsComplete' /\ JobsDisk' /\ WritersApart'
  BY <1>2, DiskEnded DEF StoreFails
<1>3. ASSUME StoreClears(r) PROVE StoredIsComplete' /\ JobsDisk' /\ WritersApart'
  <2>. DEFINE j == [job[r] EXCEPT !.at = "write", !.left = u.files]
  <2>1. u \in Uploads
    BY <1>3, <1>b DEF StoreClears, At, Storing
  <2>2. j \in Jobs /\ j.upload = u /\ j.at = "write" /\ j.left = u.files
    BY <1>a, <2>1 DEF Jobs, Stages
  <2>3. /\ job' = [job EXCEPT ![r] = j] /\ stored' = stored
        /\ staging' = [staging EXCEPT ![u] = {}]
    BY <1>3 DEF StoreClears
  <2>4. /\ raced \subseteq raced'
        /\ \A q \in Requests \ {r} : Writing(job[q]) /\ job[q].upload = u => u \in raced'
    BY <1>3 DEF StoreClears, Rivals, Writing
  <2>. DEFINE content == {}
  <2>5. staging' = [staging EXCEPT ![j.upload] = content]
    BY <2>2, <2>3
  <2>6. \A q \in Requests \ {r} :
            Writing(job[q]) /\ job[q].upload = j.upload => j.upload \in raced'
    BY <2>2, <2>4
  <2>7. \A w \in Uploads \ raced' : stored'[w] \in {stored[w], w.files}
    BY <2>3
  <2>8. j.at = "write" /\ content \union j.left = j.upload.files
    BY <2>2
  <2>9. job' = [job EXCEPT ![r] = j] /\ j \in Jobs /\ j.upload = job[r].upload
    BY <2>2, <2>3
  <2>. HIDE DEF j, content
  <2>. QED  BY <2>1, <2>4, <2>5, <2>6, <2>7, <2>8, <2>9, DiskWritten
<1>4. ASSUME StoreWrites(r) PROVE StoredIsComplete' /\ JobsDisk' /\ WritersApart'
  <2>1. PICK p \in FirstOf(job[r].left) :
            /\ Written(u, p)
            /\ job' = [job EXCEPT ![r].left = @ \ {p},
                                  ![r].at = IF job[r].left = {p} THEN "rename" ELSE "write"]
    BY <1>4 DEF StoreWrites
  <2>. DEFINE j == [job[r] EXCEPT !.left = @ \ {p},
                                  !.at = IF job[r].left = {p} THEN "rename" ELSE "write"]
              content == staging[u] \union {p}
  <2>2. u \in Uploads /\ Writing(job[r])
    BY <1>4, <1>b DEF StoreWrites, At, Storing, Writing
  <2>3. /\ j \in Jobs /\ j.upload = u /\ j.left = job[r].left \ {p}
        /\ j.at = IF job[r].left = {p} THEN "rename" ELSE "write"
    BY <1>a DEF Jobs, Stages
  <2>4. /\ job' = [job EXCEPT ![r] = j] /\ stored' = stored /\ raced' = raced
        /\ staging' = [staging EXCEPT ![u] = content]
    BY <1>4, <2>1 DEF Written, StoreWrites
  <2>5. (u \notin raced => staging[u] \union job[r].left = u.files) /\ p \in job[r].left
    BY <1>a, <1>4, <2>1 DEF StoreWrites, At, JobDisk, FirstOf
  <2>6. u \notin raced =>
            /\ (j.at = "write" => content \union j.left = u.files)
            /\ (j.at = "rename" => content = u.files)
    BY <2>3, <2>5
  <2>7. j.at \notin {"rows", "version"}
    BY <2>3
  <2>8. \A q \in Requests \ {r} : Writing(job[q]) /\ job[q].upload = u => u \in raced
    BY <2>2 DEF DiskInv, WritersApart
  <2>9. /\ staging' = [staging EXCEPT ![j.upload] = content]
        /\ raced \subseteq raced'
        /\ \A q \in Requests \ {r} :
               Writing(job[q]) /\ job[q].upload = j.upload => j.upload \in raced'
    BY <2>3, <2>4, <2>8
  <2>12. j.upload \notin raced' =>
             /\ (j.at = "write" => content \union j.left = j.upload.files)
             /\ (j.at = "rename" => content = j.upload.files)
    <3>. HIDE DEF content
    <3>. QED  BY <2>3, <2>4, <2>6
  <2>10. \A w \in Uploads \ raced' : stored'[w] \in {stored[w], w.files}
    BY <2>4
  <2>11. job' = [job EXCEPT ![r] = j] /\ j \in Jobs /\ j.upload = job[r].upload
    BY <2>3, <2>4
  <2>. HIDE DEF j, content
  <2>. QED  BY <2>2, <2>7, <2>9, <2>10, <2>11, <2>12, DiskWritten
<1>5. ASSUME StoreRenames(r) \/ RenameLost(r) PROVE StoredIsComplete' /\ JobsDisk' /\ WritersApart'
  <2>1. /\ u \in Uploads /\ Writing(job[r]) /\ raced' = raced
        /\ u \notin raced => staging[u] = u.files /\ u.files # {}
    BY <1>5, <1>a, <1>b DEF StoreRenames, RenameLost, At, Storing, Writing, JobDisk
  <2>2. PICK stage \in {"rows", "recheck"} : Go(r, stage) /\ (stage = "rows" => StoreRenames(r))
    BY <1>5 DEF StoreRenames, RenameLost
  <2>. DEFINE j == [job[r] EXCEPT !.at = stage]
  <2>3. j \in Jobs /\ j.upload = u /\ j.at = stage
    BY <1>a DEF Jobs, Stages
  <2>4. job' = [job EXCEPT ![r] = j] /\ staging' = [staging EXCEPT ![u] = {}]
    BY <1>5, <2>2 DEF Go, StoreRenames, RenameLost
  <2>5. stored \in [Uploads -> SUBSET Files]
    BY DEF CatalogInv, CatalogTypeOK, Files
  <2>6. \A w \in Uploads \ raced' : stored'[w] \in {stored[w], w.files}
    BY <1>5, <2>1, <2>5 DEF StoreRenames, RenameLost
  <2>7. u \notin raced /\ j.at \in {"rows", "version"} => stored'[u] = u.files
    BY <2>1, <2>2, <2>3, <2>5 DEF StoreRenames
  <2>8. \A q \in Requests \ {r} : Writing(job[q]) /\ job[q].upload = u => u \in raced
    BY <2>1 DEF DiskInv, WritersApart
  <2>9. j.at \notin {"write", "rename"}
    BY <2>3
  <2>. DEFINE content == {}
  <2>10. /\ staging' = [staging EXCEPT ![j.upload] = content]
         /\ raced \subseteq raced'
         /\ \A q \in Requests \ {r} :
                Writing(job[q]) /\ job[q].upload = j.upload => j.upload \in raced'
         /\ j.upload \notin raced' /\ j.at \in {"rows", "version"}
                => stored'[j.upload] = j.upload.files
    BY <2>1, <2>3, <2>4, <2>7, <2>8
  <2>11. job' = [job EXCEPT ![r] = j] /\ j \in Jobs /\ j.upload = job[r].upload
    BY <2>3, <2>4
  <2>. HIDE DEF j, content
  <2>. QED  BY <2>1, <2>6, <2>9, <2>10, <2>11, DiskWritten
<1>. QED  BY <1>1, <1>2, <1>3, <1>4, <1>5 DEF Store

\* What the store has recorded stays whole when a bundle is put in place.
LEMMA RecordedGrows ==
    ASSUME CatalogInv, DiskInv, UNCHANGED versions,
           raced \subseteq raced', \A u \in Uploads \ raced' : stored'[u] \in {stored[u], u.files}
    PROVE  RecordedWhole'
<1>1. \A g \in GameIds : \A v \in DOMAIN versions[g] : versions[g][v] \in Uploads
  BY ValidUploads DEF CatalogInv, CatalogTypeOK
<1>2. \A u \in Uploads : Whole(u) => Whole(u)'
  BY DEF Whole
<1>. QED  BY <1>1, <1>2 DEF RecordedWhole, DiskInv

LEMMA ArrivesKeepDisk ==
    ASSUME CatalogInv, DiskInv, NEW r \in Requests, Arrive(r)
    PROVE  StoredIsComplete' /\ JobsDisk' /\ WritersApart' /\ UNCHANGED <<stored, raced>>
<1>1. UNCHANGED disk
  BY DEF Arrive, PublishArrives, RepublishArrives, ChangeArrives, ReadCurrent
<1>2. PICK j : job' = [job EXCEPT ![r] = j] /\ j.at \in {"look", "patch", "delete", "disk", "load"}
  <2>1. ASSUME NEW u \in Uploads, PublishArrives(r, u)
        PROVE  \E j : job' = [job EXCEPT ![r] = j] /\ j.at = "look"
    <3>. DEFINE j == [Idle EXCEPT !.at = "look", !.new = TRUE, !.upload = u]
    <3>1. job' = [job EXCEPT ![r] = j] /\ j.at = "look"
      BY <2>1 DEF PublishArrives, Idle
    <3>. HIDE DEF j
    <3>. QED  BY <3>1
  <2>2. ASSUME NEW g \in GameIds, NEW u \in Uploads, RepublishArrives(r, g, u)
        PROVE  \E j : job' = [job EXCEPT ![r] = j] /\ j.at = "look"
    <3>. DEFINE j == [Idle EXCEPT !.at = "look", !.game = g, !.upload = u]
    <3>1. job' = [job EXCEPT ![r] = j] /\ j.at = "look"
      BY <2>2 DEF RepublishArrives, Idle
    <3>. HIDE DEF j
    <3>. QED  BY <3>1
  <2>3. ASSUME NEW g \in GameIds, NEW change \in {"patch", "delete"}, ChangeArrives(r, g, change)
        PROVE  \E j : job' = [job EXCEPT ![r] = j] /\ j.at = change
    <3>. DEFINE j == [Idle EXCEPT !.at = change, !.game = g]
    <3>1. job' = [job EXCEPT ![r] = j] /\ j.at = change
      BY <2>3 DEF ChangeArrives, Idle
    <3>. HIDE DEF j
    <3>. QED  BY <3>1
  <2>4. ASSUME NEW g \in GameIds, NEW stage \in {"disk", "load"}, ReadCurrent(r, g, stage)
        PROVE  \E j : job' = [job EXCEPT ![r] = j] /\ j.at = stage
    <3>. DEFINE j == [Idle EXCEPT !.at = stage, !.game = g, !.version = current[g],
                                  !.upload = versions[g][current[g]]]
    <3>1. job' = [job EXCEPT ![r] = j] /\ j.at = stage
      BY <2>4 DEF ReadCurrent, Served, Idle
    <3>. HIDE DEF j
    <3>. QED  BY <3>1
  <2>. QED  BY <2>1, <2>2, <2>3, <2>4 DEF Arrive
<1>3. JobDisk(j) /\ ~Writing(j)
  BY <1>2 DEF JobDisk, Writing
<1>. QED  BY <1>1, <1>2, <1>3, DiskKept DEF disk

LEMMA NextDisk == CatalogInv /\ DiskInv /\ [Next]_vars => DiskInv'
<1> SUFFICES ASSUME CatalogInv, DiskInv, [Next]_vars PROVE DiskInv'
  OBVIOUS
<1>. DEFINE Kept == StoredIsComplete' /\ JobsDisk' /\ WritersApart'
<1>a. \A r \in Requests : job[r] \in Jobs /\ JobDisk(job[r])
  BY DEF CatalogInv, CatalogTypeOK, DiskInv, JobsDisk
<1>1. ASSUME NEW r \in Requests, Arrive(r) PROVE Kept /\ UNCHANGED <<stored, raced>>
  BY <1>1, ArrivesKeepDisk
<1>2. ASSUME NEW r \in Requests, Store(r)
      PROVE  /\ Kept /\ raced \subseteq raced'
             /\ \A u \in Uploads \ raced' : stored'[u] \in {stored[u], u.files}
  <2>1. ASSUME StoreRenames(r)
        PROVE  \A u \in Uploads \ raced' : stored'[u] \in {stored[u], u.files}
    <3>1. job[r].upload \notin raced => staging[job[r].upload] = job[r].upload.files
      BY <1>a, <2>1 DEF StoreRenames, At, JobDisk
    <3>. QED  BY <2>1, <3>1 DEF StoreRenames, CatalogInv, CatalogTypeOK
  <2>3. raced \subseteq raced'
    BY <1>2 DEF Store, StoreLooks, StoreClears, StoreWrites, StoreFails, StoreRenames, RenameLost,
                StoreRechecks, disk
  <2>2. StoreRenames(r) \/ UNCHANGED stored
    BY <1>2 DEF Store, StoreLooks, StoreClears, StoreWrites, Written, StoreFails, RenameLost,
                StoreRechecks, disk
  <2>. QED  BY <1>2, <2>1, <2>2, <2>3, NextStore
<1>3. ASSUME NEW r \in Requests, InsertGame(r) PROVE Kept /\ UNCHANGED <<stored, raced>>
  <2>1. PICK g \in FreshIds : job' = [job EXCEPT ![r].game = g, ![r].at = "version"]
    BY <1>3 DEF InsertGame
  <2>. DEFINE j == [job[r] EXCEPT !.game = g, !.at = "version"]
  <2>2. j.at = "version" /\ j.upload = job[r].upload
    BY <1>a DEF Jobs
  <2>3. job[r].upload \notin raced => stored[job[r].upload] = job[r].upload.files
    BY <1>3, <1>a DEF InsertGame, At, JobDisk
  <2>4. JobDisk(j) /\ ~Writing(j)
    BY <2>2, <2>3 DEF JobDisk, Writing
  <2>5. job' = [job EXCEPT ![r] = j] /\ UNCHANGED disk
    BY <1>3, <2>1 DEF InsertGame, disk
  <2>. HIDE DEF j
  <2>. QED  BY <2>4, <2>5, DiskKept DEF disk
<1>4. ASSUME NEW r \in Requests,
             \/ AddVersion(r) \/ AddVersionFails(r) \/ PatchGame(r) \/ DeleteGame(r)
             \/ JoinRefused(r) \/ JoinCounts(r) \/ GetBundle(r) \/ HungUp(r)
      PROVE  Kept /\ UNCHANGED <<stored, raced>>
  <2>1. Ends(r) /\ UNCHANGED disk
    BY <1>4 DEF AddVersion, AddVersionFails, PatchGame, DeleteGame, JoinRefused, JoinCounts,
                GetBundle, HungUp, disk
  <2>. QED  BY <2>1, DiskEnded DEF disk
<1>5. ASSUME NEW r \in Requests, JoinChecks(r) \/ JoinEnters(r) PROVE Kept /\ UNCHANGED <<stored, raced>>
  <2>1. UNCHANGED disk
    BY <1>5 DEF JoinChecks, JoinEnters, disk
  <2>2. PICK stage \in {"room", "count"} : Go(r, stage) \/ Ends(r)
    BY <1>5 DEF JoinChecks, JoinEnters
  <2>. DEFINE j == [job[r] EXCEPT !.at = stage]
  <2>3. JobDisk(j) /\ ~Writing(j)
    BY <1>a DEF JobDisk, Writing, Jobs
  <2>4. CASE job' = [job EXCEPT ![r] = j]
    <3>. HIDE DEF j
    <3>. QED  BY <2>1, <2>3, <2>4, DiskKept DEF disk
  <2>5. CASE Ends(r)
    BY <2>1, <2>5, DiskEnded DEF disk
  <2>. QED  BY <2>2, <2>4, <2>5 DEF Go
<1>6. ASSUME RoomEnds \/ UNCHANGED vars PROVE Kept /\ UNCHANGED <<stored, raced>>
  BY <1>6 DEF RoomEnds, vars, disk, DiskInv, StoredIsComplete, JobsDisk, JobDisk, WritersApart, Writing
<1>7. ASSUME Crash PROVE Kept /\ UNCHANGED <<stored, raced>>
  <2>1. /\ stored' = stored /\ staging' = staging /\ raced' = raced
        /\ \A r \in Requests : job'[r].at = "idle"
    BY <1>7 DEF Crash, disk, Idle
  <2>. QED  BY <2>1 DEF DiskInv, StoredIsComplete, JobsDisk, JobDisk, WritersApart, Writing
<1>8. Kept /\ (UNCHANGED <<stored, raced>> \/ \E r \in Requests : Store(r))
  <2>. HIDE DEF Kept
  <2>. QED  BY <1>1, <1>2, <1>3, <1>4, <1>5, <1>6, <1>7 DEF Next, Rows, Serve
<1>9. ASSUME NEW r \in Requests, Store(r) PROVE RecordedWhole'
  <2>1. UNCHANGED versions
    BY <1>9 DEF Store, StoreLooks, StoreClears, StoreWrites, StoreFails, StoreRenames, RenameLost,
                StoreRechecks, tables
  <2>. QED  BY <1>2, <1>9, <2>1, RecordedGrows
<1>10. RecordedWhole'
  BY <1>8, <1>9, RecordedStays
<1>. QED  BY <1>8, <1>10 DEF DiskInv

LEMMA DiskInvariance ==
    Spec => [](CatalogInv /\ DiskInv)
<1>1. CatalogInv /\ DiskInv /\ [Next]_vars => DiskInv'
  BY NextDisk
<1>. QED  BY CatalogInvariance, InitDisk, <1>1, PTL DEF Spec

\* A bundle's directory is whole or absent (bundle::store), through failing writes, dropped
\* requests, restarts and whatever uploads of other bundles do; the only bundles it may not
\* hold for are those whose staging directory one upload cleared while another was using it.
THEOREM BundlesAreWhole ==
    Spec => []StoredIsComplete
<1>1. DiskInv => StoredIsComplete
  BY DEF DiskInv
<1>. QED  BY DiskInvariance, <1>1, PTL

\* But for these bundles, whatever version the catalog lists has its scene, and every file
\* the scene names, on disk (publish, republish, join_game).
THEOREM ListedGamesArePlayable ==
    Spec => []VersionsArePlayable
<1>1. CatalogInv /\ DiskInv => VersionsArePlayable
  <2> SUFFICES ASSUME CatalogInv, DiskInv PROVE VersionsArePlayable
    OBVIOUS
  <2>1. WorldsAreThere
    <3>1. \A g \in GameIds : \A v \in DOMAIN versions[g] : versions[g][v] \in Valid
      BY DEF CatalogInv, CatalogTypeOK
    <3>2. \A u \in Valid : {ENTRY_SCENE} \union u.refs \subseteq u.files
      BY DEF Valid, Validate
    <3>. QED  BY <3>1, <3>2 DEF WorldsAreThere, DiskInv, RecordedWhole, Whole
  <2>2. \A g \in Listed : current[g] \in DOMAIN versions[g]
    BY DEF Listed, Exists, CatalogInv, CatalogTypeOK, RowsAgree
  <2>. QED  BY <2>1, <2>2 DEF VersionsArePlayable, CatalogInv
<1>. QED  BY DiskInvariance, <1>1, PTL

-----------------------------------------------------------------------------
(***************************************************************************)
(* The browsers' side: the steps of Publisher are steps of Catalog, so all *)
(* that is proved above holds of the composition, and the keys of          *)
(* published games are kept.                                               *)
(*                                                                         *)
(* KeysAreKept counts games.  The invariant says which: a game of this     *)
(* browser has its key in local storage, or a tab is due to hear of it, or *)
(* it is lost, and there are no more lost games than mishaps (Accounts).   *)
(* That an answer really brings the key of the game that was made needs    *)
(* that publish() holds the lock from one row to the other (LockInv).      *)
(***************************************************************************)

\* Where the handler of an upload may stand.
Kept == Storing \union {"rows", "version"}

\* publish() has inserted its game and still holds the lock: nobody can delete it.
Locked(r) == dbHolder = r /\ job[r].new /\ job[r].game \in GameIds /\ Exists(job[r].game)
LockInv == \A r \in Requests : job[r].at = "version" => Locked(r)

Pending(t) == fetch[t].request # Free
JobOf(t) == job[fetch[t].request]

Fetches == [state: 0..3, request: Requests \union {Free}, ok: BOOLEAN,
            game: GameIds \union {NoGame}, key: BOOLEAN]

\* A request under way is an upload; an update is one of a game whose key is held.
PendingOK(t) == Pending(t) =>
    /\ fetch[t].state = 1 /\ ~fetch[t].ok /\ ~fetch[t].key
    /\ fetch[t].request \in Requests /\ JobOf(t).at \in Kept
    /\ ~JobOf(t).new => JobOf(t).game \in store.keys
\* Two tabs do not wait for one request.
OwnRequests ==
    \A s, t \in Tabs : Pending(s) /\ fetch[s].request = fetch[t].request => s = t
AnswerOK(t) ==
    /\ fetch[t].key => fetch[t].state = 2 /\ fetch[t].ok /\ fetch[t].game \in issued
    /\ fetch[t].ok /\ ~fetch[t].key => fetch[t].game \in store.keys

KeysOK == store.keys \subseteq issued /\ (store.keys # {} => store.last \in store.keys)

ClientInv ==
    /\ store \in [last: GameIds \union {NoGame}, keys: SUBSET GameIds]
    /\ fetch \in [Tabs -> Fetches]
    /\ KeysOK /\ OwnRequests
    /\ \A t \in Tabs : PendingOK(t) /\ AnswerOK(t)

-----------------------------------------------------------------------------
(* What a step of a handler does to the jobs                               *)

OthersStay(r) == \A q \in Requests : q # r => job'[q] = job[q]
Goes(r, stage) ==
    job'[r].at = stage /\ job'[r].new = job[r].new /\ job'[r].game = job[r].game

LEMMA EndsJob == ASSUME CatalogInv, NEW r \in Requests, Ends(r) PROVE OthersStay(r) /\ job'[r] = Idle
BY DEF CatalogInv, CatalogTypeOK, Ends, OthersStay

LEMMA GoesOn ==
    ASSUME CatalogInv, NEW r \in Requests, NEW stage, Go(r, stage)
    PROVE  OthersStay(r) /\ Goes(r, stage)
BY DEF CatalogInv, CatalogTypeOK, Go, OthersStay, Goes, Jobs

LEMMA ArriveGoes ==
    ASSUME CatalogInv, NEW r \in Requests, Arrive(r)
    PROVE  /\ OthersStay(r) /\ job[r].at = "idle"
           /\ job'[r].at \in {"look", "patch", "delete", "disk", "load"}
           /\ UNCHANGED <<tables, dbHolder, issued, mishaps>>
<1>t. job \in [Requests -> Jobs]
  BY DEF CatalogInv, CatalogTypeOK
<1>1. ASSUME NEW u \in Uploads, PublishArrives(r, u) PROVE OthersStay(r) /\ job'[r].at = "look"
  BY <1>1, <1>t DEF PublishArrives, OthersStay, Idle
<1>2. ASSUME NEW g \in GameIds, NEW u \in Uploads, RepublishArrives(r, g, u)
      PROVE  OthersStay(r) /\ job'[r].at = "look"
  BY <1>2, <1>t DEF RepublishArrives, OthersStay, Idle
<1>3. ASSUME NEW g \in GameIds, NEW change, ChangeArrives(r, g, change)
      PROVE  OthersStay(r) /\ job'[r].at = change
  BY <1>3, <1>t DEF ChangeArrives, OthersStay, Idle
<1>4. ASSUME NEW g \in GameIds, NEW stage, ReadCurrent(r, g, stage)
      PROVE  OthersStay(r) /\ job'[r].at = stage
  BY <1>4, <1>t DEF ReadCurrent, OthersStay, Idle
<1>5. job[r].at = "idle" /\ UNCHANGED <<tables, dbHolder, issued, mishaps>>
  BY DEF Arrive, PublishArrives, RepublishArrives, ChangeArrives, ReadCurrent, At
<1>. QED  BY <1>1, <1>2, <1>3, <1>4, <1>5 DEF Arrive

LEMMA StoreGoes ==
    ASSUME CatalogInv, NEW r \in Requests, Store(r)
    PROVE  /\ OthersStay(r) /\ job[r].at \in Storing
           /\ UNCHANGED <<tables, dbHolder, issued>>
           /\ \/ job'[r] = Idle /\ mishaps' \in {mishaps, mishaps + 1}
              \/ (\E stage \in Storing \union {"rows"} : Goes(r, stage)) /\ mishaps' = mishaps
<1>t. job \in [Requests -> Jobs]
  BY DEF CatalogInv, CatalogTypeOK
<1>1. job[r].at \in Storing
  BY DEF Store, StoreLooks, StoreClears, StoreWrites, StoreFails, StoreRenames, RenameLost,
         StoreRechecks, At, Storing
<1>2. UNCHANGED <<tables, dbHolder, issued>>
  BY DEF Store, StoreLooks, StoreClears, StoreWrites, StoreFails, StoreRenames, RenameLost,
         StoreRechecks
<1>3. CASE StoreLooks(r) \/ RenameLost(r) \/ StoreRenames(r)
  <2>1. (\E stage \in {"rows", "clear", "recheck"} : Go(r, stage)) /\ mishaps' = mishaps
    BY <1>3 DEF StoreLooks, RenameLost, StoreRenames
  <2>. QED  BY <2>1, <1>1, <1>2, GoesOn DEF Storing
<1>4. CASE StoreClears(r)
  <2>1. OthersStay(r) /\ Goes(r, "write") /\ mishaps' = mishaps
    BY <1>4, <1>t DEF StoreClears, OthersStay, Goes, Jobs
  <2>. QED  BY <2>1, <1>1, <1>2 DEF Storing
<1>5. CASE StoreWrites(r)
  <2>1. PICK p \in FirstOf(job[r].left) :
            job' = [job EXCEPT ![r].left = @ \ {p},
                               ![r].at = IF job[r].left = {p} THEN "rename" ELSE "write"]
    BY <1>5 DEF StoreWrites
  <2>2. OthersStay(r) /\ (Goes(r, "rename") \/ Goes(r, "write"))
    BY <2>1, <1>t DEF OthersStay, Goes, Jobs
  <2>3. mishaps' = mishaps
    BY <1>5 DEF StoreWrites
  <2>. QED  BY <2>2, <2>3, <1>1, <1>2 DEF Storing
<1>6. CASE StoreFails(r)
  BY <1>6, <1>1, <1>2, EndsJob DEF StoreFails
<1>7. CASE StoreRechecks(r)
  <2>1. (Go(r, "rows") \/ Ends(r)) /\ mishaps' = mishaps
    BY <1>7 DEF StoreRechecks
  <2>. QED  BY <2>1, <1>1, <1>2, GoesOn, EndsJob
<1>. QED  BY <1>3, <1>4, <1>5, <1>6, <1>7 DEF Store

\* Reads, changes of the row, and requests that are dropped.
LEMMA OtherGoes ==
    ASSUME CatalogInv, NEW r \in Requests, Serve(r) \/ PatchGame(r) \/ HungUp(r)
    PROVE  /\ OthersStay(r) /\ job[r].at # "version"
           /\ UNCHANGED <<current, versions, dbHolder, issued>>
           /\ job'[r] = Idle \/ Goes(r, "room") \/ Goes(r, "count")
           /\ HungUp(r) \/ job[r].at \notin Kept
<1>1. CASE JoinChecks(r) \/ JoinEnters(r)
  <2>1. Go(r, "room") \/ Go(r, "count") \/ Ends(r)
    BY <1>1 DEF JoinChecks, JoinEnters
  <2>2. UNCHANGED <<current, versions, dbHolder, issued>> /\ job[r].at \in {"disk", "room"}
    BY <1>1 DEF JoinChecks, JoinEnters, At, tables
  <2>. QED  BY <2>1, <2>2, GoesOn, EndsJob DEF Kept, Storing
<1>2. CASE JoinRefused(r) \/ JoinCounts(r) \/ GetBundle(r) \/ PatchGame(r)
  <2>1. Ends(r) /\ job[r].at \in {"room", "count", "load", "patch"}
    BY <1>2 DEF JoinRefused, JoinCounts, GetBundle, PatchGame, At
  <2>2. UNCHANGED <<current, versions, dbHolder, issued>>
    BY <1>2 DEF JoinRefused, JoinCounts, GetBundle, PatchGame, tables
  <2>. QED  BY <2>1, <2>2, EndsJob DEF Kept, Storing
<1>3. CASE HungUp(r)
  BY <1>3, EndsJob DEF HungUp, tables
<1>. QED  BY <1>1, <1>2, <1>3 DEF Serve

-----------------------------------------------------------------------------
(* The lock of publish()                                                   *)

LEMMA InitLock == Init => LockInv
BY DEF Init, LockInv, Idle

LEMMA NextLock == CatalogInv /\ LockInv /\ [Next]_vars => LockInv'
<1> SUFFICES ASSUME CatalogInv, LockInv, [Next]_vars, NEW q \in Requests, job'[q].at = "version"
             PROVE  Locked(q)'
  BY DEF LockInv
<1>t. job \in [Requests -> Jobs] /\ current \in [GameIds -> Nat \union {NoRow}]
  BY DEF CatalogInv, CatalogTypeOK
<1>i. Idle.at # "version"
  BY DEF Idle
<1>1. ASSUME NEW r \in Requests, Arrive(r) PROVE Locked(q)'
  <2>1. q # r
    BY <1>1, ArriveGoes
  <2>. QED  BY <2>1, <1>1, ArriveGoes DEF OthersStay, LockInv, Locked, Exists, tables
<1>2. ASSUME NEW r \in Requests, Store(r) PROVE Locked(q)'
  <2>1. q # r
    BY <1>2, <1>i, StoreGoes DEF Goes, Storing
  <2>. QED  BY <2>1, <1>2, StoreGoes DEF OthersStay, LockInv, Locked, Exists, tables
<1>3. ASSUME NEW r \in Requests, Serve(r) \/ HungUp(r) \/ PatchGame(r)
      PROVE Locked(q)'
  <2>1. q # r
    BY <1>3, <1>i, OtherGoes DEF Goes
  <2>. QED  BY <2>1, <1>3, OtherGoes DEF OthersStay, LockInv, Locked, Exists
<1>4. ASSUME NEW r \in Requests, InsertGame(r) PROVE Locked(q)'
  <2>1. dbHolder = Free /\ dbHolder' = r /\ job[r].new
    BY <1>4 DEF InsertGame
  <2>2. q = r
    BY <2>1, <1>4, <1>t, NamesAssumption DEF Locked, LockInv, InsertGame
  <2>3. PICK g \in FreshIds : /\ job' = [job EXCEPT ![r].game = g, ![r].at = "version"]
                              /\ current' = [current EXCEPT ![g] = 0]
    BY <1>4 DEF InsertGame
  <2>4. job'[r].game = g /\ job'[r].new = job[r].new /\ g \in GameIds
    BY <2>3, <1>t DEF Jobs, FreshIds
  <2>5. current'[g] = 0
    BY <2>3, <2>4, <1>t
  <2>. QED  BY <2>1, <2>2, <2>4, <2>5 DEF Locked, Exists, NoRow
<1>5. ASSUME NEW r \in Requests, AddVersion(r) \/ AddVersionFails(r) \/ DeleteGame(r)
      PROVE Locked(q)'
  <2>1. job' = [job EXCEPT ![r] = Idle]
    BY <1>5 DEF AddVersion, AddVersionFails, DeleteGame, Ends
  <2>2. q # r /\ job'[q] = job[q]
    BY <2>1, <1>i, <1>t
  <2>3. dbHolder = q /\ dbHolder # Free /\ dbHolder # r
    BY <2>2, NamesAssumption DEF Locked, LockInv
  <2>4. ~DeleteGame(r) /\ ~At(r, "version")
    BY <2>3, NamesAssumption DEF DeleteGame, Locked, LockInv, At
  <2>5. FALSE
    BY <1>5, <2>3, <2>4 DEF AddVersion, AddVersionFails
  <2>. QED  BY <2>5
<1>6. CASE RoomEnds
  BY <1>6 DEF RoomEnds, Locked, LockInv, Exists, tables
<1>7. CASE Crash
  BY <1>7, <1>i DEF Crash
<1>8. CASE UNCHANGED vars
  BY <1>8 DEF vars, Locked, LockInv, Exists, tables
<1>. QED  BY <1>1, <1>2, <1>3, <1>4, <1>5, <1>6, <1>7, <1>8 DEF Next, Rows

-----------------------------------------------------------------------------
(* The composition is an implementation of Catalog                         *)

LEMMA InitClient == PInit => ClientInv
BY DEF PInit, ClientInv, KeysOK, OwnRequests, NoFetch, Fetches, PendingOK, AnswerOK, Pending

LEMMA PStepIsAStep == CatalogInv /\ ClientInv /\ [PNext]_pvars => [Next]_vars
<1> SUFFICES ASSUME CatalogInv, ClientInv, [PNext]_pvars PROVE [Next]_vars
  OBVIOUS
<1>1. ASSUME NEW t \in Tabs, PublishStart(t) PROVE [Next]_vars
  <2>1. PICK u \in Uploads : SentInVain(t, u) \/ \E r \in Requests : Sent(t, u, r)
    BY <1>1 DEF PublishStart
  <2>2. Updates => store.last \in GameIds
    BY DEF Updates, ClientInv
  <2>3. ASSUME NEW r \in Requests, Sent(t, u, r) PROVE Arrive(r)
    BY <2>2, <2>3 DEF Sent, Arrive
  <2>. QED  BY <2>1, <2>3 DEF SentInVain, Next
<1>2. ASSUME NEW t \in Tabs, PublishPoll(t) PROVE [Next]_vars
  BY <1>2 DEF PublishPoll
<1>3. ASSUME NEW t \in Tabs, NEW left, Mishap(t, left) PROVE [Next]_vars
  BY <1>3 DEF Mishap, Next
<1>4. ASSUME NEW r \in Requests, Handles(r) PROVE [Next]_vars
  BY <1>4 DEF Handles, Next
<1>5. CASE Others
  BY <1>5 DEF Others, Next, Arrive
<1>6. CASE ServerDies
  BY <1>6 DEF ServerDies, Next
<1>7. CASE UNCHANGED pvars
  BY <1>7 DEF pvars
<1>. QED  BY <1>1, <1>2, <1>3, <1>4, <1>5, <1>6, <1>7 DEF PNext, Reload, AnswerLost

-----------------------------------------------------------------------------
(* The four ways in which the handler of an upload goes on                 *)

Walks(r) ==
    /\ \E stage \in Storing \union {"rows"} : Goes(r, stage)
    /\ job[r].at # "version" /\ UNCHANGED <<versions, issued, mishaps>>
Makes(r) ==
    /\ job[r].at = "rows" /\ job[r].new /\ job'[r].at = "version" /\ job'[r].new
    /\ job'[r].game \in FreshIds /\ issued' = issued \union {job'[r].game}
    /\ UNCHANGED <<versions, mishaps>>
Adds(r) ==
    /\ job'[r] = Idle /\ job[r].game \in issued /\ UNCHANGED <<issued, mishaps>>
    /\ IF job[r].at = "version" THEN job[r].new /\ versions' # versions ELSE ~job[r].new
Drops(r) ==
    /\ job'[r] = Idle /\ UNCHANGED <<versions, issued>>
    /\ mishaps' = mishaps + 1 \/ (mishaps' = mishaps /\ job[r].at # "version")

LEMMA HandlerKinds ==
    ASSUME CatalogInv, LockInv, NEW r \in Requests, Store(r) \/ Rows(r) \/ Serve(r),
           job[r].at \in Kept
    PROVE  OthersStay(r) /\ (Walks(r) \/ Makes(r) \/ Adds(r) \/ Drops(r))
<1>t. job \in [Requests -> Jobs]
  BY DEF CatalogInv, CatalogTypeOK
<1>1. CASE Store(r)
  <2>1. job[r].at # "version" /\ UNCHANGED <<versions, issued>>
    BY <1>1, StoreGoes DEF Storing, tables
  <2>. QED  BY <1>1, <2>1, StoreGoes DEF Walks, Drops
<1>2. CASE InsertGame(r)
  <2>1. PICK g \in FreshIds : /\ job' = [job EXCEPT ![r].game = g, ![r].at = "version"]
                              /\ issued' = issued \union {g}
    BY <1>2 DEF InsertGame
  <2>2. /\ OthersStay(r) /\ job'[r].at = "version" /\ job'[r].new = job[r].new
        /\ job'[r].game = g
    BY <2>1, <1>t DEF OthersStay, Jobs
  <2>. QED  BY <1>2, <2>1, <2>2 DEF Makes, InsertGame, At
<1>3. CASE AddVersion(r)
  <2>1. job[r].game \in GameIds /\ job[r].game \in issued
    BY <1>3, AddedToAGame
  <2>2. OthersStay(r) /\ job'[r] = Idle /\ UNCHANGED <<issued, mishaps>>
    BY <1>3, EndsJob DEF AddVersion
  <2>3. CASE job[r].at = "version"
    <3>1. job[r].new /\ Exists(job[r].game)
      BY <2>3 DEF LockInv, Locked
    <3>2. Recorded(job[r].game, job[r].upload)
      BY <1>3, <3>1 DEF AddVersion, MayAdd
    <3>3. versions'[job[r].game] = Append(versions[job[r].game], job[r].upload)
      BY <3>2, <2>1, RecordedAppends DEF CatalogInv, CatalogTypeOK
    <3>4. versions[job[r].game] \in Seq(Valid)
      BY <2>1 DEF CatalogInv, CatalogTypeOK
    <3>5. versions' # versions
      <4>1. Len(Append(versions[job[r].game], job[r].upload)) # Len(versions[job[r].game])
        BY <3>4
      <4>. QED  BY <3>3, <4>1
    <3>. QED  BY <2>1, <2>2, <2>3, <3>1, <3>5 DEF Adds
  <2>4. CASE job[r].at # "version"
    <3>1. ~job[r].new
      BY <1>3, <2>4 DEF AddVersion, At
    <3>. QED  BY <2>1, <2>2, <2>4, <3>1 DEF Adds
  <2>. QED  BY <2>3, <2>4
<1>4. CASE AddVersionFails(r)
  <2>1. Ends(r) /\ mishaps' = mishaps + 1 /\ UNCHANGED <<versions, issued>>
    BY <1>4 DEF AddVersionFails, tables
  <2>. QED  BY <2>1, EndsJob DEF Drops
<1>5. CASE DeleteGame(r) \/ PatchGame(r) \/ Serve(r)
  <2>1. job[r].at \in {"delete", "patch", "disk", "room", "count", "load"}
    BY <1>5 DEF DeleteGame, PatchGame, Serve, JoinChecks, JoinEnters, JoinRefused, JoinCounts,
                GetBundle, At
  <2>. QED  BY <2>1 DEF Kept, Storing
<1>. QED  BY <1>1, <1>2, <1>3, <1>4, <1>5 DEF Rows

\* A handler of any request leaves the other requests alone, and forgets nothing.
LEMMA HandlerKeeps ==
    ASSUME CatalogInv, NEW r \in Requests, Store(r) \/ Rows(r) \/ Serve(r)
    PROVE  OthersStay(r) /\ issued \subseteq issued' /\ mishaps' \in {mishaps, mishaps + 1}
<1>t. job \in [Requests -> Jobs]
  BY DEF CatalogInv, CatalogTypeOK
<1>1. CASE Store(r)
  BY <1>1, StoreGoes
<1>2. CASE InsertGame(r)
  <2>1. OthersStay(r)
    BY <1>2, <1>t DEF InsertGame, OthersStay
  <2>. QED  BY <1>2, <2>1 DEF InsertGame
<1>3. CASE AddVersion(r) \/ AddVersionFails(r) \/ DeleteGame(r) \/ PatchGame(r)
  <2>1. Ends(r) /\ issued' = issued /\ mishaps' \in {mishaps, mishaps + 1}
    BY <1>3 DEF AddVersion, AddVersionFails, DeleteGame, PatchGame
  <2>. QED  BY <2>1, EndsJob
<1>4. CASE Serve(r)
  <2>1. mishaps' = mishaps
    BY <1>4 DEF Serve, JoinChecks, JoinEnters, JoinRefused, JoinCounts, GetBundle
  <2>. QED  BY <1>4, <2>1, OtherGoes
<1>. QED  BY <1>1, <1>2, <1>3, <1>4 DEF Rows

-----------------------------------------------------------------------------
(* What the tabs hold and wait for                                         *)

\* No answer, or one without a game.
Empty(f) == f \in Fetches /\ f.request = Free /\ ~f.ok /\ ~f.key

LEMMA EmptyFetches ==
    /\ Empty(NoFetch)
    /\ \A n \in 0..3 : Empty([NoFetch EXCEPT !.state = n])
<1>1. NoFetch \in Fetches
  BY DEF NoFetch, Fetches
<1>2. NoFetch.request = Free /\ ~NoFetch.ok /\ ~NoFetch.key
  BY DEF NoFetch
<1>3. ASSUME NEW n \in 0..3 PROVE Empty([NoFetch EXCEPT !.state = n])
  <2>. DEFINE f == [NoFetch EXCEPT !.state = n]
  <2>1. f \in Fetches
    BY <1>1 DEF Fetches
  <2>2. f.request = NoFetch.request /\ f.ok = NoFetch.ok /\ f.key = NoFetch.key
    BY <1>1 DEF Fetches
  <2>. QED  BY <2>1, <2>2, <1>2 DEF Empty
<1>. QED  BY <1>1, <1>2, <1>3 DEF Empty

LEMMA NextClient ==
    ASSUME CatalogInv, CatalogInv', LockInv, ClientInv, [PNext]_pvars
    PROVE  ClientInv'
<1>t. /\ store \in [last: GameIds \union {NoGame}, keys: SUBSET GameIds]
      /\ fetch \in [Tabs -> Fetches] /\ issued \subseteq GameIds /\ issued' \subseteq GameIds
  BY DEF ClientInv, CatalogInv, CatalogTypeOK
<1>k. KeysOK /\ OwnRequests /\ \A t \in Tabs : PendingOK(t) /\ AnswerOK(t)
  BY DEF ClientInv
\* A tab gets an empty answer; jobs change only where no other tab waits.
<1>e. ASSUME NEW t \in Tabs, NEW f, Empty(f), fetch' = [fetch EXCEPT ![t] = f], store' = store,
             issued \subseteq issued',
             \A s \in Tabs \ {t} : Pending(s) => JobOf(s)' = JobOf(s)
      PROVE  ClientInv'
  <2>1. \A s \in Tabs : fetch'[s] = IF s = t THEN f ELSE fetch[s]
    BY <1>e, <1>t
  <2>2. fetch' \in [Tabs -> Fetches]
    BY <1>e, <1>t DEF Empty
  <2>3. ASSUME NEW s \in Tabs PROVE (PendingOK(s) /\ AnswerOK(s))'
    <3>1. CASE s = t
      BY <3>1, <2>1, <1>e DEF Empty, PendingOK, AnswerOK, Pending
    <3>2. CASE s # t
      BY <3>2, <2>1, <1>e, <1>k DEF PendingOK, AnswerOK, Pending, JobOf
    <3>. QED  BY <3>1, <3>2
  <2>4. OwnRequests'
    BY <2>1, <1>e, <1>k DEF OwnRequests, Pending, Empty
  <2>. QED  BY <2>2, <2>3, <2>4, <1>e, <1>t, <1>k DEF ClientInv, KeysOK
<1>1. ASSUME NEW t \in Tabs, PublishStart(t) PROVE ClientInv'
  <2>1. PICK u \in Uploads : SentInVain(t, u) \/ \E r \in Requests : Sent(t, u, r)
    BY <1>1 DEF PublishStart
  <2>2. store' = store /\ fetch[t].state = 0
    BY <1>1 DEF PublishStart
  <2>3. CASE SentInVain(t, u)
    <3>1. fetch' = [fetch EXCEPT ![t] = [NoFetch EXCEPT !.state = 2]] /\ UNCHANGED <<job, issued>>
      BY <2>3 DEF SentInVain, vars
    <3>2. \A s \in Tabs \ {t} : Pending(s) => JobOf(s)' = JobOf(s)
      <4>1. \A s \in Tabs \ {t} : fetch'[s] = fetch[s]
        BY <3>1, <1>t
      <4>. QED  BY <3>1, <4>1 DEF JobOf
    <3>3. Empty([NoFetch EXCEPT !.state = 2])
      BY EmptyFetches
    <3>. QED  BY <3>1, <3>2, <3>3, <2>2, <1>e
  <2>4. ASSUME NEW r \in Requests, Sent(t, u, r) PROVE ClientInv'
    <3>. DEFINE f == [NoFetch EXCEPT !.state = 1, !.request = r]
    <3>1. f \in Fetches /\ f.state = 1 /\ f.request = r /\ ~f.ok /\ ~f.key
      <4>1. NoFetch \in Fetches /\ ~NoFetch.ok /\ ~NoFetch.key
        BY EmptyFetches DEF Empty
      <4>2. f \in Fetches
        <5>1. [NoFetch EXCEPT !.state = 1] \in Fetches
          BY EmptyFetches DEF Empty
        <5>. QED  BY <5>1, <4>1 DEF Fetches
      <4>3. f.state = 1 /\ f.request = r
        BY <4>1 DEF Fetches
      <4>4. f.ok = NoFetch.ok /\ f.key = NoFetch.key
        BY <4>1 DEF Fetches
      <4>. QED  BY <4>1, <4>2, <4>3, <4>4
    <3>2. fetch' = [fetch EXCEPT ![t] = f]
      BY <2>4 DEF Sent
    <3>3. Updates => store.last \in GameIds
      BY <1>t DEF Updates
    <3>4. OthersStay(r) /\ job[r].at = "idle" /\ issued' = issued
      BY <3>3, <2>4, ArriveGoes DEF Sent, Arrive
    <3>5. job'[r].at = "look" /\ (~job'[r].new => job'[r].game \in store.keys)
      BY <2>4 DEF Sent, PublishArrives, RepublishArrives, Updates, Idle, CatalogInv, CatalogTypeOK
    <3>. HIDE DEF f
    <3>6. \A s \in Tabs : fetch'[s] = IF s = t THEN f ELSE fetch[s]
      BY <3>2, <1>t
    <3>7. \A s \in Tabs : Pending(s) => fetch[s].request # r /\ fetch[s].request \in Requests
      BY <3>4, <1>k DEF PendingOK, JobOf, Kept, Storing
    <3>8. ASSUME NEW s \in Tabs PROVE (PendingOK(s) /\ AnswerOK(s))'
      <4>1. PendingOK(s) /\ AnswerOK(s)
        BY <1>k
      <4>2. CASE s = t
        <5>1. fetch'[s] = f
          BY <4>2, <3>6
        <5>. QED  BY <5>1, <3>1, <3>5, <2>2 DEF PendingOK, AnswerOK, Pending, JobOf, Kept, Storing
      <4>3. CASE s # t
        <5>1. fetch'[s] = fetch[s]
          BY <4>3, <3>6
        <5>. QED  BY <5>1, <4>1, <3>4, <3>7, <2>2 DEF PendingOK, AnswerOK, Pending, JobOf, OthersStay
      <4>. QED  BY <4>2, <4>3
    <3>9. OwnRequests'
      BY <3>1, <3>6, <3>7, <1>k, NamesAssumption DEF OwnRequests, Pending
    <3>. QED  BY <3>1, <3>2, <3>4, <3>8, <3>9, <2>2, <1>t, <1>k DEF ClientInv, KeysOK
  <2>. QED  BY <2>1, <2>3, <2>4
<1>2. ASSUME NEW t \in Tabs, PublishPoll(t) PROVE ClientInv'
  <2>1. /\ fetch' = [fetch EXCEPT ![t] = NoFetch] /\ UNCHANGED <<job, issued>>
        /\ store' = IF fetch[t].ok THEN Remembered(fetch[t]) ELSE store
    BY <1>2 DEF PublishPoll, vars
  <2>2. AnswerOK(t) /\ fetch[t] \in Fetches
    BY <1>k, <1>t
  <2>3. /\ store' \in [last: GameIds \union {NoGame}, keys: SUBSET GameIds]
        /\ store.keys \subseteq store'.keys /\ KeysOK'
    <3>1. CASE ~fetch[t].ok
      BY <3>1, <2>1, <1>t, <1>k DEF KeysOK
    <3>2. CASE fetch[t].ok
      <4>1. store' = Remembered(fetch[t])
        BY <3>2, <2>1
      <4>2. fetch[t].game \in GameIds \union {NoGame} /\ (fetch[t].key => fetch[t].game \in issued)
        BY <2>2 DEF AnswerOK, Fetches
      <4>3. CASE fetch[t].key
        BY <4>1, <4>2, <4>3, <2>1, <1>t, <1>k DEF Remembered, KeysOK
      <4>4. CASE ~fetch[t].key
        <5>1. fetch[t].game \in store.keys
          BY <4>4, <3>2, <2>2 DEF AnswerOK
        <5>. QED  BY <5>1, <4>1, <4>2, <4>4, <2>1, <1>t, <1>k DEF Remembered, KeysOK
      <4>. QED  BY <4>3, <4>4
    <3>. QED  BY <3>1, <3>2
  <2>4. \A s \in Tabs : fetch'[s] = IF s = t THEN NoFetch ELSE fetch[s]
    BY <2>1, <1>t
  <2>5. ASSUME NEW s \in Tabs PROVE (PendingOK(s) /\ AnswerOK(s))'
    <3>1. PendingOK(s) /\ AnswerOK(s)
      BY <1>k
    <3>. QED  BY <3>1, <2>4, <2>1, <2>3, EmptyFetches DEF Empty, PendingOK, AnswerOK, Pending, JobOf
  <2>6. OwnRequests'
    BY <2>4, <1>k, EmptyFetches DEF Empty, OwnRequests, Pending
  <2>. QED  BY <2>1, <2>3, <2>5, <2>6, <1>t, EmptyFetches DEF ClientInv, Empty
<1>3. ASSUME NEW t \in Tabs, NEW left, Empty(left), Mishap(t, left) PROVE ClientInv'
  <2>1. fetch' = [fetch EXCEPT ![t] = left] /\ store' = store /\ issued' = issued
    BY <1>3 DEF Mishap, vars, HungUp
  <2>2. ASSUME NEW s \in Tabs \ {t}, Pending(s) PROVE JobOf(s)' = JobOf(s)
    <3>1. fetch'[s] = fetch[s]
      BY <2>1, <1>t
    <3>2. CASE UNCHANGED vars
      BY <3>1, <3>2 DEF JobOf, vars
    <3>3. ASSUME NEW r \in Requests, WaitsFor(t, r), HungUp(r) PROVE JobOf(s)' = JobOf(s)
      <4>1. fetch[s].request # r /\ fetch[s].request \in Requests
        BY <2>2, <3>3, <1>k DEF OwnRequests, WaitsFor, PendingOK
      <4>. QED  BY <3>1, <3>3, <4>1, OtherGoes DEF OthersStay, JobOf
    <3>. QED  BY <1>3, <3>2, <3>3 DEF Mishap
  <2>. QED  BY <2>1, <2>2, <1>3, <1>e
<1>4. ASSUME NEW r \in Requests, Handles(r) PROVE ClientInv'
  <2>1. Store(r) \/ Rows(r) \/ Serve(r)
    BY <1>4 DEF Handles
  <2>2. /\ store' = store
        /\ fetch' = [t \in Tabs |-> IF WaitsFor(t, r) /\ job'[r] = Idle THEN Answer(r) ELSE fetch[t]]
    BY <1>4 DEF Handles
  <2>3. OthersStay(r) /\ issued \subseteq issued'
    BY <2>1, HandlerKeeps
  <2>4. ASSUME NEW t \in Tabs, ~WaitsFor(t, r)
        PROVE  fetch'[t] = fetch[t] /\ (PendingOK(t) /\ AnswerOK(t))'
    <3>1. fetch'[t] = fetch[t]
      BY <2>2, <2>4
    <3>. QED  BY <3>1, <2>2, <2>3, <2>4, <1>k DEF PendingOK, AnswerOK, Pending, JobOf, WaitsFor, OthersStay
  <2>5. ASSUME NEW t \in Tabs, WaitsFor(t, r)
        PROVE  /\ fetch'[t] \in Fetches /\ fetch'[t].request \in {fetch[t].request, Free}
               /\ (PendingOK(t) /\ AnswerOK(t))'
    <3>1. /\ fetch[t].request = r /\ Pending(t) /\ fetch[t] \in Fetches
          /\ job[r].at \in Kept /\ (~job[r].new => job[r].game \in store.keys)
          /\ PendingOK(t) /\ AnswerOK(t)
      BY <2>5, <1>t, <1>k, NamesAssumption DEF WaitsFor, Pending, PendingOK, JobOf
    <3>2. CASE Walks(r) \/ Makes(r)
      <4>1. job'[r].at \in Kept /\ (~job'[r].new => job'[r].game \in store.keys)
        BY <3>1, <3>2 DEF Walks, Makes, Goes, Kept
      <4>2. job'[r] # Idle
        BY <4>1 DEF Idle, Kept, Storing
      <4>3. fetch'[t] = fetch[t]
        BY <2>2, <4>2
      <4>. QED  BY <4>1, <4>3, <3>1, <2>2, <2>3 DEF PendingOK, AnswerOK, Pending, JobOf
    <3>3. CASE Adds(r) \/ Drops(r)
      <4>1. fetch'[t] = Answer(r)
        BY <2>2, <2>5, <3>3 DEF Adds, Drops
      <4>2. CASE versions' = versions
        <5>1. Empty(fetch'[t])
          BY <4>1, <4>2, EmptyFetches DEF Answer
        <5>. QED  BY <5>1 DEF Empty, PendingOK, AnswerOK, Pending
      <4>3. CASE versions' # versions
        <5>1. Adds(r)
          BY <3>3, <4>3 DEF Drops
        <5>2. job[r].game \in issued /\ job[r].new \in BOOLEAN
          BY <5>1 DEF Adds, CatalogInv, CatalogTypeOK, Jobs
        <5>3. fetch'[t] = [NoFetch EXCEPT !.state = 2, !.ok = TRUE, !.game = job[r].game, !.key = job[r].new]
          BY <4>1, <4>3 DEF Answer
        <5>4. NoFetch \in Fetches /\ NoFetch.request = Free
          BY EmptyFetches DEF Empty
        <5>5. fetch'[t] \in Fetches
          <6>1. fetch'[t] = [state |-> 2, request |-> Free, ok |-> TRUE, game |-> job[r].game,
                             key |-> job[r].new]
            BY <5>3 DEF NoFetch
          <6>. QED  BY <6>1, <5>2, <1>t DEF Fetches
        <5>6. fetch'[t].request = Free
          BY <5>3, <5>4 DEF Fetches
        <5>7. fetch'[t].state = 2 /\ fetch'[t].ok = TRUE /\ fetch'[t].game = job[r].game
             /\ fetch'[t].key = job[r].new
          BY <5>3, <5>4 DEF Fetches
        <5>. QED  BY <5>2, <5>5, <5>6, <5>7, <3>1, <2>2, <2>3 DEF PendingOK, AnswerOK, Pending
      <4>. QED  BY <4>2, <4>3
    <3>. QED  BY <2>1, <3>1, <3>2, <3>3, HandlerKinds
  <2>6. fetch' \in [Tabs -> Fetches]
    BY <2>2, <2>4, <2>5, <1>t
  <2>7. OwnRequests'
    <3>1. \A t \in Tabs : fetch'[t].request \in {fetch[t].request, Free}
      BY <2>4, <2>5
    <3>. QED  BY <3>1, <1>k DEF OwnRequests, Pending
  <2>. QED  BY <2>2, <2>3, <2>4, <2>5, <2>6, <2>7, <1>t, <1>k DEF ClientInv, KeysOK
<1>5. CASE Others
  <2>1. store' = store /\ fetch' = fetch
    BY <1>5 DEF Others, client
  <2>2. issued' = issued /\ \A q \in Requests : (\E t \in Tabs : WaitsFor(t, q)) => job'[q] = job[q]
    <3>1. CASE RoomEnds
      BY <3>1 DEF RoomEnds
    <3>2. ASSUME NEW r \in Requests, Arrive(r)
          PROVE  issued' = issued /\ \A q \in Requests : (\E t \in Tabs : WaitsFor(t, q)) => job'[q] = job[q]
      <4>1. \A t \in Tabs : ~WaitsFor(t, r)
        BY <3>2, ArriveGoes, <1>k, NamesAssumption DEF WaitsFor, Pending, PendingOK, JobOf, Kept, Storing
      <4>. QED  BY <3>2, <4>1, ArriveGoes DEF OthersStay
    <3>3. ASSUME NEW r \in Requests, HungUp(r), \A t \in Tabs : ~WaitsFor(t, r)
          PROVE  issued' = issued /\ \A q \in Requests : (\E t \in Tabs : WaitsFor(t, q)) => job'[q] = job[q]
      BY <3>3, OtherGoes DEF OthersStay
    <3>. QED  BY <1>5, <3>1, <3>2, <3>3 DEF Others, Arrive
  <2>3. ASSUME NEW t \in Tabs PROVE (PendingOK(t) /\ AnswerOK(t))'
    <3>1. Pending(t) => JobOf(t)' = JobOf(t)
      BY <2>1, <2>2, <1>k DEF WaitsFor, PendingOK, JobOf
    <3>. QED  BY <3>1, <2>1, <2>2, <1>k DEF PendingOK, AnswerOK, Pending
  <2>. QED  BY <2>1, <2>2, <2>3, <1>t, <1>k DEF ClientInv, KeysOK, OwnRequests, Pending
<1>6. CASE ServerDies
  <2>1. store' = store /\ issued' = issued
    BY <1>6 DEF ServerDies, Crash
  <2>2. fetch' = [t \in Tabs |-> IF fetch[t].state = 1 THEN [NoFetch EXCEPT !.state = 3] ELSE fetch[t]]
    BY <1>6 DEF ServerDies
  <2>3. Empty([NoFetch EXCEPT !.state = 3])
    BY EmptyFetches
  <2>4. \A t \in Tabs : Empty(fetch'[t]) \/ (fetch'[t] = fetch[t] /\ ~Pending(t))
    BY <2>2, <2>3, <1>k DEF PendingOK
  <2>5. fetch' \in [Tabs -> Fetches]
    BY <2>2, <2>3, <1>t DEF Empty
  <2>6. ASSUME NEW t \in Tabs PROVE (PendingOK(t) /\ AnswerOK(t))' /\ ~Pending(t)'
    BY <2>1, <2>4, <1>k DEF Empty, PendingOK, AnswerOK, Pending
  <2>7. OwnRequests'
    BY <2>6 DEF OwnRequests
  <2>. QED  BY <2>1, <2>5, <2>6, <2>7, <1>t, <1>k DEF ClientInv, KeysOK
<1>7. CASE UNCHANGED pvars
  BY <1>7 DEF pvars, vars, client, tables, disk, ClientInv, KeysOK, OwnRequests, PendingOK, AnswerOK, Pending, JobOf
<1>8. ASSUME NEW t \in Tabs, Reload(t) \/ AnswerLost(t) PROVE ClientInv'
  BY <1>3, <1>8, EmptyFetches DEF Reload, AnswerLost
<1>. QED  BY <1>1, <1>2, <1>4, <1>5, <1>6, <1>7, <1>8 DEF PNext

-----------------------------------------------------------------------------
(* The accounts of the games that were made                                *)

\* A tab may still bring a key, and the game it is for, once that exists.
May(t) == fetch[t].key \/ (Pending(t) /\ JobOf(t).new)
Due(t) ==
    IF fetch[t].key THEN fetch[t].game
    ELSE IF Pending(t) /\ JobOf(t).at = "version" THEN JobOf(t).game ELSE NoGame

MayMake == {t \in Tabs : May(t)}
Expected == {Due(t) : t \in MayMake}
Lost == (mine \ store.keys) \ Expected

Accounts ==
    /\ IsFiniteSet(mine) /\ mine \subseteq issued
    /\ broken \in Nat /\ mishaps \in Nat
    /\ Cardinality(Lost) <= mishaps + broken
    /\ Cardinality(mine \intersect store.keys) + Cardinality(MayMake) <= Cardinality(Tabs)

\* No tab is due to bring two games.
LEMMA ExpectedCounts ==
    /\ IsFiniteSet(MayMake) /\ Cardinality(MayMake) <= Cardinality(Tabs)
    /\ IsFiniteSet(Expected) /\ Cardinality(Expected) <= Cardinality(MayMake)
<1>1. MayMake \in SUBSET Tabs
  BY DEF MayMake
<1>2. IsFiniteSet(MayMake) /\ Cardinality(MayMake) <= Cardinality(Tabs)
  BY <1>1, TabsAssumption, FS_Subset
<1>. DEFINE due == [t \in MayMake |-> Due(t)]
<1>3. due \in Surjection(MayMake, Expected)
  <2>1. due \in [MayMake -> Expected]
    BY DEF Expected
  <2>2. \A g \in Expected : \E t \in MayMake : due[t] = g
    BY DEF Expected
  <2>. QED  BY <2>1, <2>2 DEF Surjection
<1>4. IsFiniteSet(Expected) /\ Cardinality(Expected) <= Cardinality(MayMake)
  BY <1>2, <1>3, FS_Surjection
<1>. QED  BY <1>2, <1>4

\* A set of no more than m elements loses some, or gains one while the bound grows.
LEMMA PaidFor ==
    ASSUME NEW S, NEW R, NEW x, NEW m \in Nat, NEW n \in Nat,
           IsFiniteSet(S), Cardinality(S) <= m,
           (R \subseteq S /\ m <= n) \/ (R \subseteq S \union {x} /\ m < n)
    PROVE  Cardinality(R) <= n
<1>1. Cardinality(S) \in Nat
  BY FS_CardinalityType
<1>2. CASE R \subseteq S /\ m <= n
  <2>1. Cardinality(R) <= Cardinality(S) /\ IsFiniteSet(R)
    BY <1>2, FS_Subset
  <2>. QED  BY <1>1, <1>2, <2>1, FS_CardinalityType
<1>3. CASE R \subseteq S \union {x} /\ m < n
  <2>1. IsFiniteSet(S \union {x}) /\ Cardinality(S \union {x}) <= Cardinality(S) + 1
    BY <1>1, FS_AddElement
  <2>2. Cardinality(R) <= Cardinality(S \union {x}) /\ IsFiniteSet(R)
    BY <1>3, <2>1, FS_Subset
  <2>3. Cardinality(R) \in Nat /\ Cardinality(S \union {x}) \in Nat
    BY <2>1, <2>2, FS_CardinalityType
  <2>. QED  BY <1>1, <1>3, <2>1, <2>2, <2>3
<1>. QED  BY <1>2, <1>3

LEMMA SumIsNat == \A m, n \in Nat : m + n \in Nat
OBVIOUS

\* The accounts stay right if no more than the game x is lost, and a mishap pays for it.
LEMMA AccountsKept ==
    ASSUME CatalogInv, CatalogInv', Accounts, NEW x,
           IsFiniteSet(mine'), mine' \subseteq issued', broken' \in Nat,
           mine' \subseteq mine \union Expected', store.keys \subseteq store.keys',
           mishaps + broken <= mishaps' + broken',
           x = NoGame \/ mishaps + broken < mishaps' + broken',
           \A t \in Tabs : May(t) =>
               \/ Due(t) \in {x, NoGame} \union store.keys'
               \/ May(t)' /\ Due(t)' = Due(t),
           Cardinality(mine \intersect store.keys)' + Cardinality(MayMake') <= Cardinality(Tabs)
    PROVE  Accounts'
<1>1. mishaps \in Nat /\ mishaps' \in Nat /\ issued' \subseteq GameIds
  BY DEF CatalogInv, CatalogTypeOK
<1>2. NoGame \notin mine'
  BY <1>1, NamesAssumption
<1>3. Lost' \subseteq Lost \union ({x} \ {NoGame})
  <2> SUFFICES ASSUME NEW g \in Lost', g \notin Lost PROVE g = x /\ g # NoGame
    OBVIOUS
  <2>1. g \in mine' /\ g \notin store.keys' /\ g \notin Expected'
    BY DEF Lost
  <2>2. g \in Expected
    BY <2>1 DEF Lost
  <2>3. PICK t \in Tabs : May(t) /\ g = Due(t)
    BY <2>2 DEF Expected, MayMake
  <2>4. ~(May(t)' /\ Due(t)' = Due(t))
    BY <2>1, <2>3 DEF Expected, MayMake
  <2>. QED  BY <1>2, <2>1, <2>3, <2>4
<1>4. IsFiniteSet(Lost)
  <2>1. Lost \in SUBSET mine /\ IsFiniteSet(mine)
    BY DEF Lost, Accounts
  <2>. QED  BY <2>1, FS_Subset
<1>5. /\ mishaps + broken \in Nat /\ mishaps' + broken' \in Nat
      /\ Cardinality(Lost) <= mishaps + broken
  <2>1. broken \in Nat /\ broken' \in Nat /\ Cardinality(Lost) <= mishaps + broken
    BY DEF Accounts
  <2>2. mishaps \in Nat /\ broken \in Nat
    BY <1>1, <2>1
  <2>3. mishaps' \in Nat /\ broken' \in Nat
    BY <1>1, <2>1
  <2>4. mishaps + broken \in Nat /\ mishaps' + broken' \in Nat
    BY <2>2, <2>3, SumIsNat
  <2>. QED  BY <2>1, <2>4
<1>6. \/ Lost' \subseteq Lost /\ mishaps + broken <= mishaps' + broken'
      \/ Lost' \subseteq Lost \union {x} /\ mishaps + broken < mishaps' + broken'
  BY <1>3
<1>7. Cardinality(Lost') <= mishaps' + broken'
  <2>. DEFINE before == mishaps + broken
              after == mishaps' + broken'
              left == Lost'
  <2>1. /\ before \in Nat /\ after \in Nat /\ Cardinality(Lost) <= before
        /\ (left \subseteq Lost /\ before <= after) \/ (left \subseteq Lost \union {x} /\ before < after)
    BY <1>5, <1>6
  <2>2. Cardinality(left) <= after
    <3>. HIDE DEF before, after, left
    <3>. QED  BY <2>1, <1>4, PaidFor
  <2>. QED  BY <2>2
<1>. QED  BY <1>1, <1>7 DEF Accounts

LEMMA NothingLost ==
    ASSUME CatalogInv, CatalogInv', Accounts,
           IsFiniteSet(mine'), mine' \subseteq issued', broken' \in Nat,
           mine' \subseteq mine \union Expected', store.keys \subseteq store.keys',
           mishaps + broken <= mishaps' + broken',
           \A t \in Tabs : May(t) =>
               \/ Due(t) \in {NoGame} \union store.keys'
               \/ May(t)' /\ Due(t)' = Due(t),
           Cardinality(mine \intersect store.keys)' + Cardinality(MayMake') <= Cardinality(Tabs)
    PROVE  Accounts'
<1>1. \A t \in Tabs : May(t) =>
          \/ Due(t) \in {NoGame, NoGame} \union store.keys'
          \/ May(t)' /\ Due(t)' = Due(t)
  OBVIOUS
<1>. QED  BY <1>1, AccountsKept

\* As long as no key arrives and no tab begins to make a game, there is room for one a tab.
LEMMA PlacesKept ==
    ASSUME Accounts, (mine \intersect store.keys)' = mine \intersect store.keys,
           \A t \in Tabs : May(t)' => May(t)
    PROVE  Cardinality(mine \intersect store.keys)' + Cardinality(MayMake') <= Cardinality(Tabs)
<1>1. MayMake' \in SUBSET MayMake
  BY DEF MayMake
<1>2. IsFiniteSet(MayMake') /\ Cardinality(MayMake') <= Cardinality(MayMake)
  BY <1>1, ExpectedCounts, FS_Subset
<1>3. IsFiniteSet(mine \intersect store.keys)
  BY FS_Intersection DEF Accounts
<1>4. /\ Cardinality(MayMake') \in Nat /\ Cardinality(MayMake) \in Nat
      /\ Cardinality(mine \intersect store.keys) \in Nat /\ Cardinality(Tabs) \in Nat
  BY <1>2, <1>3, ExpectedCounts, TabsAssumption, FS_CardinalityType
<1>5. Cardinality(mine \intersect store.keys) + Cardinality(MayMake) <= Cardinality(Tabs)
  BY DEF Accounts
<1>6. Cardinality(mine \intersect store.keys)' = Cardinality(mine \intersect store.keys)
  OBVIOUS
<1>. QED  BY <1>2, <1>4, <1>5, <1>6

\* A tab about which nothing changes is due to bring what it was.
LEMMA StillDue ==
    ASSUME NEW t, fetch'[t] = fetch[t], Pending(t) => JobOf(t)' = JobOf(t)
    PROVE  May(t)' = May(t) /\ Due(t)' = Due(t)
BY DEF May, Due, Pending, JobOf

LEMMA EmptyIsNotDue == ASSUME NEW t, Empty(fetch[t]) PROVE ~May(t)
BY DEF Empty, May, Pending

LEMMA InitAccounts == PInit => Accounts
<1> SUFFICES ASSUME PInit PROVE Accounts
  OBVIOUS
<1>1. mine = {} /\ mishaps = 0 /\ broken = 0
  BY DEF PInit, Init
<1>2. Lost = {} /\ mine \intersect store.keys = {}
  BY <1>1 DEF Lost
<1>3. Cardinality(MayMake) \in Nat
  BY ExpectedCounts, FS_CardinalityType
<1>. QED  BY <1>1, <1>2, <1>3, ExpectedCounts, FS_EmptySet DEF Accounts

\* A tab starts something, or hears what came of it.
LEMMA PageKeepsAccounts ==
    ASSUME CatalogInv, CatalogInv', LockInv, ClientInv, ClientInv', Accounts,
           NEW t \in Tabs, PublishStart(t) \/ PublishPoll(t)
    PROVE  Accounts'
<1>t. /\ store \in [last: GameIds \union {NoGame}, keys: SUBSET GameIds]
      /\ fetch \in [Tabs -> Fetches] /\ job \in [Requests -> Jobs]
      /\ issued \subseteq GameIds
  BY DEF ClientInv, CatalogInv, CatalogTypeOK
<1>k. KeysOK /\ OwnRequests /\ \A s \in Tabs : PendingOK(s) /\ AnswerOK(s)
  BY DEF ClientInv
<1>a. IsFiniteSet(mine) /\ mine \subseteq issued /\ broken \in Nat /\ mishaps \in Nat
  BY DEF Accounts
<1>m. mine' = mine /\ broken' = broken
  BY DEF PublishStart, PublishPoll
<1>1. CASE PublishStart(t)
  <2>1. PICK u \in Uploads : SentInVain(t, u) \/ \E r \in Requests : Sent(t, u, r)
    BY <1>1 DEF PublishStart
  <2>2. store' = store /\ fetch[t].state = 0
    BY <1>1 DEF PublishStart
  <2>3. ~May(t)
    BY <2>2, <1>k DEF May, PendingOK, AnswerOK
  <2>4. CASE SentInVain(t, u)
    <3>1. fetch' = [fetch EXCEPT ![t] = [NoFetch EXCEPT !.state = 2]] /\ UNCHANGED vars
      BY <2>4 DEF SentInVain
    <3>2. ~May(t)'
      BY <3>1, <1>t, EmptyFetches DEF Empty, May, Pending
    <3>3. \A s \in Tabs \ {t} : May(s)' = May(s) /\ Due(s)' = Due(s)
      BY <3>1, <1>t, StillDue DEF JobOf, vars
    <3>4. issued' = issued /\ mishaps' = mishaps
      BY <3>1 DEF vars
    <3>5. \A s \in Tabs : (May(s)' => May(s)) /\ (May(s) => May(s)' /\ Due(s)' = Due(s))
      BY <2>3, <3>2, <3>3
    <3>6. Cardinality(mine \intersect store.keys)' + Cardinality(MayMake') <= Cardinality(Tabs)
      BY <3>5, <1>m, <2>2, PlacesKept
    <3>. QED  BY <3>4, <3>5, <3>6, <1>a, <1>m, <2>2, NothingLost
  <2>5. ASSUME NEW r \in Requests, Sent(t, u, r) PROVE Accounts'
    <3>1. fetch' = [fetch EXCEPT ![t] = [NoFetch EXCEPT !.state = 1, !.request = r]]
      BY <2>5 DEF Sent
    <3>2. Updates => store.last \in GameIds
      BY <1>t DEF Updates
    <3>3. OthersStay(r) /\ job[r].at = "idle" /\ issued' = issued /\ mishaps' = mishaps
      BY <3>2, <2>5, ArriveGoes DEF Sent, Arrive
    <3>4. \A s \in Tabs : Pending(s) => fetch[s].request # r /\ fetch[s].request \in Requests
      BY <3>3, <1>k DEF PendingOK, JobOf, Kept, Storing
    <3>5. \A s \in Tabs \ {t} : fetch'[s] = fetch[s] /\ (Pending(s) => JobOf(s)' = JobOf(s))
      BY <3>1, <3>3, <3>4, <1>t DEF JobOf, OthersStay
    <3>6. \A s \in Tabs \ {t} : May(s)' = May(s) /\ Due(s)' = Due(s)
      BY <3>5, StillDue
    <3>7. Cardinality(mine \intersect store.keys)' + Cardinality(MayMake') <= Cardinality(Tabs)
      <4>1. CASE Updates
        <5>1. ~May(t)'
          <6>1. fetch'[t].request = r /\ ~fetch'[t].key
            BY <3>1, <1>t, EmptyFetches DEF Empty, Fetches
          <6>2. ~job'[r].new
            BY <4>1, <2>5, <1>t DEF Sent, RepublishArrives, Idle
          <6>. QED  BY <6>1, <6>2 DEF May, JobOf
        <5>2. \A s \in Tabs : May(s)' => May(s)
          BY <5>1, <3>6
        <5>. QED  BY <5>2, <1>m, <2>2, PlacesKept
      <4>2. CASE ~Updates
        <5>1. store.keys' = {}
          BY <4>2, <1>k, <2>2 DEF KeysOK, Updates
        <5>2. (mine \intersect store.keys)' = {}
          BY <5>1
        <5>3. MayMake' \in SUBSET Tabs
          BY DEF MayMake
        <5>4. /\ Cardinality(MayMake') <= Cardinality(Tabs) /\ Cardinality(MayMake') \in Nat
              /\ Cardinality(mine \intersect store.keys)' = 0
          BY <5>2, <5>3, TabsAssumption, FS_Subset, FS_CardinalityType, FS_EmptySet
        <5>. QED  BY <5>4
      <4>. QED  BY <4>1, <4>2
    <3>8. \A s \in Tabs : May(s) => May(s)' /\ Due(s)' = Due(s)
      BY <2>3, <3>6
    <3>9. /\ mine' \subseteq mine \union Expected' /\ store.keys \subseteq store.keys'
          /\ mishaps + broken <= mishaps' + broken' /\ IsFiniteSet(mine')
          /\ mine' \subseteq issued' /\ broken' \in Nat
      BY <3>3, <1>a, <1>m, <2>2
    <3>. QED  BY <3>7, <3>8, <3>9, NothingLost
  <2>. QED  BY <2>1, <2>4, <2>5
<1>2. CASE PublishPoll(t)
  <2>1. /\ fetch' = [fetch EXCEPT ![t] = NoFetch] /\ UNCHANGED <<job, issued, mishaps>>
        /\ store' = IF fetch[t].ok THEN Remembered(fetch[t]) ELSE store
        /\ fetch[t].state \in {2, 3}
    BY <1>2 DEF PublishPoll, vars
  <2>2. \A s \in Tabs \ {t} : May(s)' = May(s) /\ Due(s)' = Due(s)
    BY <2>1, <1>t, StillDue DEF JobOf
  <2>3. ~May(t)'
    BY <2>1, <1>t, EmptyFetches DEF Empty, May, Pending
  <2>4. CASE fetch[t].key
    <3>1. fetch[t].ok /\ Due(t) = fetch[t].game /\ May(t)
      BY <2>4, <1>k DEF AnswerOK, Due, May
    <3>2. store.keys' = store.keys \union {fetch[t].game}
      BY <2>1, <2>4, <3>1 DEF Remembered
    <3>3. \A s \in Tabs : May(s) => Due(s) \in store.keys' \/ (May(s)' /\ Due(s)' = Due(s))
      BY <3>1, <3>2, <2>2
    <3>4. Cardinality(mine \intersect store.keys)' + Cardinality(MayMake') <= Cardinality(Tabs)
      <4>1. MayMake' = MayMake \ {t} /\ t \in MayMake
        BY <2>2, <2>3, <3>1 DEF MayMake
      <4>2. (mine \intersect store.keys)' \in SUBSET ((mine \intersect store.keys) \union {fetch[t].game})
        BY <3>2, <1>m
      <4>3. IsFiniteSet(mine \intersect store.keys)
        BY <1>a, FS_Intersection
      <4>. DEFINE held == mine \intersect store.keys
                  more == held \union {fetch[t].game}
      <4>a. /\ IsFiniteSet(more)
            /\ Cardinality(more)
                   = IF fetch[t].game \in held THEN Cardinality(held) ELSE Cardinality(held) + 1
        BY <4>3, FS_AddElement
      <4>4. IsFiniteSet(held') /\ Cardinality(held') <= Cardinality(more)
        BY <4>2, <4>a, FS_Subset
      <4>5. Cardinality(MayMake') = Cardinality(MayMake) - 1
        BY <4>1, ExpectedCounts, FS_RemoveElement
      <4>6. /\ Cardinality(mine \intersect store.keys) \in Nat /\ Cardinality(MayMake) \in Nat
            /\ Cardinality(held') \in Nat /\ Cardinality(Tabs) \in Nat
        BY <4>3, <4>4, ExpectedCounts, TabsAssumption, FS_CardinalityType
      <4>7. Cardinality(mine \intersect store.keys) + Cardinality(MayMake) <= Cardinality(Tabs)
        BY DEF Accounts
      <4>8. Cardinality(held') <= Cardinality(held) + 1
        BY <4>a, <4>4, <4>6
      <4>. QED  BY <4>5, <4>6, <4>7, <4>8
    <3>. QED  BY <3>2, <3>3, <3>4, <2>1, <1>a, <1>m, NothingLost
  <2>5. CASE ~fetch[t].key
    <3>1. ~May(t)
      BY <2>1, <2>5, <1>k DEF May, PendingOK
    <3>2. store.keys' = store.keys
      BY <2>1, <2>5, <1>t DEF Remembered
    <3>3. \A s \in Tabs : (May(s)' => May(s)) /\ (May(s) => May(s)' /\ Due(s)' = Due(s))
      BY <2>2, <2>3, <3>1
    <3>4. Cardinality(mine \intersect store.keys)' + Cardinality(MayMake') <= Cardinality(Tabs)
      BY <3>2, <3>3, <1>m, PlacesKept
    <3>. QED  BY <3>2, <3>3, <3>4, <2>1, <1>a, <1>m, NothingLost
  <2>. QED  BY <2>4, <2>5
<1>. QED  BY <1>1, <1>2

\* A tab gives up, and with it the game it was due to bring.
LEMMA MishapKeepsAccounts ==
    ASSUME CatalogInv, CatalogInv', ClientInv, ClientInv', Accounts,
           NEW t \in Tabs, NEW left, Empty(left), Mishap(t, left)
    PROVE  Accounts'
<1>t. store \in [last: GameIds \union {NoGame}, keys: SUBSET GameIds] /\ fetch \in [Tabs -> Fetches]
  BY DEF ClientInv
<1>a. IsFiniteSet(mine) /\ mine \subseteq issued /\ broken \in Nat /\ mishaps \in Nat
  BY DEF Accounts
<1>1. fetch' = [fetch EXCEPT ![t] = left] /\ store' = store /\ mine' = mine
  BY DEF Mishap
<1>2. issued' = issued
  BY DEF Mishap, vars, HungUp
<1>3. /\ broken' \in Nat /\ mishaps + broken < mishaps' + broken'
      /\ mishaps + broken <= mishaps' + broken'
  <2>1. CASE broken' = broken + 1 /\ UNCHANGED vars
    BY <2>1, <1>a DEF vars
  <2>2. ASSUME NEW r \in Requests, HungUp(r), broken' = broken
        PROVE  /\ broken' \in Nat /\ mishaps + broken < mishaps' + broken'
               /\ mishaps + broken <= mishaps' + broken'
    BY <2>2, <1>a DEF HungUp
  <2>. QED  BY <2>1, <2>2 DEF Mishap
<1>4. ASSUME NEW s \in Tabs \ {t} PROVE May(s)' = May(s) /\ Due(s)' = Due(s)
  <2>1. fetch'[s] = fetch[s]
    BY <1>1, <1>t
  <2>2. CASE UNCHANGED vars
    BY <2>1, <2>2, StillDue DEF vars, JobOf
  <2>3. ASSUME NEW r \in Requests, WaitsFor(t, r), HungUp(r)
        PROVE  May(s)' = May(s) /\ Due(s)' = Due(s)
    <3>1. Pending(s) => fetch[s].request # r /\ fetch[s].request \in Requests
      BY <2>3 DEF ClientInv, OwnRequests, WaitsFor, PendingOK
    <3>2. OthersStay(r)
      BY <2>3, OtherGoes
    <3>. QED  BY <2>1, <3>1, <3>2, StillDue DEF OthersStay, JobOf
  <2>. QED  BY <2>2, <2>3 DEF Mishap
<1>5. ~May(t)'
  BY <1>1, <1>t DEF Empty, May, Pending
<1>6. Cardinality(mine \intersect store.keys)' + Cardinality(MayMake') <= Cardinality(Tabs)
  BY <1>1, <1>4, <1>5, PlacesKept
<1>7. \A s \in Tabs : May(s) =>
          \/ Due(s) \in {Due(t), NoGame} \union store.keys'
          \/ May(s)' /\ Due(s)' = Due(s)
  BY <1>4
<1>8. /\ IsFiniteSet(mine') /\ mine' \subseteq issued' /\ mine' \subseteq mine \union Expected'
      /\ store.keys \subseteq store.keys'
  BY <1>1, <1>2, <1>a
<1>. QED  BY <1>3, <1>6, <1>7, <1>8, AccountsKept

\* A handler makes a game for a tab that will hear of it, ends with the answer, or fails.
LEMMA HandlerKeepsAccounts ==
    ASSUME CatalogInv, CatalogInv', LockInv, ClientInv, ClientInv', Accounts,
           NEW r \in Requests, Handles(r)
    PROVE  Accounts'
<1>t. store \in [last: GameIds \union {NoGame}, keys: SUBSET GameIds] /\ fetch \in [Tabs -> Fetches]
  BY DEF ClientInv
<1>a. IsFiniteSet(mine) /\ mine \subseteq issued /\ broken \in Nat /\ mishaps \in Nat
  BY DEF Accounts
<1>k. KeysOK /\ OwnRequests /\ \A s \in Tabs : PendingOK(s) /\ AnswerOK(s)
  BY DEF ClientInv
<1>1. Store(r) \/ Rows(r) \/ Serve(r)
  BY DEF Handles
<1>2. /\ store' = store /\ broken' = broken
      /\ fetch' = [t \in Tabs |-> IF WaitsFor(t, r) /\ job'[r] = Idle THEN Answer(r) ELSE fetch[t]]
      /\ mine' = IF \E t \in Tabs : WaitsFor(t, r) THEN mine \union (issued' \ issued) ELSE mine
  BY DEF Handles
<1>3. OthersStay(r) /\ issued \subseteq issued' /\ mishaps' \in {mishaps, mishaps + 1}
  BY <1>1, HandlerKeeps
<1>n. /\ broken' \in Nat /\ mishaps + broken <= mishaps' + broken'
      /\ mishaps' = mishaps + 1 => mishaps + broken < mishaps' + broken'
  <2>1. broken' = broken /\ (mishaps' = mishaps \/ mishaps' = mishaps + 1)
    BY <1>2, <1>3
  <2>2. broken \in Nat /\ mishaps \in Nat
    BY <1>a
  <2>. QED  BY ONLY <2>1, <2>2
<1>4. ASSUME NEW s \in Tabs, ~WaitsFor(s, r) PROVE May(s)' = May(s) /\ Due(s)' = Due(s)
  <2>1. fetch'[s] = fetch[s]
    BY <1>2, <1>4
  <2>2. Pending(s) => fetch[s].request # r /\ fetch[s].request \in Requests
    BY <1>4, <1>k DEF WaitsFor, PendingOK
  <2>. QED  BY <1>3, <2>1, <2>2, StillDue DEF OthersStay, JobOf
<1>5. CASE \A t \in Tabs : ~WaitsFor(t, r)
  <2>1. mine' = mine
    BY <1>2, <1>5
  <2>2. \A s \in Tabs : May(s)' = May(s) /\ Due(s)' = Due(s)
    BY <1>4, <1>5
  <2>3. Cardinality(mine \intersect store.keys)' + Cardinality(MayMake') <= Cardinality(Tabs)
    BY <2>1, <2>2, <1>2, PlacesKept
  <2>4. /\ IsFiniteSet(mine') /\ mine' \subseteq issued' /\ mine' \subseteq mine \union Expected'
        /\ store.keys \subseteq store.keys'
    BY <2>1, <1>2, <1>3, <1>a
  <2>. QED  BY <2>2, <2>3, <2>4, <1>n, NothingLost
<1>6. ASSUME NEW t \in Tabs, WaitsFor(t, r) PROVE Accounts'
  <2>1. /\ fetch[t].request = r /\ Pending(t) /\ job[r].at \in Kept /\ ~fetch[t].key
        /\ JobOf(t) = job[r]
    BY <1>6, <1>k, NamesAssumption DEF WaitsFor, Pending, PendingOK, JobOf
  <2>2. \A s \in Tabs \ {t} : May(s)' = May(s) /\ Due(s)' = Due(s)
    BY <2>1, <1>4, <1>k DEF OwnRequests, WaitsFor, Pending
  <2>3. mine' = mine \union (issued' \ issued)
    BY <1>2, <1>6
  <2>4. Walks(r) \/ Makes(r) \/ Adds(r) \/ Drops(r)
    BY <1>1, <2>1, HandlerKinds
  <2>5. May(t) => job[r].new
    BY <2>1 DEF May
  \* Nothing is lost unless a mishap pays for it; what is new is due to the tab.
  <2>6. ASSUME May(t)' => May(t), issued' = issued,
               May(t) => Due(t) = NoGame \/ (May(t)' /\ Due(t)' = Due(t)) \/ mishaps' = mishaps + 1
        PROVE  Accounts'
    <3>1. mine' = mine
      BY <2>3, <2>6
    <3>2. Cardinality(mine \intersect store.keys)' + Cardinality(MayMake') <= Cardinality(Tabs)
      BY <3>1, <2>2, <2>6, <1>2, PlacesKept
    <3>3. /\ IsFiniteSet(mine') /\ mine' \subseteq issued' /\ mine' \subseteq mine \union Expected'
          /\ store.keys \subseteq store.keys'
      BY <3>1, <1>2, <1>3, <1>a
    <3>4. CASE mishaps' = mishaps + 1
      <4>1. mishaps + broken < mishaps' + broken'
        BY <3>4, <1>n
      <4>2. \A s \in Tabs : May(s) =>
                \/ Due(s) \in {Due(t), NoGame} \union store.keys'
                \/ May(s)' /\ Due(s)' = Due(s)
        BY <2>2
      <4>. QED  BY <4>1, <4>2, <3>2, <3>3, <1>n, AccountsKept
    <3>5. CASE mishaps' # mishaps + 1
      <4>1. \A s \in Tabs : May(s) =>
                \/ Due(s) \in {NoGame} \union store.keys'
                \/ May(s)' /\ Due(s)' = Due(s)
        BY <3>5, <2>2, <2>6
      <4>. QED  BY <4>1, <3>2, <3>3, <1>n, NothingLost
    <3>. QED  BY <3>4, <3>5
  <2>7. CASE Walks(r)
    <3>1. job'[r].at # "version" /\ job'[r].at # "idle" /\ job'[r].new = job[r].new /\ issued' = issued
      BY <2>7 DEF Walks, Goes, Storing
    <3>2. fetch'[t] = fetch[t]
      BY <3>1, <1>2 DEF Idle
    <3>3. (May(t)' => May(t)) /\ Due(t) = NoGame
      BY <2>1, <2>7, <3>1, <3>2 DEF May, Due, JobOf, Pending, Walks
    <3>. QED  BY <3>1, <3>3, <2>6
  <2>8. CASE Makes(r)
    <3>. DEFINE g == job'[r].game
    <3>1. /\ job[r].at = "rows" /\ job'[r].at = "version" /\ job'[r].new /\ job[r].new
          /\ g \in GameIds \ issued /\ issued' = issued \union {g} /\ mishaps' = mishaps
      BY <2>8 DEF Makes, FreshIds
    <3>2. fetch'[t] = fetch[t]
      BY <3>1, <1>2 DEF Idle
    <3>3. May(t) /\ Due(t) = NoGame /\ May(t)' /\ Due(t)' = g
      BY <2>1, <3>1, <3>2 DEF May, Due, JobOf, Pending
    <3>4. mine' = mine \union {g}
      BY <2>3, <3>1
    <3>5. IsFiniteSet(mine') /\ mine' \subseteq issued' /\ mine' \subseteq mine \union Expected'
      <4>1. g \in Expected'
        BY <3>3 DEF Expected, MayMake
      <4>2. IsFiniteSet(mine')
        BY <3>4, <1>a, FS_AddElement
      <4>. QED  BY <4>1, <4>2, <3>1, <3>4, <1>a
    <3>6. (mine \intersect store.keys)' = mine \intersect store.keys
      BY <3>1, <3>4, <1>2, <1>k DEF KeysOK
    <3>7. \A s \in Tabs : May(s)' => May(s)
      BY <2>2, <3>3
    <3>8. Cardinality(mine \intersect store.keys)' + Cardinality(MayMake') <= Cardinality(Tabs)
      BY <3>6, <3>7, PlacesKept
    <3>9. \A s \in Tabs : May(s) =>
              \/ Due(s) \in {NoGame} \union store.keys'
              \/ May(s)' /\ Due(s)' = Due(s)
      BY <2>2, <3>3
    <3>. QED  BY <3>5, <3>8, <3>9, <1>2, <1>n, NothingLost
  <2>9. CASE Adds(r) \/ Drops(r)
    <3>1. fetch'[t] = Answer(r) /\ issued' = issued
      BY <2>9, <1>2, <1>6 DEF Adds, Drops
    <3>2. CASE versions' = versions
      <4>1. Empty(fetch'[t])
        BY <3>1, <3>2, EmptyFetches DEF Answer
      <4>2. ~May(t)'
        BY <4>1 DEF Empty, May, Pending
      <4>3. May(t) => Due(t) = NoGame \/ mishaps' = mishaps + 1
        BY <3>2, <2>1, <2>5, <2>9 DEF Adds, Drops, Due
      <4>. QED  BY <4>2, <4>3, <3>1, <2>6
    <3>3. CASE versions' # versions
      <4>1. Adds(r)
        BY <2>9, <3>3 DEF Drops
      <4>2. fetch'[t] = [NoFetch EXCEPT !.state = 2, !.ok = TRUE, !.game = job[r].game, !.key = job[r].new]
        BY <3>1, <3>3 DEF Answer
      <4>3. NoFetch \in Fetches /\ NoFetch.request = Free
        BY EmptyFetches DEF Empty
      <4>4. fetch'[t].request = Free /\ fetch'[t].game = job[r].game /\ fetch'[t].key = job[r].new
        BY <4>2, <4>3 DEF Fetches
      <4>5. CASE job[r].at = "version"
        <5>1. job[r].new
          BY <4>1, <4>5 DEF Adds
        <5>. QED  BY <5>1, <4>4, <4>5, <3>1, <2>1, <2>6 DEF May, Due, JobOf
      <4>6. CASE job[r].at # "version"
        <5>1. ~job[r].new
          BY <4>1, <4>6 DEF Adds
        <5>2. ~May(t) /\ ~May(t)'
          BY <5>1, <4>4, <2>5 DEF May, Pending
        <5>. QED  BY <5>2, <3>1, <2>6
      <4>. QED  BY <4>5, <4>6
    <3>. QED  BY <3>2, <3>3
  <2>. QED  BY <2>4, <2>7, <2>8, <2>9
<1>. QED  BY <1>5, <1>6

\* The server is killed: what publish() was in the middle of is lost, one game at most.
LEMMA CrashKeepsAccounts ==
    ASSUME CatalogInv, CatalogInv', LockInv, ClientInv, ClientInv', Accounts, ServerDies
    PROVE  Accounts'
<1>t. store \in [last: GameIds \union {NoGame}, keys: SUBSET GameIds] /\ fetch \in [Tabs -> Fetches]
  BY DEF ClientInv
<1>a. IsFiniteSet(mine) /\ mine \subseteq issued /\ broken \in Nat /\ mishaps \in Nat
  BY DEF Accounts
<1>k. \A s \in Tabs : PendingOK(s) /\ AnswerOK(s)
  BY DEF ClientInv
<1>1. /\ store' = store /\ mine' = mine /\ broken' = broken /\ issued' = issued
      /\ mishaps' = mishaps + 1
      /\ fetch' = [t \in Tabs |-> IF fetch[t].state = 1 THEN [NoFetch EXCEPT !.state = 3] ELSE fetch[t]]
  BY DEF ServerDies, Crash
<1>2. \A t \in Tabs : fetch[t].state = 1 => ~May(t)'
  <2>1. ASSUME NEW t \in Tabs, fetch[t].state = 1 PROVE ~May(t)'
    <3>1. Empty(fetch'[t])
      BY <2>1, <1>1, EmptyFetches
    <3>. QED  BY <3>1 DEF Empty, May, Pending
  <2>. QED  BY <2>1
<1>3. \A t \in Tabs : fetch[t].state # 1 => May(t)' = May(t) /\ Due(t)' = Due(t)
  BY <1>1, <1>k, StillDue DEF PendingOK
\* The game of the one handler that holds the lock.
<1>4. PICK x : \A t \in Tabs : fetch[t].state = 1 => Due(t) \in {x, NoGame}
  <2>1. \A t \in Tabs : fetch[t].state = 1 => ~fetch[t].key
    BY <1>k DEF AnswerOK
  <2>2. \A t \in Tabs : Pending(t) /\ JobOf(t).at = "version" => JobOf(t) = job[dbHolder]
    BY <1>k DEF PendingOK, LockInv, Locked, JobOf
  <2>3. \A t \in Tabs : fetch[t].state = 1 => Due(t) \in {job[dbHolder].game, NoGame}
    BY <2>1, <2>2 DEF Due
  <2>. QED  BY <2>3
<1>5. \A t \in Tabs : May(t) =>
          \/ Due(t) \in {x, NoGame} \union store.keys'
          \/ May(t)' /\ Due(t)' = Due(t)
  BY <1>3, <1>4
<1>6. Cardinality(mine \intersect store.keys)' + Cardinality(MayMake') <= Cardinality(Tabs)
  BY <1>1, <1>2, <1>3, PlacesKept
<1>7. /\ IsFiniteSet(mine') /\ mine' \subseteq issued' /\ mine' \subseteq mine \union Expected'
      /\ store.keys \subseteq store.keys' /\ broken' \in Nat
  BY <1>1, <1>a
<1>8. mishaps + broken <= mishaps' + broken' /\ mishaps + broken < mishaps' + broken'
  BY <1>1, <1>a
<1>. QED  BY <1>5, <1>6, <1>7, <1>8, AccountsKept

LEMMA NextAccounts ==
    ASSUME CatalogInv, CatalogInv', LockInv, ClientInv, ClientInv', Accounts, [PNext]_pvars
    PROVE  Accounts'
<1>a. IsFiniteSet(mine) /\ mine \subseteq issued /\ broken \in Nat /\ mishaps \in Nat
  BY DEF Accounts
<1>1. ASSUME NEW t \in Tabs, Reload(t) \/ AnswerLost(t) PROVE Accounts'
  BY <1>1, EmptyFetches, MishapKeepsAccounts DEF Reload, AnswerLost
\* Requests that no tab waits for, and steps that change nothing here.
<1>2. ASSUME UNCHANGED <<client, broken, mine>>, issued' = issued,
             mishaps' \in {mishaps, mishaps + 1},
             \A q \in Requests : (\E t \in Tabs : WaitsFor(t, q)) => job'[q] = job[q]
      PROVE  Accounts'
  <2>1. \A t \in Tabs : May(t)' = May(t) /\ Due(t)' = Due(t)
    BY <1>2, StillDue DEF client, ClientInv, PendingOK, WaitsFor, JobOf
  <2>2. Cardinality(mine \intersect store.keys)' + Cardinality(MayMake') <= Cardinality(Tabs)
    BY <2>1, <1>2, PlacesKept DEF client
  <2>3. /\ IsFiniteSet(mine') /\ mine' \subseteq issued' /\ mine' \subseteq mine \union Expected'
        /\ store.keys \subseteq store.keys' /\ broken' \in Nat
        /\ mishaps + broken <= mishaps' + broken'
    <3>1. store.keys' = store.keys /\ mine' = mine /\ broken' = broken
      BY <1>2 DEF client
    <3>2. mishaps + broken <= mishaps' + broken'
      <4>1. mishaps' = mishaps \/ mishaps' = mishaps + 1
        BY <1>2
      <4>2. mishaps \in Nat /\ broken \in Nat
        BY <1>a
      <4>. QED  BY ONLY <3>1, <4>1, <4>2
    <3>. QED  BY <3>1, <3>2, <1>2, <1>a
  <2>4. \A s \in Tabs : May(s) =>
            \/ Due(s) \in {NoGame} \union store.keys'
            \/ May(s)' /\ Due(s)' = Due(s)
    BY <2>1
  <2>. QED  BY <2>2, <2>3, <2>4, NothingLost
<1>3. CASE Others
  <2>1. CASE RoomEnds
    BY <2>1, <1>2, <1>3 DEF RoomEnds, Others
  <2>2. ASSUME NEW r \in Requests, Arrive(r) PROVE Accounts'
    <3>1. \A t \in Tabs : ~WaitsFor(t, r)
      BY <2>2, ArriveGoes, NamesAssumption
      DEF ClientInv, WaitsFor, Pending, PendingOK, JobOf, Kept, Storing
    <3>. QED  BY <2>2, <3>1, <1>2, <1>3, ArriveGoes DEF OthersStay, Others
  <2>3. ASSUME NEW r \in Requests, HungUp(r), \A t \in Tabs : ~WaitsFor(t, r) PROVE Accounts'
    BY <2>3, <1>2, <1>3, OtherGoes DEF OthersStay, Others, HungUp
  <2>. QED  BY <1>3, <2>1, <2>2, <2>3 DEF Others, Arrive
<1>4. CASE UNCHANGED pvars
  BY <1>2, <1>4 DEF pvars, vars
<1>. QED
  BY <1>1, <1>3, <1>4, PageKeepsAccounts, HandlerKeepsAccounts, CrashKeepsAccounts DEF PNext

-----------------------------------------------------------------------------
(* Theorems                                                                *)

PubInv == CatalogInv /\ LockInv /\ ClientInv /\ Accounts

\* The invariant holds along every behavior of the browser and the catalog together.
THEOREM PublisherInvariance == PSpec => []PubInv
<1>1. PInit => PubInv
  BY InitCatalog, InitLock, InitClient, InitAccounts DEF PInit, PubInv
<1>2. PubInv /\ [PNext]_pvars => PubInv'
  <2> SUFFICES ASSUME PubInv, [PNext]_pvars PROVE PubInv'
    OBVIOUS
  <2>1. CatalogInv /\ LockInv /\ ClientInv /\ Accounts /\ [Next]_vars
    BY PStepIsAStep DEF PubInv
  <2>2. CatalogInv'
    BY <2>1, NextTypes, NextRows, NextJobs, NextClaims DEF CatalogInv, JobsStayOK
  <2>3. LockInv'
    BY <2>1, NextLock
  <2>4. ClientInv'
    BY <2>1, <2>2, NextClient
  <2>5. Accounts'
    BY <2>1, <2>2, <2>4, NextAccounts
  <2>. QED  BY <2>2, <2>3, <2>4, <2>5 DEF PubInv
<1>. QED  BY <1>1, <1>2, PTL DEF PSpec

\* The editor asks nothing of the catalog that the catalog does not expect: every behavior
\* of the two is one of the catalog, so all that is proved of the catalog holds of them.
THEOREM PublisherIsACatalog == PSpec => Spec
<1>1. PInit => Init
  BY DEF PInit
<1>2. PubInv /\ [PNext]_pvars => [Next]_vars
  BY PStepIsAStep DEF PubInv
<1>. QED  BY <1>1, <1>2, PublisherInvariance, PTL DEF PSpec, Spec

\* Behind the editor, too, the catalog is a ledger of the versions of each game.
THEOREM PublisherKeepsALedger == PSpec => ImplementsLedger
BY PublisherIsACatalog, CatalogIsALedger

\* However clicks, answers, closed modals, reloads and crashes interleave, the browser holds
\* the keys of all its games but for those it is still to hear of and one for each mishap,
\* and makes no more games than that (GameBuilder.cpp publishStart, rememberPublish).
THEOREM KeysAreNotLost == PSpec => []KeysAreKept
<1>1. PubInv => KeysAreKept
  <2> SUFFICES ASSUME PubInv PROVE KeysAreKept
    OBVIOUS
  <2>1. /\ IsFiniteSet(mine) /\ mishaps \in Nat /\ broken \in Nat
        /\ Cardinality(Lost) <= mishaps + broken
        /\ Cardinality(mine \intersect store.keys) + Cardinality(MayMake) <= Cardinality(Tabs)
    BY DEF PubInv, Accounts
  <2>. DEFINE away == mine \ store.keys
              held == mine \intersect store.keys
  <2>2. IsFiniteSet(Lost) /\ IsFiniteSet(away) /\ IsFiniteSet(held)
    BY <2>1, FS_Difference, FS_Intersection DEF Lost
  <2>3. away \in SUBSET (Lost \union Expected)
    BY DEF Lost
  <2>4. /\ IsFiniteSet(Lost \union Expected)
        /\ Cardinality(Lost \union Expected)
               = Cardinality(Lost) + Cardinality(Expected) - Cardinality(Lost \intersect Expected)
    BY <2>2, ExpectedCounts, FS_Union
  <2>5. /\ Cardinality(Lost) \in Nat /\ Cardinality(Expected) \in Nat /\ Cardinality(MayMake) \in Nat
        /\ Cardinality(away) \in Nat /\ Cardinality(held) \in Nat /\ Cardinality(Tabs) \in Nat
        /\ Cardinality(Lost \intersect Expected) \in Nat
    BY <2>2, ExpectedCounts, TabsAssumption, FS_CardinalityType, FS_Intersection
  <2>6. Cardinality(away) <= Cardinality(Lost) + Cardinality(Expected)
    <3>1. Cardinality(away) <= Cardinality(Lost \union Expected)
      BY <2>3, <2>4, FS_Subset
    <3>. QED  BY <3>1, <2>4, <2>5
  <2>7. Cardinality(away) <= Cardinality(MayMake) + mishaps + broken
    BY <2>1, <2>5, <2>6, ExpectedCounts
  <2>8. Cardinality(MayMake) <= Cardinality(Awaited) /\ Cardinality(Awaited) \in Nat
    <3>1. MayMake \in SUBSET Awaited
      BY DEF PubInv, ClientInv, PendingOK, MayMake, May, Awaited
    <3>2. Awaited \in SUBSET Tabs
      BY DEF Awaited
    <3>. QED  BY <3>1, <3>2, TabsAssumption, FS_Subset, FS_CardinalityType
  <2>9. Cardinality(mine) = Cardinality(away) + Cardinality(held)
    <3>1. Cardinality(away) = Cardinality(mine) - Cardinality(held)
      BY <2>1, FS_Difference
    <3>2. Cardinality(mine) \in Nat
      BY <2>1, FS_CardinalityType
    <3>. QED  BY <3>1, <3>2, <2>5
  <2>10. Cardinality(away) <= Cardinality(Awaited) + mishaps + broken
    BY <2>1, <2>5, <2>7, <2>8
  <2>11. Cardinality(mine) <= Cardinality(Tabs) + mishaps + broken
    BY <2>1, <2>5, <2>7, <2>9
  <2>. QED  BY <2>10, <2>11 DEF KeysAreKept
<1>. QED  BY PublisherInvariance, <1>1, PTL
=============================================================================
