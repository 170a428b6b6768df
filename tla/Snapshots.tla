------------------------------- MODULE Snapshots ------------------------------
(***************************************************************************)
(* A project's directory through its life: snapshots of it and their       *)
(* restoration (api/adapters/archive.py, api/archive/router.py,            *)
(* worker_external.py), the retirement of a project and the removal of its *)
(* files after the retention period (sampling_routes.py,                   *)
(* worker_maintenance.py), and its second creation under the same name     *)
(* (lifecycle_routes.py).                                                  *)
(*                                                                         *)
(* A file is the number of the write that made it, 0 where there is none.  *)
(* A snapshot's object is kept below the project's directory or in remote  *)
(* storage; the list of snapshots is always below the directory.           *)
(***************************************************************************)
EXTENDS Naturals, Sequences, FiniteSets

CONSTANTS
    Paths,      \* the project's files
    Unlocked,   \* those written without the project lock (search data)
    Retention,  \* how many snapshots are kept
    Happenings  \* bound: what each behaviour may do, see SnapshotsAssumption

Happening == {"jobs", "writes", "troubles", "deaths", "losses", "retirements"}

ASSUME SnapshotsAssumption ==
    /\ Unlocked \subseteq Paths /\ IsFiniteSet(Paths)
    /\ Retention \in Nat \ {0}
    /\ Happenings \subseteq [Happening -> Nat]

VARIABLES
    row,      \* the project's row: status and how long ago it was retired
    dir,      \* its directory: files and list of snapshots
    objects,  \* the stored snapshots, by number
    remote,   \* whether an object storage is configured
    work,     \* the project's active job, if any
    create,   \* the request that creates the project again
    sweep,    \* the purge of retired projects
    writes,   \* how many writes there were
    dangling,     \* history: deleted objects that are still listed
    happens   \* what may still happen

snapshotVars == <<row, dir, objects, remote, work, create, sweep, writes, dangling, happens>>

Nothing == [p \in Paths |-> 0]
Present(files) == {p \in Paths : files[p] # 0}
NoDir == [exists |-> FALSE, files |-> Nothing, list |-> <<>>]

\* Steps of a snapshot: hash, add, verify, upload, head, record, retain, save.
\* Steps of a restoration: read, download, compare, replace, save.
Resting == [kind |-> "none", step |-> "none", id |-> 0, overwrite |-> FALSE,
            todo |-> {}, hashed |-> Nothing, added |-> Nothing, list |-> <<>>,
            held |-> TRUE, previous |-> "none"]

CanHappen(event) == happens[event] > 0
Use(event) == happens' = [happens EXCEPT ![event] = @ - 1]

SnapshotsInit ==
    /\ happens \in Happenings /\ remote \in BOOLEAN
    /\ row = [status |-> "ready", archived |-> "no"]
    /\ dir = [exists |-> TRUE, files |-> [p \in Paths |-> 1], list |-> <<>>]
    /\ objects = <<>> /\ work = Resting
    /\ create = "none" /\ sweep = "none"
    /\ writes = 1 /\ dangling = {}

-----------------------------------------------------------------------------
(* Requests.                                                               *)

\* Routes find only projects that are not retired.
Visible == row.archived = "no" /\ row.status # "archived"
Busy == work # Resting

Listed == {dir.list[i].id : i \in {j \in DOMAIN dir.list : dir.list[j].status = "available"}}

\* The job and the project's status are committed before the job is published.
EnqueueJob(kind, id, overwrite) ==
    /\ Visible /\ ~Busy /\ CanHappen("jobs")
    /\ kind = "restore" => id \in Listed
    /\ kind = "archive" => id = 0 /\ ~overwrite
    /\ work' = [Resting EXCEPT !.kind = kind, !.step = "enqueued", !.id = id,
                               !.overwrite = overwrite, !.previous = row.status]
    /\ row' = [row EXCEPT !.status = IF kind = "archive" THEN "archiving" ELSE "restoring"]
    /\ Use("jobs")
    /\ UNCHANGED <<dir, objects, remote, create, sweep, writes, dangling>>

Publish ==
    /\ work.step = "enqueued" /\ work.kind # "bootstrap"
    /\ work' = [work EXCEPT !.step = "queued"]
    /\ UNCHANGED <<row, dir, objects, remote, create, sweep, writes, dangling, happens>>

PublishFails ==
    /\ work.step = "enqueued" /\ work.kind # "bootstrap" /\ CanHappen("troubles")
    /\ work' = Resting /\ row' = [row EXCEPT !.status = work.previous]
    /\ Use("troubles")
    /\ UNCHANGED <<dir, objects, remote, create, sweep, writes, dangling>>

-----------------------------------------------------------------------------
(* The job and its end. It holds the project lock, which it may lose.      *)

ClaimJob ==
    /\ work.step = "queued" /\ work.kind \in {"archive", "restore"}
    /\ work' = IF work.kind = "archive"
               THEN [work EXCEPT !.step = "hash", !.todo = Present(dir.files),
                                 !.id = Len(objects) + 1]
               ELSE [work EXCEPT !.step = "read"]
    /\ UNCHANGED <<row, dir, objects, remote, create, sweep, writes, dangling, happens>>

\* A job whose lock was lost ends in failure, whatever it has done. A failure
\* marks even a retired project.
JobEnds(result) ==
    /\ work' = Resting
    /\ row' = [row EXCEPT !.status =
                  IF result = "failed" \/ ~work.held THEN "failed"
                  ELSE IF row.status # "archived" /\ row.archived = "no" THEN "ready" ELSE @]

Running == work.step \notin {"none", "enqueued", "queued", "lost"}

LoseLock ==
    /\ Running /\ work.held /\ CanHappen("losses")
    /\ work' = [work EXCEPT !.held = FALSE]
    /\ Use("losses")
    /\ UNCHANGED <<row, dir, objects, remote, create, sweep, writes, dangling>>

\* The broker delivers the job of a dead worker again, and it starts anew; or
\* the job is found stale.
DieAndRestart ==
    /\ Running /\ CanHappen("deaths")
    /\ \E step \in {"queued", "lost"} :
        work' = [Resting EXCEPT !.kind = work.kind, !.step = step, !.overwrite = work.overwrite,
                                !.id = IF work.kind = "restore" THEN work.id ELSE 0]
    /\ Use("deaths")
    /\ UNCHANGED <<row, dir, objects, remote, create, sweep, writes, dangling>>

ReclaimStale ==
    /\ work.step = "lost"
    /\ work' = Resting
    /\ row' = [row EXCEPT !.status = IF @ = "archived" THEN @ ELSE "failed"]
    /\ UNCHANGED <<dir, objects, remote, create, sweep, writes, dangling, happens>>

-----------------------------------------------------------------------------
(* Taking a snapshot.                                                      *)

\* Files are hashed one by one, then added to the archive one by one.
HashFile ==
    /\ work.step = "hash"
    /\ IF Present(dir.files) = {} THEN JobEnds("failed")  \* no directory, or no files
       ELSE /\ UNCHANGED row
            /\ \/ /\ work.todo = {}
                  /\ work' = [work EXCEPT !.step = "add", !.todo = Present(work.hashed)]
               \/ \E p \in work.todo :
                  work' = [work EXCEPT !.hashed[p] = dir.files[p], !.todo = @ \ {p}]
    /\ UNCHANGED <<dir, objects, remote, create, sweep, writes, dangling, happens>>

AddFile ==
    /\ work.step = "add"
    /\ \/ work.todo = {} /\ work' = [work EXCEPT !.step = "verify"]
       \/ \E p \in work.todo :
            work' = [work EXCEPT !.added[p] = dir.files[p], !.todo = @ \ {p}]
    /\ UNCHANGED <<row, dir, objects, remote, create, sweep, writes, dangling, happens>>

\* The archive is read back: a file that was written in between shows.
VerifySnapshot ==
    /\ work.step = "verify"
    /\ IF work.added = work.hashed
       THEN work' = [work EXCEPT !.step = "upload"] /\ UNCHANGED row
       ELSE JobEnds("failed")
    /\ UNCHANGED <<dir, objects, remote, create, sweep, writes, dangling, happens>>

\* The stored object is whole or, with a trouble, damaged; or the upload fails.
\* A local object needs no project directory: it is made.
Upload ==
    /\ work.step = "upload"
    /\ \/ /\ objects' = Append(objects, work.added)
          /\ work' = [work EXCEPT !.step = "head"] /\ UNCHANGED <<row, happens>>
       \/ /\ CanHappen("troubles") /\ Use("troubles")
          /\ \/ /\ objects' = Append(objects, [work.added EXCEPT ![CHOOSE p \in Paths : TRUE] = 99])
                /\ work' = [work EXCEPT !.step = "head"] /\ UNCHANGED row
             \/ JobEnds("failed") /\ UNCHANGED objects
    /\ dir' = IF remote THEN dir ELSE [dir EXCEPT !.exists = TRUE]
    /\ UNCHANGED <<remote, create, sweep, writes, dangling>>

\* A damaged object is deleted and the job fails.
HeadObject ==
    IF objects[work.id] = work.added
    THEN work' = [work EXCEPT !.step = "record"] /\ UNCHANGED <<row, objects>>
    ELSE JobEnds("failed") /\ objects' = [objects EXCEPT ![work.id] = Nothing]

VerifyUpload ==
    /\ work.step = "head" /\ HeadObject
    /\ UNCHANGED <<dir, remote, create, sweep, writes, dangling, happens>>

\* Snapshots beyond the newest Retention ones, newest first.
Surplus(list) ==
    LET available == {i \in DOMAIN list : list[i].status = "available"}
    IN {i \in available : Cardinality({j \in available : j >= i}) > Retention}

RecordEntry ==
    /\ work.step = "record"
    /\ LET entry == [id |-> work.id, status |-> "available", files |-> work.added,
                     error |-> FALSE, restored |-> FALSE]
           list == Append(dir.list, entry)
       IN work' = [work EXCEPT !.step = "retain", !.list = list,
                               !.todo = {list[i].id : i \in Surplus(list)}]
    /\ UNCHANGED <<row, dir, objects, remote, create, sweep, writes, dangling, happens>>

\* An object that cannot be deleted keeps its entry; a local object that is no
\* longer there cannot.
DeleteSurplus ==
    /\ work.step = "retain" /\ work.todo # {}
    /\ \E id \in work.todo :
        LET at == CHOOSE i \in DOMAIN work.list : work.list[i].id = id
            gone == ~remote /\ objects[id] = Nothing
        IN /\ \A other \in work.todo : id >= other
           /\ \/ /\ ~gone
                 /\ objects' = [objects EXCEPT ![id] = Nothing]
                 /\ work' = [work EXCEPT !.todo = @ \ {id}, !.list[at].status = "expired",
                                         !.list[at].error = FALSE]
                 /\ dangling' = dangling \cup {id} /\ UNCHANGED happens
              \/ /\ gone \/ CanHappen("troubles")
                 /\ work' = [work EXCEPT !.todo = @ \ {id}, !.list[at].error = TRUE]
                 /\ happens' = IF gone THEN happens ELSE [happens EXCEPT !.troubles = @ - 1]
                 /\ UNCHANGED <<objects, dangling>>
    /\ UNCHANGED <<row, dir, remote, create, sweep, writes>>

SaveList ==
    /\ \/ work.step = "retain" /\ work.todo = {}
       \/ work.step = "save" /\ work.kind = "restore"
    /\ dir' = [dir EXCEPT !.exists = TRUE, !.list = work.list]
    /\ JobEnds("done")
    /\ dangling' = dangling \ {work.list[i].id : i \in {j \in DOMAIN work.list : work.list[j].status = "expired"}}
    /\ UNCHANGED <<objects, remote, create, sweep, writes, happens>>

-----------------------------------------------------------------------------
(* Restoring one.                                                          *)

EntryOf(list, id) == {i \in DOMAIN list : list[i].id = id /\ list[i].status = "available"}

ReadList ==
    /\ work.step = "read"
    /\ IF EntryOf(dir.list, work.id) = {} THEN JobEnds("failed")
       ELSE work' = [work EXCEPT !.step = "download", !.list = dir.list] /\ UNCHANGED row
    /\ UNCHANGED <<dir, objects, remote, create, sweep, writes, dangling, happens>>

\* The object must be there and be the one that was listed.
Download ==
    /\ work.step = "download"
    /\ LET at == CHOOSE i \in EntryOf(work.list, work.id) : TRUE
       IN IF objects[work.id] = work.list[at].files
          THEN /\ work' = [work EXCEPT !.step = "compare", !.added = objects[work.id]]
               /\ UNCHANGED row
          ELSE JobEnds("failed")
    /\ UNCHANGED <<dir, objects, remote, create, sweep, writes, dangling, happens>>

Conflicts == {p \in Present(work.added) : dir.files[p] \notin {0, work.added[p]}}

\* A plausible bug: files are compared only where they are to be overwritten.
CompareWhenOverwriting ==
    /\ work.step = "compare"
    /\ IF Conflicts # {} /\ work.overwrite THEN JobEnds("failed")
       ELSE /\ work' = [work EXCEPT !.step = "replace", !.todo = Present(work.added)]
            /\ UNCHANGED row
    /\ UNCHANGED <<dir, objects, remote, create, sweep, writes, dangling, happens>>

Compare ==
    /\ work.step = "compare"
    /\ IF Conflicts # {} /\ ~work.overwrite THEN JobEnds("failed")
       ELSE /\ work' = [work EXCEPT !.step = "replace", !.todo = Present(work.added)]
            /\ UNCHANGED row
    /\ UNCHANGED <<dir, objects, remote, create, sweep, writes, dangling, happens>>

\* Files that the snapshot does not hold stay.
ReplaceFile ==
    /\ work.step = "replace"
    /\ \/ /\ work.todo = {}
          /\ LET at == CHOOSE i \in EntryOf(work.list, work.id) : TRUE
             IN work' = [work EXCEPT !.step = "save", !.list[at].restored = TRUE]
          /\ UNCHANGED dir
       \/ \E p \in work.todo :
            /\ dir' = [dir EXCEPT !.exists = TRUE, !.files[p] = work.added[p]]
            /\ work' = [work EXCEPT !.todo = @ \ {p}]
    /\ UNCHANGED <<row, objects, remote, create, sweep, writes, dangling, happens>>

-----------------------------------------------------------------------------
(* Other writers of the directory.                                         *)

Write(p) ==
    /\ Visible /\ dir.exists /\ CanHappen("writes")
    /\ p \in Unlocked \/ ~Running \/ ~work.held
    /\ dir' = [dir EXCEPT !.files[p] = writes + 1]
    /\ writes' = writes + 1
    /\ Use("writes")
    /\ UNCHANGED <<row, objects, remote, work, create, sweep, dangling>>

\* The project is retired; its files stay.
Retire ==
    /\ Visible /\ ~Busy /\ CanHappen("retirements")
    /\ row' = [status |-> "archived", archived |-> "recent"]
    /\ Use("retirements")
    /\ UNCHANGED <<dir, objects, remote, work, create, sweep, writes, dangling>>

Age ==
    /\ row.archived = "recent"
    /\ row' = [row EXCEPT !.archived = "old"]
    /\ UNCHANGED <<dir, objects, remote, work, create, sweep, writes, dangling, happens>>

\* Local objects go with the directory.
Emptied == IF remote THEN objects ELSE [i \in DOMAIN objects |-> Nothing]

-----------------------------------------------------------------------------
(* Creating the project again: the row and the job are committed, then the *)
(* old directory is renamed and a new one made, then the job is published. *)

Recreate ==
    /\ row.archived # "no" /\ create = "none" /\ ~Busy
    /\ row' = [status |-> "initializing", archived |-> "no"]
    /\ work' = [Resting EXCEPT !.kind = "bootstrap", !.step = "enqueued"]
    /\ create' = IF dir.exists THEN "aside" ELSE "init"
    /\ UNCHANGED <<dir, objects, remote, sweep, writes, dangling, happens>>

Aside ==
    /\ create = "aside"
    /\ IF dir.exists
       THEN /\ dir' = NoDir /\ objects' = Emptied /\ create' = "init"
            /\ UNCHANGED <<row, work>>
       ELSE \* nothing to rename: the request fails
            /\ create' = "none" /\ work' = Resting /\ row' = [row EXCEPT !.status = "failed"]
            /\ UNCHANGED <<dir, objects>>
    /\ UNCHANGED <<remote, sweep, writes, dangling, happens>>

InitDirectory ==
    /\ create = "init"
    /\ dir' = [dir EXCEPT !.exists = TRUE, !.files = [p \in Paths |-> writes + 1]]
    /\ writes' = writes + 1
    /\ create' = "publish" /\ row' = [row EXCEPT !.status = "bootstrapping"]
    /\ UNCHANGED <<objects, remote, work, sweep, dangling, happens>>

PublishFirst ==
    /\ create = "publish"
    /\ create' = "none" /\ work' = [work EXCEPT !.step = "queued"]
    /\ UNCHANGED <<row, dir, objects, remote, sweep, writes, dangling, happens>>

\* The server ends. The scheduler publishes a first job that nobody published.
CreateDies ==
    /\ create # "none" /\ CanHappen("deaths")
    /\ create' = "none" /\ work' = [work EXCEPT !.step = "queued"]
    /\ Use("deaths")
    /\ UNCHANGED <<row, dir, objects, remote, sweep, writes, dangling>>

RunBootstrap ==
    /\ work.step = "queued" /\ work.kind = "bootstrap"
    /\ JobEnds(IF dir.exists THEN "done" ELSE "failed")
    /\ UNCHANGED <<dir, objects, remote, create, sweep, writes, dangling, happens>>

-----------------------------------------------------------------------------
(* Purging what was retired long ago: no lock is held, and the row is not  *)
(* read again.                                                             *)

SweepReads ==
    /\ sweep = "none" /\ row.archived = "old" /\ row.status # "purged"
    /\ sweep' = "check"
    /\ UNCHANGED <<row, dir, objects, remote, work, create, writes, dangling, happens>>

SweepChecks ==
    /\ sweep = "check"
    /\ sweep' = IF Busy THEN "none" ELSE "remove"
    /\ UNCHANGED <<row, dir, objects, remote, work, create, writes, dangling, happens>>

\* A removal that fails halfway leaves the rest for the next sweep.
SweepRemoves ==
    /\ sweep = "remove"
    /\ \/ /\ dir' = NoDir /\ objects' = Emptied /\ sweep' = "commit" /\ UNCHANGED happens
       \/ /\ dir.exists /\ CanHappen("troubles") /\ Use("troubles")
          /\ \E rest \in SUBSET Present(dir.files) :
                dir' = [dir EXCEPT !.files = [p \in Paths |-> IF p \in rest THEN @[p] ELSE 0]]
          /\ sweep' = "none" /\ UNCHANGED objects
    /\ dangling' = IF row.archived = "no" THEN dangling \cup DOMAIN objects ELSE dangling
    /\ UNCHANGED <<row, remote, work, create, writes>>

SweepCommits ==
    /\ sweep = "commit"
    /\ row' = [row EXCEPT !.status = "purged"] /\ sweep' = "none"
    /\ UNCHANGED <<dir, objects, remote, work, create, writes, dangling, happens>>

SnapshotsNext ==
    \/ \E kind \in {"archive", "restore"}, id \in {0} \cup DOMAIN objects, overwrite \in BOOLEAN :
            EnqueueJob(kind, id, overwrite)
    \/ Publish \/ PublishFails
    \/ ClaimJob \/ LoseLock \/ DieAndRestart \/ ReclaimStale
    \/ HashFile \/ AddFile \/ VerifySnapshot \/ Upload \/ VerifyUpload
    \/ RecordEntry \/ DeleteSurplus \/ SaveList
    \/ ReadList \/ Download \/ Compare \/ ReplaceFile
    \/ \E p \in Paths : Write(p)
    \/ Retire \/ Age \/ Recreate \/ Aside \/ InitDirectory \/ PublishFirst \/ CreateDies \/ RunBootstrap
    \/ SweepReads \/ SweepChecks \/ SweepRemoves \/ SweepCommits

SnapshotsSpec == SnapshotsInit /\ [][SnapshotsNext]_snapshotVars

-----------------------------------------------------------------------------
(* Properties.                                                             *)

\* The state keeps to its values; a job's step belongs to its kind.
SnapshotsTypeOK ==
    /\ row.archived \in {"no", "recent", "old"}
    /\ row.status \in {"ready", "failed", "archiving", "restoring", "archived", "purged",
                       "initializing", "bootstrapping"}
    /\ dir.exists \in BOOLEAN /\ dir.files \in [Paths -> 0 .. writes]
    /\ \A i \in DOMAIN dir.list : dir.list[i].id \in DOMAIN objects
    /\ work.kind \in {"none", "archive", "restore", "bootstrap"}
    /\ work.step \in {"hash", "add", "verify", "upload", "head", "record", "retain"}
            => work.kind = "archive"
    /\ work.step \in {"read", "download", "compare", "replace", "save"} => work.kind = "restore"
    /\ work.held \in BOOLEAN /\ create \in {"none", "aside", "init", "publish"}
    /\ sweep \in {"none", "check", "remove", "commit"}
    /\ happens \in [Happening -> Nat]

\* A snapshot that is listed as available can be restored: its object is there
\* and is what was listed. Only the death of a worker between the deletion of
\* surplus objects and the saving of the list comes between, and a purge that
\* does not spare a live project (create_archive, _apply_retention).
ListedIsRestorable ==
    \A i \in DOMAIN dir.list :
        LET entry == dir.list[i]
        IN entry.status = "available" /\ entry.id \notin dangling => objects[entry.id] = entry.files

\* A restoration that was not told to overwrite changes no file that was
\* there, even one it began before and did not end (restore_archive). The
\* files written without the lock are left out, and jobs that lost it.
RestoreKeepsEdits ==
    [][\A p \in Paths \ Unlocked :
        work.step = "replace" /\ work' # work /\ ~work.overwrite /\ work.held /\ dir.files[p] # 0
            => dir'.files[p] = dir.files[p]]_snapshotVars

\* Archiving keeps what it lists, and restoring spares what it was not told to take.
RestoreIsSafe == []ListedIsRestorable /\ RestoreKeepsEdits
=============================================================================
