---------------------------- MODULE ArtifactFiles ----------------------------
(***************************************************************************)
(* One output file in the codebase: atomic replacement (atomic_text_writer *)
(* of json_io.py), the registry of generated artifacts that keeps Metis    *)
(* from reviewing its own reports (generated_artifacts.py), and the        *)
(* JsonSnapshot that reads such a file while others write.                 *)
(*                                                                         *)
(* The file is an inode the path names; a file has two blocks, which a     *)
(* user may change one at a time.  Processes publish, users edit or        *)
(* replace, and a reader copies, in any interleaving.                      *)
(***************************************************************************)
EXTENDS Naturals, FiniteSets, Sequences

CONSTANTS Publishers,  \* processes that publish this file
          MaxInodes,   \* bound: files ever created here
          MaxEdits     \* bound: edits by users

VARIABLES
    inodes,    \* inodes[i]: [blocks, mtime, ctime, nlink, author]
    created,   \* how many inodes exist
    path,      \* the inode the path names, 0 for none
    registry,  \* the committed signature of the path
    lock,      \* who holds BEGIN IMMEDIATE
    pub,       \* pub[p]: the publication of process p
    edits,     \* edits so far
    raced,     \* an edit fell between the two fingerprints of a publication
    snap,      \* the JsonSnapshot being taken
    history    \* history[i]: every content inode i ever had

fileVars == <<inodes, created, path, registry, lock, pub, edits, raced, snap, history>>

Nobody == "nobody"
NoSignature == <<>>
NoFile == [blocks |-> <<0, 0>>, mtime |-> 0, ctime |-> 0, nlink |-> 0, author |-> Nobody]
IdlePublication == [at |-> "idle", inode |-> 0, previous |-> NoSignature, failed |-> FALSE]
NoSnapshot == [at |-> "none", inode |-> 0, before |-> NoFile, copied |-> <<>>]

\* _fingerprint, or None if the path does not exist.
Fingerprint(i) == IF i = 0 THEN NoSignature ELSE <<i, inodes[i].mtime, inodes[i].ctime>>

FileInit ==
    /\ inodes = [i \in 1..MaxInodes |-> NoFile]
    /\ created = 0 /\ path = 0 /\ registry = NoSignature /\ lock = Nobody
    /\ pub = [p \in Publishers |-> IdlePublication]
    /\ edits = 0 /\ raced = FALSE /\ snap = NoSnapshot
    /\ history = [i \in 1..MaxInodes |-> {}]

\* The inode table when the path is taken over by inode i: both change their ctime.
Renamed(i) == [j \in 1..MaxInodes |->
    IF j = i THEN [inodes[i] EXCEPT !.ctime = @ + 1]
    ELSE IF j = path THEN [inodes[j] EXCEPT !.ctime = @ + 1, !.nlink = 0]
    ELSE inodes[j]]

NewFile(blocks, who) == [blocks |-> blocks, mtime |-> 1, ctime |-> 1, nlink |-> 1, author |-> who]

-----------------------------------------------------------------------------
(* A publication *)

\* The complete text goes to a file in a temporary directory and is synced.
WriteTemporary(p) ==
    /\ pub[p].at = "idle" /\ created < MaxInodes
    /\ created' = created + 1
    /\ inodes' = [inodes EXCEPT ![created + 1] = NewFile(<<created + 1, created + 1>>, p)]
    /\ history' = [history EXCEPT ![created + 1] = {<<created + 1, created + 1>>}]
    /\ pub' = [pub EXCEPT ![p] = [IdlePublication EXCEPT !.at = "written", !.inode = created + 1]]
    /\ UNCHANGED <<path, registry, lock, edits, raced, snap>>

\* An error of the writer or the renderer leaves nothing behind.
WriteFails(p) ==
    /\ pub[p].at = "written" /\ pub' = [pub EXCEPT ![p].at = "ended"]
    /\ UNCHANGED <<inodes, created, path, registry, lock, edits, raced, snap, history>>

BeginPublication(p) ==
    /\ pub[p].at = "written" /\ lock = Nobody
    /\ lock' = p
    /\ pub' = [pub EXCEPT ![p].at = "locked", ![p].previous = Fingerprint(path)]
    /\ UNCHANGED <<inodes, created, path, registry, edits, raced, snap, history>>

\* BEGIN IMMEDIATE gives up after five seconds.
LockTimesOut(p) ==
    /\ pub[p].at = "written" /\ lock # Nobody
    /\ pub' = [pub EXCEPT ![p].at = "ended"]
    /\ UNCHANGED <<inodes, created, path, registry, lock, edits, raced, snap, history>>

Replace(p, fails) ==
    /\ pub[p].at = "locked"
    /\ pub' = [pub EXCEPT ![p].at = "replaced", ![p].failed = fails]
    /\ IF fails THEN UNCHANGED <<inodes, path>>
       ELSE inodes' = Renamed(pub[p].inode) /\ path' = pub[p].inode
    /\ UNCHANGED <<created, registry, lock, edits, raced, snap, history>>

\* Mutant: a failed publication records the file it found.
RecordsAlways(p) == path # 0

\* The finally block: a failed publication records nothing unless the file changed.
Records(p) == path # 0 /\ (pub[p].failed => Fingerprint(path) # pub[p].previous)

EndPublication(p, commits) ==
    /\ pub[p].at = "replaced" /\ lock' = Nobody
    /\ registry' = IF Records(p) /\ commits THEN Fingerprint(path) ELSE registry
    /\ pub' = [pub EXCEPT ![p].at = "ended"]
    /\ UNCHANGED <<inodes, created, path, edits, raced, snap, history>>

\* A process dies: SQLite rolls its transaction back.
PublisherDies(p) ==
    /\ pub[p].at \in {"written", "locked", "replaced"}
    /\ pub' = [pub EXCEPT ![p].at = "ended"]
    /\ lock' = IF lock = p THEN Nobody ELSE lock
    /\ UNCHANGED <<inodes, created, path, registry, edits, raced, snap, history>>

-----------------------------------------------------------------------------
(* Users change the file in place or replace it.                              *)

EditBlock(b) ==
    /\ path # 0 /\ edits < MaxEdits /\ edits' = edits + 1
    /\ inodes' = [inodes EXCEPT ![path] =
                    [blocks |-> [@.blocks EXCEPT ![b] = 10 + edits], mtime |-> @.mtime + 1,
                     ctime |-> @.ctime + 1, nlink |-> @.nlink, author |-> "user"]]
    /\ history' = [history EXCEPT ![path] = @ \union {inodes'[path].blocks}]
    /\ raced' = (raced \/ lock # Nobody)
    /\ UNCHANGED <<created, path, registry, lock, pub, snap>>

ReplaceByHand ==
    /\ created < MaxInodes /\ edits < MaxEdits /\ edits' = edits + 1
    /\ created' = created + 1 /\ path' = created + 1
    /\ inodes' = [Renamed(0) EXCEPT ![created + 1] = NewFile(<<20, 20>>, "user")]
    /\ history' = [history EXCEPT ![created + 1] = {<<20, 20>>}]
    /\ raced' = (raced \/ lock # Nobody)
    /\ UNCHANGED <<registry, lock, pub, snap>>

-----------------------------------------------------------------------------
(* JsonSnapshot.__init__: stat, copy, stat.                                   *)

OpenSnapshot ==
    /\ snap.at = "none" /\ path # 0
    /\ snap' = [at |-> "copy", inode |-> path, before |-> inodes[path], copied |-> <<>>]
    /\ UNCHANGED <<inodes, created, path, registry, lock, pub, edits, raced, history>>

CopyBlock ==
    /\ snap.at = "copy" /\ Len(snap.copied) < 2
    /\ snap' = [snap EXCEPT !.copied = Append(@, inodes[snap.inode].blocks[Len(@) + 1])]
    /\ UNCHANGED <<inodes, created, path, registry, lock, pub, edits, raced, history>>

\* Mutant: any change of the number of links excuses the other changes.
ChangedUnlessRelinked(before, after) ==
    before.nlink = after.nlink /\ (before.mtime # after.mtime \/ before.ctime # after.ctime)

\* A file replaced meanwhile loses a link, and may be read all the same.
Changed(before, after) ==
    \/ before.mtime # after.mtime
    \/ before.nlink = after.nlink /\ before.ctime # after.ctime

EndSnapshot ==
    /\ snap.at = "copy" /\ Len(snap.copied) = 2
    /\ snap' = [snap EXCEPT !.at = IF Changed(snap.before, inodes[snap.inode])
                                   THEN "raised" ELSE "taken"]
    /\ UNCHANGED <<inodes, created, path, registry, lock, pub, edits, raced, history>>

\* generated_artifact_paths: what is hidden from the reviews.
Hidden == path # 0 /\ registry = Fingerprint(path)

FileDone == (\A p \in Publishers : pub[p].at \in {"idle", "ended"}) /\ UNCHANGED fileVars

FileNext ==
    \/ \E p \in Publishers :
        \/ WriteTemporary(p) \/ WriteFails(p) \/ BeginPublication(p) \/ LockTimesOut(p)
        \/ PublisherDies(p)
        \/ \E b \in BOOLEAN : Replace(p, b) \/ EndPublication(p, b)
    \/ \E b \in {1, 2} : EditBlock(b)
    \/ ReplaceByHand \/ OpenSnapshot \/ CopyBlock \/ EndSnapshot \/ FileDone

FileSpec == FileInit /\ [][FileNext]_fileVars

-----------------------------------------------------------------------------
(* Properties *)

\* A report is hidden from the reviews only if Metis wrote it: whatever publications
\* fail, die or commit late, a file that a user changed or put in its place is never
\* taken for a generated one, unless the user wrote while a publication held the
\* registry (generated_artifact_publication, generated_artifact_paths).
HiddenIsGenerated == Hidden /\ ~raced => inodes[path].author \in Publishers

\* A snapshot is one version of the file: what was copied block by block is a content
\* that the file had at one time, although users write in place and publications
\* replace the file under the reader (JsonSnapshot.__init__).
SnapshotIsOneVersion == snap.at = "taken" => snap.copied \in history[snap.inode]
=============================================================================
