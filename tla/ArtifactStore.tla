---------------------------- MODULE ArtifactStore ----------------------------
(***************************************************************************)
(* The content-addressed artifact store and the stage completion that      *)
(* commits its receipts to the journal (packages/state/src/artifact).      *)
(*                                                                         *)
(* publishArtifact and completeStage are synchronous, so nothing runs      *)
(* between two steps of a publication but a failing system call, the death *)
(* of the process or a power loss; each system call that changes the file  *)
(* system is a step.  A file is an inode; bytes are their content hash.    *)
(* blobs is the directory as the kernel sees it, durable the entries that  *)
(* have reached the disk.                                                  *)
(***************************************************************************)
EXTENDS StateJournal

CONSTANTS
  Inodes,     \* the files publications create, one each: bounds publications
  MaxFaults   \* bound on corruptions of a blob, process deaths and power losses

ASSUME StoreAssumption ==
  /\ MaxFaults \in Nat
  /\ Nil \notin Inodes \cup Hashes \cup {"corrupt"}
  /\ "corrupt" \notin Hashes

VARIABLES
  content,    \* inode -> the hash of its bytes, Nil before the write
  synced,     \* the inodes whose bytes have been fsynced
  blobs,      \* blobs/sha256: hash -> inode, Nil when there is no entry
  durable,    \* the part of blobs that survives a power loss
  incoming,   \* the inodes with a name in incoming/
  quarantine, \* the inodes with a name in quarantine/
  job,        \* the publication in progress, or Idle
  receipts,   \* the publication receipts a caller holds
  rotted,     \* the hashes whose stored blob the medium corrupted, until it is
              \* published again
  faults      \* how many of them there were

fileVars == <<content, synced, blobs, durable, incoming, quarantine>>

storeVars == <<fileVars, job, receipts, rotted, faults>>

Idle == [pc |-> "idle"]

\* The process is dead until recoverArtifacts has run at the next start.
Down == [pc |-> "down"]

Corrupt == "corrupt"

Used == {i \in Inodes : content[i] # Nil} \cup incoming

FilesInit ==
  /\ content = [i \in Inodes |-> Nil]
  /\ synced = {}
  /\ blobs = [h \in Hashes |-> Nil]
  /\ durable = [h \in Hashes |-> Nil]
  /\ incoming = {}
  /\ quarantine = {}
  /\ job = Idle
  /\ receipts = {}
  /\ rotted = {}
  /\ faults = 0

StoreInit == JournalInit /\ FilesInit

-----------------------------------------------------------------------------
(* publishArtifact.                                                        *)

At(pc) == job.pc = pc

GoTo(pc) == job' = [job EXCEPT !.pc = pc]

\* openTempExclusive: a fresh name in incoming/.
OpenTemp(h) ==
  /\ job = Idle
  /\ Inodes \ Used # {}
  /\ LET i == CHOOSE i \in Inodes \ Used : TRUE
     IN /\ incoming' = incoming \cup {i}
        /\ job' = [pc |-> "write", ino |-> i, temp |-> i, hash |-> h, adopted |-> FALSE]
  /\ UNCHANGED <<content, synced, blobs, durable, quarantine, receipts, rotted, faults>>

WriteAll ==
  /\ At("write")
  /\ content' = [content EXCEPT ![job.ino] = job.hash]
  /\ GoTo("fsync")
  /\ UNCHANGED <<synced, blobs, durable, incoming, quarantine, receipts, rotted, faults>>

\* fsyncFile, then hashAndValidate and the fchmod, which change nothing here: the
\* hash is the one of the bytes just written.
SyncTemp ==
  /\ At("fsync")
  /\ synced' = synced \cup {job.ino}
  /\ GoTo("link")
  /\ UNCHANGED <<content, blobs, durable, incoming, quarantine, receipts, rotted, faults>>

\* linkIntoBlobs: a new entry; or, where the name is taken, the blob that is there
\* is hashed again and adopted, or found corrupt.
LinkBlob ==
  /\ At("link")
  /\ \/ /\ blobs[job.hash] = Nil
        /\ blobs' = [blobs EXCEPT ![job.hash] = job.ino]
        /\ GoTo("resync")
     \/ /\ blobs[job.hash] # Nil /\ content[blobs[job.hash]] = job.hash
        /\ job' = [job EXCEPT !.pc = "dirsync", !.ino = blobs[job.hash], !.adopted = TRUE]
        /\ UNCHANGED blobs
     \/ /\ blobs[job.hash] # Nil /\ content[blobs[job.hash]] # job.hash
        /\ GoTo("quarantine")
        /\ UNCHANGED blobs
  /\ UNCHANGED <<content, synced, durable, incoming, quarantine, receipts, rotted, faults>>

\* quarantineAndRetry: a second name for the corrupt blob before the first goes.
QuarantineLink ==
  /\ At("quarantine")
  /\ quarantine' = quarantine \cup {blobs[job.hash]}
  /\ GoTo("unlink")
  /\ UNCHANGED <<content, synced, blobs, durable, incoming, receipts, rotted, faults>>

UnlinkCorrupt ==
  /\ At("unlink")
  /\ blobs' = [blobs EXCEPT ![job.hash] = Nil]
  /\ GoTo("relink")
  /\ UNCHANGED <<content, synced, durable, incoming, quarantine, receipts, rotted, faults>>

RelinkBlob ==
  /\ At("relink")
  /\ blobs' = [blobs EXCEPT ![job.hash] = job.ino]
  /\ GoTo("resync")
  /\ UNCHANGED <<content, synced, durable, incoming, quarantine, receipts, rotted, faults>>

\* The blob's mode and link count are fsynced once more; its bytes already were.
ResyncBlob ==
  /\ At("resync")
  /\ synced' = synced \cup {job.ino}
  /\ GoTo("dirsync")
  /\ UNCHANGED <<content, blobs, durable, incoming, quarantine, receipts, rotted, faults>>

\* Mutant of SyncBlobsDir: the entry of an adopted blob is taken to be durable.
SyncBlobsDirOnce ==
  /\ At("dirsync")
  /\ durable' = IF job.adopted THEN durable ELSE blobs
  /\ rotted' = {h \in rotted : blobs[h] = Nil \/ content[blobs[h]] # h}
  /\ GoTo("done")
  /\ UNCHANGED <<content, synced, blobs, incoming, quarantine, receipts, faults>>

SyncBlobsDir ==
  /\ At("dirsync")
  /\ durable' = blobs
  /\ rotted' = {h \in rotted : blobs[h] = Nil \/ content[blobs[h]] # h}
  /\ GoTo("done")
  /\ UNCHANGED <<content, synced, blobs, incoming, quarantine, receipts, faults>>

FreshIds ==
  {a \in Artifacts : ~Exists(tables.artifact, a) /\ \A r \in receipts : r.artifact # a}

\* The temporary name goes, if it can be removed, and the caller has a receipt
\* under a fresh artifact id.
ReturnReceipt ==
  /\ At("done")
  /\ FreshIds # {}
  /\ receipts' = receipts \cup
       {[artifact |-> CHOOSE a \in FreshIds : TRUE, hash |-> job.hash, ino |-> job.ino,
         adopted |-> job.adopted]}
  /\ \E left \in SUBSET {job.temp} : incoming' = (incoming \ {job.temp}) \cup left
  /\ job' = Idle
  /\ UNCHANGED <<content, synced, blobs, durable, quarantine, rotted, faults>>

\* Any system call may fail, an expected hash may differ: publishArtifact throws
\* and leaves the temporary file, and whatever it had linked, where they are.
PublishFails ==
  /\ job.pc \notin {"idle", "down", "done"}
  /\ job' = Idle
  /\ UNCHANGED <<fileVars, receipts, rotted, faults>>

-----------------------------------------------------------------------------
(* completeStage.                                                          *)

\* The names an inode still has; the pinned descriptor keeps its bytes alive.
Links(i) ==
  Cardinality({h \in Hashes : blobs[h] = i}) + Cardinality({i} \cap incoming)
    + Cardinality({i} \cap quarantine)

\* assertArtifactStillValid: the descriptor's file is the one the blob's path names,
\* and its bytes are hashed again unless it was only ever open for reading.
StillValid(r) ==
  /\ Links(r.ino) >= 1
  /\ content[r.ino] \in Hashes \cup {Corrupt}
  /\ blobs[r.hash] = r.ino
  /\ r.adopted \/ content[r.ino] = r.hash

\* The stage's payload: one ref per receipt, under the name the caller gives it.
StageCompleted(run, given, names, succeeds) ==
  [type |-> "stage.completed", run |-> run, succeeds |-> succeeds,
   refs |-> {[artifact |-> r.artifact, name |-> names[r], hash |-> r.hash] : r \in given}]

\* Receipts are spent whether the command commits or not: their descriptors are
\* closed in the finally.  names is not injective when a caller repeats a name.
CompleteStage(run, given, names, succeeds) ==
  LET e == StageCompleted(run, given, names, succeeds)
  IN /\ job = Idle
     /\ given \subseteq receipts
     /\ \A r \in given : StillValid(r)
     /\ CommitAsserting(e, {r.hash : r \in given})
     /\ receipts' = receipts \ given
     /\ UNCHANGED <<fileVars, job, rotted, faults>>

CompleteStageRefused(run, given, names, succeeds) ==
  /\ job = Idle
  /\ given # {} /\ given \subseteq receipts
  /\ \/ Refused(LoadScoped(tables, Scope(StageCompleted(run, given, names, succeeds))),
                StageCompleted(run, given, names, succeeds))
     \/ \E r \in given : ~StillValid(r)
  /\ receipts' = receipts \ given
  /\ UNCHANGED <<journalVars, fileVars, job, rotted, faults>>

-----------------------------------------------------------------------------
(* Faults and recovery.                                                    *)

\* The medium changes the bytes of a stored blob.
Rot(h) ==
  /\ faults < MaxFaults
  /\ blobs[h] # Nil /\ content[blobs[h]] = h
  /\ content' = [content EXCEPT ![blobs[h]] = Corrupt]
  /\ rotted' = rotted \cup {h}
  /\ faults' = faults + 1
  /\ UNCHANGED <<synced, blobs, durable, incoming, quarantine, job, receipts>>

\* The process dies: descriptors, receipts and the publication are gone, the
\* file system is as it was.
ProcessDies ==
  /\ job # Down /\ faults < MaxFaults
  /\ job' = Down
  /\ receipts' = {}
  /\ faults' = faults + 1
  /\ UNCHANGED <<fileVars, rotted>>

\* The machine loses power: each directory entry that was not synced is there or
\* not, and bytes that were not synced may be anything.  The database is in WAL
\* mode with synchronous = FULL, so a committed transaction stays.
PowerFails ==
  /\ job # Down /\ faults < MaxFaults
  /\ \E keep \in SUBSET Hashes :
       /\ blobs' = [h \in Hashes |-> IF h \in keep THEN blobs[h] ELSE durable[h]]
       /\ durable' = blobs'
  /\ \E lost \in SUBSET {i \in Inodes : content[i] # Nil /\ i \notin synced} :
       content' = [i \in Inodes |-> IF i \in lost THEN Corrupt ELSE content[i]]
  /\ \E kept \in SUBSET quarantine : quarantine' = kept
  /\ synced' = {i \in Inodes : content[i] # Nil}
  /\ job' = Down
  /\ receipts' = {}
  /\ faults' = faults + 1
  /\ UNCHANGED <<incoming, rotted>>

\* recoverArtifacts, at the start of the next daemon: every name in incoming/ is
\* removed, a blob never is.
RecoverArtifacts ==
  /\ job = Down
  /\ incoming' = {}
  /\ job' = Idle
  /\ UNCHANGED <<content, synced, blobs, durable, quarantine, receipts, rotted, faults>>

\* listArtifacts: a row is verified when the blob at its path hashes to its name.
Verified(a) ==
  LET h == tables.artifact[a].hash IN blobs[h] # Nil /\ content[blobs[h]] = h

-----------------------------------------------------------------------------
CONSTANT Commands  \* the events a caller commits without publishing anything

ASSUME CommandsAssumption == \A e \in Commands : WellFormed(e)

PublicCommit(e) ==
  /\ job = Idle
  /\ Commit(e)
  /\ UNCHANGED storeVars

Publishing ==
  /\ \/ \E h \in Hashes : OpenTemp(h)
     \/ WriteAll
     \/ SyncTemp
     \/ LinkBlob
     \/ QuarantineLink
     \/ UnlinkCorrupt
     \/ RelinkBlob
     \/ ResyncBlob
     \/ SyncBlobsDir
     \/ ReturnReceipt
     \/ PublishFails
     \/ RecoverArtifacts
  /\ UNCHANGED journalVars

Completing ==
  \E run \in Runs, succeeds \in BOOLEAN : \E given \in SUBSET receipts :
    \E names \in [given -> Names] :
      \/ CompleteStage(run, given, names, succeeds)
      \/ CompleteStageRefused(run, given, names, succeeds)

Faults ==
  /\ \/ \E h \in Hashes : Rot(h)
     \/ ProcessDies
     \/ PowerFails
  /\ UNCHANGED journalVars

StoreNext ==
  \/ \E e \in Commands : PublicCommit(e)
  \/ Publishing
  \/ Completing
  \/ Faults

storeAllVars == <<journalVars, storeVars>>

StoreSpec ==
  /\ StoreInit
  /\ [][StoreNext]_storeAllVars

-----------------------------------------------------------------------------
(* What the store promises.                                                *)

\* A committed artifact row survives everything short of a corrupted medium: the
\* entry its path names is on the disk and the bytes there, fsynced, hash to it.
\* No power loss, failed publication or recovery takes the blob away.
CommittedIsDurable ==
  \A a \in Artifacts :
    Exists(tables.artifact, a) /\ tables.artifact[a].hash \notin rotted =>
      LET i == durable[tables.artifact[a].hash]
      IN /\ i # Nil /\ i \in synced /\ content[i] = tables.artifact[a].hash
         /\ Verified(a)

=============================================================================
