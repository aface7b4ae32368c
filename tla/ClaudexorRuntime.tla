--------------------------- MODULE ClaudexorRuntime ---------------------------
(* The Claudexor runtimes of one application home: versions installed side by   *)
(* side, a descriptor that selects the active one, and the attestations and     *)
(* activation records behind it (runtime-claudexor).  Every mutation is a call  *)
(* of a process of its own that first takes the operation lock, a file a        *)
(* contender may take over when its owner is gone.  A process can die between    *)
(* any two file operations.                                                  *)
EXTENDS Integers, FiniteSets

CONSTANTS Calls,     \* the mutating calls, each in its own process
          Versions,  \* released versions, ordered as integers
          Builds,    \* contents a version's archive, or an external entry, can have
          Attempts   \* tries to take the lock: 3 in the code
VARIABLES
  proc,          \* call |-> where its process is and what it remembers
  lock,          \* the lock file: which call's, at which attempt
  written,       \* the lock files whose record has been written
  aside,         \* call |-> the lock file it moved away
  staged,        \* call |-> its staging directory
  versions,      \* version |-> its directory
  external,      \* the external entry's present content
  attestations,  \* passing reports on disk
  activations,   \* activation records on disk
  active         \* active.json

vars == <<proc, lock, written, aside, staged, versions, external, attestations, activations, active>>
lockVars == <<lock, written, aside>>
diskVars == <<staged, versions, external, attestations, activations, active>>

NoFile == <<0, 0>>
Blank == <<0, 1>>       \* what a lock file reads as before its record is written
NoDirectory == [present |-> FALSE, entry |-> 0, record |-> 0]
NoRuntime == [source |-> "none", version |-> 0, build |-> 0]
Nothing == [current |-> NoRuntime, previous |-> NoRuntime, report |-> 0, previousReport |-> 0]
Idle == [pc |-> "idle", op |-> "none", version |-> 0, attempt |-> 0, seen |-> NoFile,
         runtime |-> NoRuntime, report |-> 0, before |-> Nothing]

Managed(v, build) == [source |-> "managed", version |-> v, build |-> build]
AdoptedEntry(v, build) == [source |-> "external", version |-> v, build |-> build]

(* A fresh home, or one in which earlier processes activated version v and then   *)
(* adopted the external entry.                                               *)
FreshHome ==
  /\ versions = [v \in Versions |-> NoDirectory]
  /\ attestations = {} /\ activations = {} /\ active = Nothing

UsedHome(v, build) ==
  LET first == Managed(v, build)  second == AdoptedEntry(v, external) IN
  /\ versions = [w \in Versions |-> IF w = v THEN [present |-> TRUE, entry |-> build, record |-> build]
                                   ELSE NoDirectory]
  /\ attestations = {[id |-> -1, runtime |-> first], [id |-> -2, runtime |-> second]}
  /\ activations = {[before |-> NoRuntime, after |-> first, report |-> -1],
                    [before |-> first, after |-> second, report |-> -2]}
  /\ active = [current |-> second, previous |-> first, report |-> -2, previousReport |-> -1]

Init ==
  /\ proc = [c \in Calls |-> Idle]
  /\ lock = NoFile /\ written = {} /\ aside = [c \in Calls |-> NoFile]
  /\ staged = [c \in Calls |-> NoDirectory]
  /\ external \in Builds
  /\ FreshHome \/ \E v \in Versions, build \in Builds : UsedHome(v, build)

At(c, pc) == proc[c].pc = pc
Go(c, pc) == proc' = [proc EXCEPT ![c].pc = pc]

(* withMutation *)
Begin(c, op, v) ==
  /\ At(c, "idle")
  /\ proc' = [proc EXCEPT ![c].pc = "open", ![c].op = op, ![c].version = v]
  /\ UNCHANGED <<lockVars, diskVars>>

-----------------------------------------------------------------------------
(* acquireLock *)
Own(c) == <<c, proc[c].attempt>>
Raw(file) == IF file \in written THEN file ELSE Blank

(* the loop's next attempt, or RUNTIME_BUSY *)
Again(c) ==
  proc' = IF proc[c].attempt + 1 < Attempts
          THEN [proc EXCEPT ![c].pc = "open", ![c].attempt = @ + 1, ![c].seen = NoFile]
          ELSE [proc EXCEPT ![c] = [Idle EXCEPT !.pc = "done"]]

OpenLock(c) ==
  /\ At(c, "open")
  /\ IF lock = NoFile THEN lock' = Own(c) /\ Go(c, "write")
                      ELSE UNCHANGED lock /\ Go(c, "observe")
  /\ UNCHANGED <<written, aside, diskVars>>

(* the handle writes to the file it opened, wherever that file is by now *)
WriteLock(c) ==
  /\ At(c, "write")
  /\ written' = written \cup {Own(c)}
  /\ Go(c, "clean")
  /\ UNCHANGED <<lock, aside, diskVars>>

(* a file without a record, or with that of a process that is gone, is stale *)
Stale(file) == file \notin written \/ proc[file[1]].pc = "dead"

ObserveLock(c) ==
  /\ At(c, "observe")
  /\ IF lock # NoFile /\ Stale(lock)
     THEN proc' = [proc EXCEPT ![c].pc = "claim", ![c].seen = Raw(lock)]
     ELSE Again(c)
  /\ UNCHANGED <<lockVars, diskVars>>

(* claimStaleLock: the rename moves whatever file has the name now *)
ClaimLock(c) ==
  /\ At(c, "claim")
  /\ IF lock = NoFile
     THEN Again(c) /\ UNCHANGED <<lock, aside>>
     ELSE /\ aside' = [aside EXCEPT ![c] = lock] /\ lock' = NoFile
          /\ Go(c, "check")
  /\ UNCHANGED <<written, diskVars>>

CheckClaimed(c) ==
  /\ At(c, "check")
  /\ IF Raw(aside[c]) = proc[c].seen
     THEN Again(c) /\ aside' = [aside EXCEPT ![c] = NoFile]
     ELSE Go(c, "restore") /\ UNCHANGED aside
  /\ UNCHANGED <<lock, written, diskVars>>

(* a hard link that does not replace *)
RestoreLock(c) ==
  /\ At(c, "restore")
  /\ IF lock = NoFile THEN lock' = aside[c] /\ aside' = [aside EXCEPT ![c] = NoFile]
                      ELSE UNCHANGED <<lock, aside>>
  /\ Again(c)
  /\ UNCHANGED <<written, diskVars>>

(* cleanStaging *)
CleanStaging(c) ==
  /\ At(c, "clean")
  /\ staged' = [d \in Calls |-> NoDirectory]
  /\ Go(c, "run")
  /\ UNCHANGED <<lockVars, versions, external, attestations, activations, active>>

(* release: the file is read, and unlinked by name if it is the call's own *)
ReadLock(c) ==
  /\ At(c, "release")
  /\ Go(c, IF lock = Own(c) THEN "unlink" ELSE "done")
  /\ UNCHANGED <<lockVars, diskVars>>

Unlink(c) ==
  /\ At(c, "unlink")
  /\ lock' = NoFile
  /\ Go(c, "done")
  /\ UNCHANGED <<written, aside, diskVars>>

-----------------------------------------------------------------------------
(* assertRuntimeFileIntegrity *)
Intact(runtime) ==
  \/ runtime.source = "managed" /\ versions[runtime.version].entry = runtime.build
  \/ runtime.source = "external" /\ external = runtime.build

(* A download that fails, an archive that does not match its signed manifest,   *)
(* an unsafe archive, a candidate that fails its probe or its promotion suite,  *)
(* a file operation that throws: the operation ends, its staging is removed     *)
(* and the lock released.                                                    *)
Fails(c) ==
  /\ proc[c].pc \in {"clean", "run", "extract", "inspect", "record", "publish", "promote",
                     "attest", "log", "switch"}
  /\ staged' = [staged EXCEPT ![c] = NoDirectory]
  /\ Go(c, "release")
  /\ UNCHANGED <<lockVars, versions, external, attestations, activations, active>>

(* installUnlocked, with the upgrade's check of the version before it *)
Stage(c) ==
  /\ At(c, "run") /\ proc[c].op \in {"install", "upgrade"}
  /\ proc[c].op = "upgrade" => active.current = NoRuntime \/ proc[c].version > active.current.version
  /\ staged' = [staged EXCEPT ![c].present = TRUE]
  /\ Go(c, "extract")
  /\ UNCHANGED <<lockVars, versions, external, attestations, activations, active>>

Extract(c, build) ==
  /\ At(c, "extract") /\ staged[c].present
  /\ staged' = [staged EXCEPT ![c].entry = build]
  /\ Go(c, "inspect")
  /\ UNCHANGED <<lockVars, versions, external, attestations, activations, active>>

Inspect(c) ==
  /\ At(c, "inspect") /\ staged[c].entry # 0
  /\ proc' = [proc EXCEPT ![c].pc = "record",
                          ![c].runtime = Managed(proc[c].version, staged[c].entry)]
  /\ UNCHANGED <<lockVars, diskVars>>

(* writeNewJsonWithBoundaries makes the directory if it is not there *)
WriteRecord(c) ==
  /\ At(c, "record")
  /\ staged' = [staged EXCEPT ![c].present = TRUE, ![c].record = proc[c].runtime.build]
  /\ Go(c, "publish")
  /\ UNCHANGED <<lockVars, versions, external, attestations, activations, active>>

(* the rename, or the identical installation that is already there; a different  *)
(* or a damaged one is a failure                                              *)
Publish(c) ==
  LET v == proc[c].version IN
  /\ At(c, "publish") /\ staged[c].present
  /\ \/ ~versions[v].present /\ versions' = [versions EXCEPT ![v] = staged[c]]
     \/ /\ versions[v].record = proc[c].runtime.build /\ Intact(Managed(v, versions[v].record))
        /\ UNCHANGED versions
  /\ staged' = [staged EXCEPT ![c] = NoDirectory]
  /\ Go(c, IF proc[c].op = "upgrade" THEN "promote" ELSE "release")
  /\ UNCHANGED <<lockVars, external, attestations, activations, active>>

(* activate and adopt *)
Choose(c) ==
  /\ At(c, "run")
  /\ \/ /\ proc[c].op = "activate" /\ versions[proc[c].version].record # 0
        /\ proc' = [proc EXCEPT ![c].pc = "promote",
                     ![c].runtime = Managed(proc[c].version, versions[proc[c].version].record)]
     \/ /\ proc[c].op = "adopt"
        /\ proc' = [proc EXCEPT ![c].pc = "promote",
                     ![c].runtime = AdoptedEntry(proc[c].version, external)]
  /\ UNCHANGED <<lockVars, diskVars>>

(* Mutant of Promote: the entry's digest is not compared with the record. *)
PromoteUnread(c) ==
  /\ At(c, "promote")
  /\ proc' = [proc EXCEPT ![c].pc = "attest", ![c].report = c, ![c].before = active]
  /\ UNCHANGED <<lockVars, diskVars>>

(* promoteUnlocked: integrity, the live probe and the promotion suite, and only  *)
(* then the descriptor is read                                               *)
Promote(c) ==
  /\ At(c, "promote") /\ Intact(proc[c].runtime)
  /\ proc' = [proc EXCEPT ![c].pc = "attest", ![c].report = c, ![c].before = active]
  /\ UNCHANGED <<lockVars, diskVars>>

(* assertPassingReport of the report a rollback reads *)
Attested(report, runtime) == [id |-> report, runtime |-> runtime] \in attestations

Rollback(c) ==
  /\ At(c, "run") /\ proc[c].op = "rollback"
  /\ active.previous # NoRuntime /\ active.previousReport # 0
  /\ Intact(active.previous) /\ Attested(active.previousReport, active.previous)
  /\ proc' = [proc EXCEPT ![c].pc = "log", ![c].runtime = active.previous,
                          ![c].report = active.previousReport, ![c].before = active]
  /\ UNCHANGED <<lockVars, diskVars>>

(* recordActivation: attestation, activation record, descriptor *)
Attest(c) ==
  /\ At(c, "attest")
  /\ attestations' = attestations \cup {[id |-> proc[c].report, runtime |-> proc[c].runtime]}
  /\ Go(c, "log")
  /\ UNCHANGED <<lockVars, staged, versions, external, activations, active>>

LogActivation(c) ==
  /\ At(c, "log")
  /\ activations' = activations \cup {[before |-> proc[c].before.current,
                                       after |-> proc[c].runtime, report |-> proc[c].report]}
  /\ Go(c, "switch")
  /\ UNCHANGED <<lockVars, staged, versions, external, attestations, active>>

Switch(c) ==
  LET before == proc[c].before IN
  /\ At(c, "switch")
  /\ active' = [current |-> proc[c].runtime, previous |-> before.current,
                report |-> proc[c].report, previousReport |-> before.report]
  /\ Go(c, "release")
  /\ UNCHANGED <<lockVars, staged, versions, external, attestations, activations>>

(* the external entry is replaced by its owner *)
ReplaceExternal(build) ==
  /\ external # build /\ external' = build
  /\ UNCHANGED <<proc, lockVars, staged, versions, attestations, activations, active>>

Die(c) ==
  /\ proc[c].pc \notin {"idle", "dead"}
  /\ proc' = [proc EXCEPT ![c] = [Idle EXCEPT !.pc = "dead"]]
  /\ UNCHANGED <<lockVars, diskVars>>

Next ==
  \/ \E c \in Calls :
       \/ \E v \in Versions : \E op \in {"install", "activate", "upgrade", "adopt"} : Begin(c, op, v)
       \/ Begin(c, "rollback", 0)
       \/ OpenLock(c) \/ WriteLock(c) \/ ObserveLock(c) \/ ClaimLock(c) \/ CheckClaimed(c)
       \/ RestoreLock(c) \/ CleanStaging(c) \/ ReadLock(c) \/ Unlink(c)
       \/ Stage(c) \/ (\E build \in Builds : Extract(c, build)) \/ Inspect(c) \/ WriteRecord(c)
       \/ Publish(c) \/ Choose(c) \/ Promote(c) \/ Rollback(c)
       \/ Attest(c) \/ LogActivation(c) \/ Switch(c) \/ Fails(c) \/ Die(c)
  \/ \E build \in Builds : ReplaceExternal(build)

Spec == Init /\ [][Next]_vars

-----------------------------------------------------------------------------
(* What active.json selects, and what a rollback would select, can be relied on:  *)
(* there is a passing report for that very runtime and a record of its            *)
(* activation, wherever a process died, and a managed one has the entry its        *)
(* record names, although two operations that clean each other's staging can       *)
(* install a directory without one (recordActivation, promoteUnlocked).           *)
SelectedIsComplete ==
  /\ \A s \in {<<active.current, active.report>>, <<active.previous, active.previousReport>>} :
       s[1] # NoRuntime =>
         Attested(s[2], s[1]) /\ \E a \in activations : a.after = s[1] /\ a.report = s[2]
  /\ \A r \in {active.current, active.previous} : r.source = "managed" => Intact(r)
=============================================================================
