--------------------------- MODULE DaemonLifecycle ---------------------------
(***************************************************************************)
(* Starting, serving and stopping heniek daemons of one application home   *)
(* (packages/daemon/src/lifecycle, recovery and the composition root).     *)
(*                                                                         *)
(* Every member of Daemons is a process that starts at most once.  They    *)
(* share the claim file daemon.pid, the socket path, the stored credential *)
(* and the state database.  Nothing but the file system orders them, so    *)
(* each system call on a shared path is a step; what a process does        *)
(* between two of its own awaits without touching a shared path is folded  *)
(* into the step before it.  A claim file is identified by the process     *)
(* that created it: a process links at most one.                           *)
(***************************************************************************)
EXTENDS Naturals, FiniteSets

CONSTANTS
  Daemons,
  Old,               \* a process of an earlier boot or one that died
  Nil,
  MaxClaimAttempts,  \* MAX_CLAIM_ATTEMPTS
  Latest,            \* the newest schema version
  MaxCrashes         \* bound on process deaths and failed starts


VARIABLES
  pc,         \* what each process does next, or how it ended
  attempts,   \* how many claims it has tried
  witness,    \* the claim file its lstat saw
  peer,       \* the process its socket probe is connected to
  claim,      \* the file at daemon.pid: its owner and the state it records
  sock,       \* whose socket is at the socket path
  credential, \* whose secret the secret store holds
  schema,     \* user_version of the state database
  ddl,        \* version -> how often its statements were executed
  pending,    \* the schema version a process has to apply next
  run,        \* the status of a run the last daemon left
  probed,     \* what the backend told a recovering process about that run
  deaths

claimVars == <<claim, sock, credential>>
procVars == <<pc, attempts, witness, peer, pending, probed>>
dbVars == <<schema, ddl, run>>
vars == <<procVars, claimVars, dbVars, deaths>>

Ended == {"lost", "refused", "stopped", "exited"}
Alive(d) == d \in Daemons /\ pc[d] \notin Ended
Answers(d) == d \in Daemons /\ pc[d] = "serving"

TerminalRuns == {"succeeded", "failed", "cancelled"}

\* Mutant of Held: the path is there, whoever created the file.
HeldByPath(d) == claim # Nil

\* assertStillHeld: the path still names the file this process created.
Held(d) == claim # Nil /\ claim.owner = d

Moves(d, to) == pc' = [pc EXCEPT ![d] = to]

\* guard.release: the file goes only if it is this process's own.
Released(d) == IF Held(d) THEN Nil ELSE claim

Init ==
  /\ pc = [d \in Daemons |-> "new"]
  /\ attempts = [d \in Daemons |-> 0]
  /\ witness = [d \in Daemons |-> Nil]
  /\ peer = [d \in Daemons |-> Nil]
  /\ claim \in {Nil} \cup [owner : {Old}, state : {"claiming", "serving"}]
  /\ sock \in {Nil, Old}
  /\ credential \in {Nil, Old}
  /\ schema \in 0..Latest
  /\ ddl = [v \in 1..Latest |-> IF v <= schema THEN 1 ELSE 0]
  /\ pending = [d \in Daemons |-> 0]
  /\ run = "running"
  /\ probed = [d \in Daemons |-> Nil]
  /\ deaths = 0

-----------------------------------------------------------------------------
(* acquireClaim.                                                           *)

\* The loop's next round, or ClaimContended after the last.
Retry(d) ==
  /\ attempts' = [attempts EXCEPT ![d] = @ + 1]
  /\ Moves(d, IF attempts[d] + 1 < MaxClaimAttempts THEN "new" ELSE "refused")

\* tryClaim: the record is written and synced under a scratch name, then linked.
Claim(d) ==
  /\ pc[d] = "new"
  /\ IF claim = Nil
     THEN /\ claim' = [owner |-> d, state |-> "claiming"]
          /\ Moves(d, "probe")
     ELSE Moves(d, "stat") /\ UNCHANGED claim
  /\ UNCHANGED <<attempts, witness, peer, pending, probed, sock, credential, dbVars, deaths>>

\* inspectContendedClaim, the lstat.
InspectStat(d) ==
  /\ pc[d] = "stat"
  /\ IF claim = Nil
     THEN Retry(d) /\ UNCHANGED witness
     ELSE /\ witness' = [witness EXCEPT ![d] = claim.owner]
          /\ Moves(d, "read") /\ UNCHANGED attempts
  /\ UNCHANGED <<peer, pending, probed, claimVars, dbVars, deaths>>

\* inspectContendedClaim, the record: of a dead process, it is orphaned; of a
\* starting one, this process concedes; of a serving one, the socket decides.
InspectRead(d) ==
  /\ pc[d] = "read"
  /\ IF claim = Nil
     THEN Retry(d)
     ELSE /\ UNCHANGED attempts
          /\ IF ~Alive(claim.owner)
             THEN Moves(d, IF attempts[d] = MaxClaimAttempts - 1 THEN "refused" ELSE "takeover")
             ELSE Moves(d, IF claim.state = "claiming" THEN "lost" ELSE "probe_peer")
  /\ UNCHANGED <<witness, peer, pending, probed, claimVars, dbVars, deaths>>

\* attemptTakeover, the second lstat.
TakeoverStat(d) ==
  /\ pc[d] = "takeover"
  /\ IF claim = Nil \/ claim.owner # witness[d]
     THEN Retry(d)
     ELSE Moves(d, "rename") /\ UNCHANGED attempts
  /\ UNCHANGED <<witness, peer, pending, probed, claimVars, dbVars, deaths>>

\* attemptTakeover, the rename: of whatever the path names by now.
TakeoverRename(d) ==
  /\ pc[d] = "rename"
  /\ claim' = Nil
  /\ Retry(d)
  /\ UNCHANGED <<witness, peer, pending, probed, sock, credential, dbVars, deaths>>

\* What an unsuccessful probe means to a process that holds the claim, and to one
\* that asks about the holder.
AfterVerdict(d, verdict) ==
  IF pc[d] = "probe_peer"
  THEN IF verdict = "serving" THEN "lost" ELSE "refused"
  ELSE IF verdict = "serving" THEN "lost"
  ELSE IF verdict = "hostile" THEN "refused"
  ELSE IF verdict = "no-listener" THEN "reclaim"
  ELSE "persist"

\* The verdict's consequence; a holder that gives up releases its claim.
Judge(d, verdict) ==
  /\ Moves(d, AfterVerdict(d, verdict))
  /\ claim' = IF pc[d] = "probe" /\ AfterVerdict(d, verdict) \in Ended THEN Released(d) ELSE claim

\* probeOnce, the connect: an absent path and a dead listener answer at once.
ProbeConnect(d) ==
  /\ pc[d] \in {"probe", "probe_peer"} /\ peer[d] = Nil
  /\ \/ /\ sock = Nil
        /\ Judge(d, "absent")
        /\ UNCHANGED peer
     \/ /\ sock # Nil /\ ~Alive(sock)
        /\ Judge(d, "no-listener")
        /\ UNCHANGED peer
     \/ /\ sock # Nil /\ Alive(sock) /\ ~Answers(sock)
        /\ peer' = [peer EXCEPT ![d] = sock]
        /\ UNCHANGED <<pc, claim>>
  /\ UNCHANGED <<attempts, witness, pending, probed, sock, credential, dbVars, deaths>>

\* A serving daemon re-checks its claim on every connection: it answers, or finds
\* that it has lost the claim and exits.
ProbeServing(d) ==
  /\ pc[d] \in {"probe", "probe_peer"} /\ peer[d] = Nil
  /\ sock # Nil /\ Answers(sock)
  /\ IF Held(sock)
     THEN Judge(d, "serving")
     ELSE /\ pc' = [pc EXCEPT ![d] = AfterVerdict(d, "hostile"), ![sock] = "exited"]
          /\ claim' = IF pc[d] = "probe" THEN Released(d) ELSE claim
  /\ UNCHANGED <<attempts, witness, peer, pending, probed, sock, credential, dbVars, deaths>>

\* A connection accepted before the handlers were attached is never answered: the
\* probe, which has no deadline, ends when the peer does.
ProbeDropped(d) ==
  /\ pc[d] \in {"probe", "probe_peer"} /\ peer[d] # Nil
  /\ ~Alive(peer[d])
  /\ Judge(d, "hostile")
  /\ peer' = [peer EXCEPT ![d] = Nil]
  /\ UNCHANGED <<attempts, witness, pending, probed, sock, credential, dbVars, deaths>>

\* Mutant of ReclaimSocket: the socket is probed again instead of removed.
ReclaimSocketNever(d) ==
  /\ pc[d] = "reclaim"
  /\ Moves(d, "probe")
  /\ UNCHANGED <<attempts, witness, peer, pending, probed, claimVars, dbVars, deaths>>

\* reclaimStaleSocket.
ReclaimSocket(d) ==
  /\ pc[d] = "reclaim"
  /\ sock' = Nil
  /\ Moves(d, "persist")
  /\ UNCHANGED <<attempts, witness, peer, pending, probed, claim, credential, dbVars, deaths>>

-----------------------------------------------------------------------------
(* Recovery: mintCredential, reconcile, then the socket.                   *)

PersistCredential(d) ==
  /\ pc[d] = "persist"
  /\ credential' = d
  /\ Moves(d, "open")
  /\ UNCHANGED <<attempts, witness, peer, pending, probed, claim, sock, dbVars, deaths>>

\* A process that finds its claim gone throws ClaimLostError and exits.
Lost(d) == ~Held(d) /\ Moves(d, "exited")

\* openOwnedStateDatabase up to the first read of user_version.
OpenDatabase(d) ==
  /\ pc[d] = "open"
  /\ \/ Lost(d) /\ UNCHANGED pending
     \/ Held(d) /\ Moves(d, "migrate") /\ pending' = [pending EXCEPT ![d] = schema + 1]
  /\ UNCHANGED <<attempts, witness, peer, probed, claimVars, dbVars, deaths>>

\* runMigrationList: one transaction per pending migration; under the write lock
\* user_version is read again and a migration another process applied is skipped.
Migrate(d) ==
  /\ pc[d] = "migrate"
  /\ IF pending[d] > Latest
     THEN Moves(d, "sweep") /\ UNCHANGED <<pending, schema, ddl>>
     ELSE /\ IF pending[d] <= schema
             THEN UNCHANGED <<schema, ddl>>
             ELSE /\ schema' = pending[d]
                  /\ ddl' = [ddl EXCEPT ![pending[d]] = @ + 1]
          /\ pending' = [pending EXCEPT ![d] = @ + 1]
          /\ UNCHANGED pc
  /\ UNCHANGED <<attempts, witness, peer, probed, claimVars, run, deaths>>

\* recoverArtifacts empties incoming/, whoever is publishing.
SweepArtifacts(d) ==
  /\ pc[d] = "sweep"
  /\ \/ Lost(d)
     \/ Held(d) /\ Moves(d, IF run \in TerminalRuns THEN "bind" ELSE "classify")
  /\ UNCHANGED <<attempts, witness, peer, pending, probed, claimVars, dbVars, deaths>>

\* classifyRunRecovery: a probe that fails leaves the run to the operator.
ClassifyRunRecovery(outcome) == IF outcome = "error" THEN "recovery_required" ELSE outcome

\* The backend is asked about each run that had not ended; the claim is checked
\* again after the await.
ClassifyRun(d) ==
  /\ pc[d] = "classify"
  /\ \/ Lost(d) /\ UNCHANGED probed
     \/ /\ Held(d)
        /\ \E outcome \in {"running", "succeeded", "failed", "error"} :
             probed' = [probed EXCEPT ![d] = ClassifyRunRecovery(outcome)]
        /\ Moves(d, "commit")
  /\ UNCHANGED <<attempts, witness, peer, pending, claimVars, dbVars, deaths>>

CommitStatus(d) ==
  /\ pc[d] = "commit"
  /\ run' = probed[d]
  /\ Moves(d, "bind")
  /\ UNCHANGED <<attempts, witness, peer, pending, probed, claimVars, schema, ddl, deaths>>

\* listen: a path that exists, dead or alive, is EADDRINUSE.
Bind(d) ==
  /\ pc[d] = "bind"
  /\ IF sock = Nil
     THEN sock' = d /\ Moves(d, "publish") /\ UNCHANGED claim
     ELSE claim' = Released(d) /\ Moves(d, "lost") /\ UNCHANGED sock
  /\ UNCHANGED <<attempts, witness, peer, pending, probed, credential, dbVars, deaths>>

\* publishServingRecord, between two checks of the claim, through the handle the
\* claim is held on.
PublishServing(d) ==
  /\ pc[d] = "publish"
  /\ \/ Lost(d) /\ UNCHANGED claim
     \/ Held(d) /\ claim' = [claim EXCEPT !.state = "serving"] /\ Moves(d, "services")
  /\ UNCHANGED <<attempts, witness, peer, pending, probed, sock, credential, dbVars, deaths>>

\* startDaemon opens its own connection and the services reconcile.
StartServices(d) ==
  /\ pc[d] = "services"
  /\ Moves(d, "attach")
  /\ UNCHANGED <<attempts, witness, peer, pending, probed, claimVars, dbVars, deaths>>

\* attachDaemonRpcServer: connections accepted from here on are answered.
AttachServer(d) ==
  /\ pc[d] = "attach"
  /\ Moves(d, "serving")
  /\ UNCHANGED <<attempts, witness, peer, pending, probed, claimVars, dbVars, deaths>>

\* A client's connection is served, unless the claim is gone.
ClientConnects(d) ==
  /\ pc[d] = "serving" /\ sock = d
  /\ Lost(d)
  /\ UNCHANGED <<attempts, witness, peer, pending, probed, claimVars, dbVars, deaths>>

-----------------------------------------------------------------------------
(* The end of a daemon.                                                    *)

\* beginDrain: the listener closes and takes its path with it, the claim is
\* released, the credential removed.
CloseSocket(d) ==
  /\ pc[d] = "serving"
  /\ sock' = Nil
  /\ Moves(d, "release")
  /\ UNCHANGED <<attempts, witness, peer, pending, probed, claim, credential, dbVars, deaths>>

ReleaseClaim(d) ==
  /\ pc[d] = "release"
  /\ claim' = Released(d)
  /\ Moves(d, "remove")
  /\ UNCHANGED <<attempts, witness, peer, pending, probed, sock, credential, dbVars, deaths>>

RemoveCredential(d) ==
  /\ pc[d] = "remove"
  /\ credential' = Nil
  /\ Moves(d, "stopped")
  /\ UNCHANGED <<attempts, witness, peer, pending, probed, claim, sock, dbVars, deaths>>

\* The database cannot be opened or migrated, or artifact recovery fails: the claim
\* is released.  The daemon's own connection fails: the socket and the credential
\* go as well.
StartFails(d) ==
  /\ deaths < MaxCrashes
  /\ pc[d] \in {"open", "migrate", "sweep", "services"}
  /\ claim' = Released(d)
  /\ sock' = IF pc[d] = "services" THEN Nil ELSE sock
  /\ credential' = IF pc[d] = "services" THEN Nil ELSE credential
  /\ Moves(d, "exited")
  /\ deaths' = deaths + 1
  /\ UNCHANGED <<attempts, witness, peer, pending, probed, dbVars>>

\* A crash, a second signal, or an error nobody catches: every file stays.
Crash(d) ==
  /\ deaths < MaxCrashes
  /\ Alive(d)
  /\ Moves(d, "exited")
  /\ deaths' = deaths + 1
  /\ UNCHANGED <<attempts, witness, peer, pending, probed, claimVars, dbVars>>

-----------------------------------------------------------------------------
\* The steps a process takes by itself; draining and dying are up to its user.
Step(d) ==
  \/ Claim(d)
  \/ InspectStat(d)
  \/ InspectRead(d)
  \/ TakeoverStat(d)
  \/ TakeoverRename(d)
  \/ ProbeConnect(d)
  \/ ProbeServing(d)
  \/ ProbeDropped(d)
  \/ ReclaimSocket(d)
  \/ PersistCredential(d)
  \/ OpenDatabase(d)
  \/ Migrate(d)
  \/ SweepArtifacts(d)
  \/ ClassifyRun(d)
  \/ CommitStatus(d)
  \/ Bind(d)
  \/ PublishServing(d)
  \/ StartServices(d)
  \/ AttachServer(d)
  \/ ReleaseClaim(d)
  \/ RemoveCredential(d)

Next ==
  \E d \in Daemons :
    \/ Step(d)
    \/ ClientConnects(d)
    \/ CloseSocket(d)
    \/ StartFails(d)
    \/ Crash(d)

Spec == Init /\ [][Next]_vars

\* A process that can take its next step takes it.
FairSpec == Spec /\ \A d \in Daemons : WF_vars(Step(d))

-----------------------------------------------------------------------------
(* What the lifecycle promises.                                            *)

\* At most one daemon of a home answers clients.  With two racers the socket path
\* and the probe back the claim up where a takeover takes the claim of a live
\* process (attemptTakeover); with three they do not.
OneServer == Cardinality({d \in Daemons : pc[d] = "serving"}) <= 1

\* Every start ends: a process serves or gives up, unless its probe is connected to
\* a daemon that had not attached its handlers yet ("a known residual").
Waiting(d) == pc[d] \in {"probe", "probe_peer"} /\ peer[d] # Nil

StartsSettle ==
  <>[](\A d \in Daemons : pc[d] \in Ended \cup {"serving"} \/ Waiting(d))

=============================================================================
