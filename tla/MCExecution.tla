----------------------------- MODULE MCExecution -----------------------------
(* The execution service over its backend, and the daemons that start and stop  *)
(* around it: the home's two processes race while no execution is open, or one   *)
(* daemon serves an execution.                                               *)
EXTENDS ExecutionService

CONSTANTS Daemons, Old, Nil, MaxClaimAttempts, Latest

VARIABLES part, pc, attempts, witness, peer, claim, sock, credential, schema, ddl, pending, run,
          probed, deaths

lifecycleVars == <<pc, attempts, witness, peer, claim, sock, credential, schema, ddl, pending, run,
                   probed, deaths>>

D == INSTANCE DaemonLifecycle

\* That there is no file is neither a claim nor a daemon.
ASSUME HomeAssumption ==
  /\ Nil \notin [owner : Daemons \cup {Old}, state : {"claiming", "serving"}]
  /\ Nil \notin Daemons

\* A home that earlier daemons left: what matters only to a start is fixed while none
\* is explored.
MCInit ==
  /\ part \in {"execution", "lifecycle"}
  /\ Init /\ D!Init
  /\ part = "execution" => claim = Nil /\ sock = Nil /\ credential = Nil /\ schema = 0

MCNext ==
  \/ part = "execution" /\ Next /\ UNCHANGED <<part, lifecycleVars>>
  \/ part = "lifecycle" /\ D!Next /\ UNCHANGED <<part, vars>>

\* The execution's fair actions are disabled before it starts.
MCSpec ==
  /\ MCInit /\ [][MCNext]_<<part, vars, lifecycleVars>>
  /\ Fairness
  /\ \A d \in Daemons : WF_lifecycleVars(part = "lifecycle" /\ D!Step(d))

-----------------------------------------------------------------------------
\* acquireClaim and the socket: at most one daemon of a home answers clients.
OneServer == D!OneServer

\* acquireClaim and recover: every start ends in serving or in giving up.
StartsSettle == part = "lifecycle" => D!StartsSettle
=============================================================================
