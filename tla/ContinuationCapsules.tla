------------------------ MODULE ContinuationCapsules ------------------------
(* Smart continuation: buildContinuationCapsule freezes the coordinates of an *)
(* outgoing session (repository heads, dirty files, artifact and context-file   *)
(* references) under a digest, the capsule row is append-only, and              *)
(* verifyIncomingContinuation compares it with the workspace before a fresh      *)
(* segment starts.  Between the two the workspace may move and the capsule may   *)
(* be altered on its way.  The daemon does not call these operations yet: their  *)
(* caller is the environment.                                               *)
EXTENDS Integers, FiniteSets

CONSTANTS Repositories, Files, Artifacts,
          MaxReferences,  \* CONTINUATION_REFERENCE_COLLECTION_MAX
          MaxMoves        \* bound: changes of the workspace
VARIABLES
  world,     \* heads, dirty files, artifact contents, context files
  moves,     \* changes of it so far
  witness,   \* the world the capsule was built from (history)
  capsule,   \* the built capsule, or a blocker
  verdict,   \* blockers of the incoming verification
  handoffs   \* smart_continuation_count

vars == <<world, moves, witness, capsule, verdict, handoffs>>

Contents == {"missing", "v1", "v2"}
NoCapsule == [state |-> "none"]
Unverified == {"unverified"}

(* A session that starts: its files are there and nothing contradicts it. *)
Init ==
  /\ world = [heads |-> [r \in Repositories |-> "c1"], dirty |-> {},
              artifacts |-> [a \in Artifacts |-> "v1"], context |-> [f \in Files |-> "v1"]]
  /\ witness = world /\ capsule = NoCapsule /\ verdict = Unverified /\ handoffs = 0 /\ moves = 0

-----------------------------------------------------------------------------
(* capsulePayloadForDigest and digestCapsulePayload: the digest stands for     *)
(* every field but itself.                                                  *)
Payload(c) == [heads |-> c.heads, dirty |-> c.dirty, artifacts |-> c.artifacts,
               context |-> c.context]
VerifyCapsuleDigest(c) == Payload(c) = c.digest

Overflows(collection) == Cardinality(collection) > MaxReferences

(* Mutant of Blocker: an overflowing dirty set is cut to its bound instead. *)
BlockerTruncating(input) ==
  CASE ~input.complete -> "empty_next_action"
    [] input.complete /\ Overflows(input.artifacts) -> "artifact_refs_overflow"
    [] input.complete /\ ~Overflows(input.artifacts) ->
         IF Overflows(input.context) THEN "required_state_overflow" ELSE "none"

(* boundCollection over every reference collection: the blocker, or none.      *)
(* Empty next actions and sessions, and too long plans, are refused alike.      *)
Blocker(input) ==
  CASE ~input.complete -> "empty_next_action"
    [] input.complete /\ Overflows(input.artifacts) -> "artifact_refs_overflow"
    [] input.complete /\ ~Overflows(input.artifacts) ->
         IF Overflows(world.dirty) \/ Overflows(input.context)
         THEN "required_state_overflow" ELSE "none"

(* slice(0, max) of the sorted dirty files *)
Bounded(dirty) ==
  IF ~Overflows(dirty) THEN dirty
  ELSE CHOOSE d \in SUBSET dirty : Cardinality(d) = MaxReferences

(* buildContinuationCapsule and insertContinuationCapsule, then                *)
(* recordSmartContinuation.  A reference to a context file may carry its hash.  *)
Checkpoint ==
  /\ capsule = NoCapsule
  /\ \E input \in [complete : BOOLEAN, hashed : BOOLEAN,
                   artifacts : SUBSET {a \in Artifacts : world.artifacts[a] # "missing"},
                   context : SUBSET {f \in Files : world.context[f] # "missing"}] :
       IF Blocker(input) # "none"
       THEN capsule' = [state |-> "blocked"] /\ UNCHANGED handoffs
       ELSE LET fields == [heads |-> world.heads, dirty |-> Bounded(world.dirty),
                           artifacts |-> [a \in input.artifacts |-> world.artifacts[a]],
                           context |-> [f \in input.context |->
                                          IF input.hashed THEN world.context[f] ELSE "any"]]
            IN  /\ capsule' = [state |-> "built", digest |-> fields, heads |-> fields.heads,
                               dirty |-> fields.dirty, artifacts |-> fields.artifacts,
                               context |-> fields.context]
                /\ handoffs' = handoffs + 1
  /\ witness' = world
  /\ UNCHANGED <<world, moves, verdict>>

(* the workspace moves on, before or after the checkpoint *)
Move ==
  /\ verdict = Unverified /\ moves < MaxMoves /\ moves' = moves + 1
  /\ \/ \E r \in Repositories, h \in {"c1", "c2"} : world' = [world EXCEPT !.heads[r] = h]
     \/ \E f \in Files : world' = [world EXCEPT !.dirty = (@ \ {f}) \cup ({f} \ @)]
     \/ \E a \in Artifacts, v \in Contents : world' = [world EXCEPT !.artifacts[a] = v]
     \/ \E f \in Files, v \in Contents : world' = [world EXCEPT !.context[f] = v]
  /\ UNCHANGED <<witness, capsule, verdict, handoffs>>

(* a capsule that reaches the verifier altered *)
Alter ==
  /\ capsule.state = "built" /\ verdict = Unverified
  /\ \E d \in SUBSET Files : capsule' = [capsule EXCEPT !.dirty = d]
  /\ UNCHANGED <<world, moves, witness, verdict, handoffs>>

-----------------------------------------------------------------------------
(* verifyIncomingContinuation *)

(* checkArtifacts *)
ArtifactBlockers(refs) ==
  UNION {IF world.artifacts[a] = "missing" THEN {"missing_artifact"}
         ELSE IF world.artifacts[a] # refs[a] THEN {"artifact_hash_mismatch"} ELSE {}
         : a \in DOMAIN refs}

(* checkContextFiles *)
ContextBlockers(refs) ==
  UNION {IF world.context[f] = "missing" THEN {"missing_context_file"}
         ELSE IF refs[f] # "any" /\ world.context[f] # refs[f]
              THEN {"context_file_hash_mismatch"} ELSE {}
         : f \in DOMAIN refs}

Verify ==
  /\ capsule.state = "built" /\ verdict = Unverified
  /\ \E objections \in SUBSET {"contradictory_completion", "cheap_check_failed"} : verdict' =
       (IF VerifyCapsuleDigest(capsule) THEN {} ELSE {"digest_mismatch", "tampered_capsule"})
       \cup (IF capsule.heads = world.heads THEN {} ELSE {"stale_head"})
       \cup (IF capsule.dirty = world.dirty THEN {} ELSE {"dirty_set_mismatch"})
       \cup ArtifactBlockers(capsule.artifacts) \cup ContextBlockers(capsule.context)
       \cup objections
  /\ UNCHANGED <<world, moves, witness, capsule, handoffs>>

Next == Checkpoint \/ Move \/ Alter \/ Verify

Spec == Init /\ [][Next]_vars

-----------------------------------------------------------------------------
(* The verdict is neither lax nor spurious: the capsule raises no objection of  *)
(* its own exactly when it arrived unaltered, the heads and the dirty files are  *)
(* those of the session that wrote it, and every referenced artifact and hashed  *)
(* context file is there as it was.                                         *)
ResumesWhereItStopped ==
  verdict # Unverified =>
    (verdict \subseteq {"contradictory_completion", "cheap_check_failed"} <=>
       /\ capsule.dirty = witness.dirty /\ world.dirty = witness.dirty
       /\ world.heads = witness.heads
       /\ \A a \in DOMAIN capsule.artifacts :
            world.artifacts[a] # "missing" /\ world.artifacts[a] = witness.artifacts[a]
       /\ \A f \in DOMAIN capsule.context :
            /\ world.context[f] # "missing"
            /\ capsule.context[f] # "any" => world.context[f] = witness.context[f])
=============================================================================
