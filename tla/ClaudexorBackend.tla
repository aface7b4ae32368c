-------------------------- MODULE ClaudexorBackend --------------------------
(***************************************************************************)
(* The Claudexor engine as the execution backend of one run drives it      *)
(* (packages/execution-claudexor/src/backend.ts): one thread, a sequence   *)
(* of turns, each with a run of its own; the head is the last turn's run.  *)
(* Thread and turns are created under idempotency keys derived from the    *)
(* Heniek ids, so a repeated creation is answered with the first result.   *)
(* Answers and cancellations carry no key.                                 *)
(***************************************************************************)
EXTENDS Naturals, Sequences, FiniteSets

CONSTANTS Questions   \* interaction ids the engine may raise

VARIABLE engine   \* [thread, turns : Seq([key, state]), asked, waiting]

NoEngine == [thread |-> FALSE, turns |-> <<>>, asked |-> {}, waiting |-> {}]
\* headRunId: a thread without a turn has no run yet.
headRun(e) == IF e.turns = <<>> THEN "none" ELSE e.turns[Len(e.turns)].state
ActiveHead(e) == headRun(e) \in {"queued", "running"}

\* status(): the head run's state as Heniek names it.
mapStatus(e) ==
    CASE headRun(e) = "none" -> "queued"
      [] ActiveHead(e) /\ e.waiting # {} -> "waiting_on_user"
      [] ActiveHead(e) /\ e.waiting = {} -> headRun(e)
      [] headRun(e) = "interrupted" -> "recovery_required"
      [] OTHER -> headRun(e)

\* interactions(): what the head run still asks.
interactions(e) == e.waiting

\* resultProfile: only a terminal head run has a result.
resultProfile(e) == headRun(e) \in {"succeeded", "failed", "cancelled"}

createThread(e) == [e EXCEPT !.thread = TRUE]

\* Mutant of createTurn: the request carries no idempotency key.
createTurnAgain(e, key) == [e EXCEPT !.turns = Append(@, [key |-> key, state |-> "queued"])]

createTurn(e, key) ==
    IF \E i \in DOMAIN e.turns : e.turns[i].key = key THEN e
    ELSE [e EXCEPT !.turns = Append(@, [key |-> key, state |-> "queued"]), !.waiting = {}]

\* answer(): refused once the head run no longer asks the question.
answerAccepted(e, q) == ActiveHead(e) /\ q \in e.waiting
answer(e, q) == [e EXCEPT !.waiting = @ \ {q}]

\* cancel(): applied to an active head run; without one there is nothing to do.
cancel(e) ==
    IF ActiveHead(e) THEN [e EXCEPT !.turns[Len(e.turns)].state = "cancelled", !.waiting = {}] ELSE e

-----------------------------------------------------------------------------
(* The engine's own steps *)

EngineWorks ==
    /\ ActiveHead(engine)
    /\ \/ /\ headRun(engine) = "queued"
          /\ engine' = [engine EXCEPT !.turns[Len(engine.turns)].state = "running"]
       \/ /\ headRun(engine) = "running"
          /\ \E q \in Questions \ engine.asked :
                engine' = [engine EXCEPT !.asked = @ \cup {q}, !.waiting = @ \cup {q}]

EngineEnds ==
    /\ headRun(engine) = "running"
    /\ engine.waiting = {}
    /\ \E s \in {"succeeded", "failed", "interrupted"} :
          engine' = [engine EXCEPT !.turns[Len(engine.turns)].state = s]

\* A question the user let run out.
EngineWithdraws ==
    \E q \in engine.waiting : ActiveHead(engine) /\ engine' = answer(engine, q)
=============================================================================
