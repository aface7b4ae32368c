------------------------ MODULE MCPipelineScheduler ------------------------
(* Instances of PipelineScheduler for TLC.                                  *)
EXTENDS PipelineScheduler

(* Stage 2 runs if an expression on 1 says so, 3 if an evaluator does. *)
Branch == {<<1, 2>>, <<1, 3>>, <<2, 3>>}
BranchCondition ==
  [e \in Branch |-> IF e = <<1, 2>> THEN "expression"
                    ELSE IF e = <<1, 3>> THEN "evaluator" ELSE "none"]
BranchReads == <<{}, {}, {"one"}>>
BranchWrites == <<{"one"}, {}, {}>>
BranchBudget == <<2, 2, 2>>
BranchStrategy == <<"fresh", "pause", "resume">>
BranchSession == <<"fresh", "resume", "fresh">>

Chain == {<<1, 2>>}
ChainCondition == [e \in Chain |-> "none"]
Unbound == <<{}, {}>>
ChainBudget == <<2, 0>>
AllFresh == [s \in Stages |-> "fresh"]
NoStages == {}
First == {1}
Second == {2}

F(class, signature, resumable) ==
  [class |-> class, signature |-> signature, resumable |-> resumable]
Mixed == {F("validation", 1, TRUE), F("other", 2, FALSE), F("fatal", 3, FALSE)}
Sticky == {F("other", 2, FALSE)}
=============================================================================
