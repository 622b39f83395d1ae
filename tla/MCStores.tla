------------------------------ MODULE MCStores ------------------------------
(* The task handle, the output registry, the duration store, the event     *)
(* stream, the loop detector and the strategies' requests share no state:  *)
(* a behaviour is one of one of them.                                      *)
EXTENDS Outputs, Durations, Child, Loops, EventLog, Requests

VARIABLE part

MCIds == <<<<1>>, <<1, Blank>>>>
MCAsked == {<<1, Blank>>}
MCCaptures == {[stdout |-> <<>>, stderr |-> <<"c", "n">>],
               [stdout |-> <<"n", "c">>, stderr |-> <<"c">>],
               [stdout |-> <<"x", "c", "c", "c">>, stderr |-> <<>>]}
MCMatched == [p |-> <<"t", "u">>, q |-> <<"v">>]
MCCommands == {[text |-> "a", template |-> FALSE], [text |-> "b {{paths}}", template |-> TRUE]}

vars == <<outputsVars, durationsVars, childVars, loopsVars, eventLogVars, requestsVars, part>>

(* The parts that do not move start in one state.                          *)
Init ==
    /\ OutputsInit /\ DurationsInit /\ ChildInit
    /\ LoopsInit /\ EventLogInit /\ RequestsInit
    /\ part \in {"outputs", "durations", "child", "loops", "events", "requests"}
    /\ part # "loops" => verbose
    /\ part # "requests" =>
          /\ process = "restart" /\ bound = Max(Concurrencies)
          /\ live.command = CHOOSE c \in Commands : TRUE

StepOutputs == /\ part = "outputs" /\ OutputsNext
               /\ UNCHANGED <<durationsVars, childVars, loopsVars, eventLogVars, requestsVars, part>>

StepDurations == /\ part = "durations" /\ DurationsNext
                 /\ UNCHANGED <<outputsVars, childVars, loopsVars, eventLogVars, requestsVars, part>>

StepChild == /\ part = "child" /\ ChildNext
             /\ UNCHANGED <<outputsVars, durationsVars, loopsVars, eventLogVars, requestsVars, part>>

StepLoops == /\ part = "loops" /\ LoopsNext
             /\ UNCHANGED <<outputsVars, durationsVars, childVars, eventLogVars, requestsVars, part>>

StepEvents == /\ part = "events" /\ EventLogNext
              /\ UNCHANGED <<outputsVars, durationsVars, childVars, loopsVars, requestsVars, part>>

StepRequests == /\ part = "requests" /\ RequestsNext
                /\ UNCHANGED <<outputsVars, durationsVars, childVars, loopsVars, eventLogVars, part>>

Next == StepOutputs \/ StepDurations \/ StepChild \/ StepLoops \/ StepEvents \/ StepRequests

Spec == Init /\ [][Next]_vars
=============================================================================
