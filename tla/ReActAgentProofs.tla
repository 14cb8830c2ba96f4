-------------------------- MODULE ReActAgentProofs --------------------------
(***************************************************************************)
(* What holds of every run of the agent, for any hosts, services, bounds   *)
(* on the steps and replies of the model.                                  *)
(*                                                                         *)
(* The bound on the posts follows from what a generation may still cost:   *)
(* Effort counts, at each phase, the generations that are over and the     *)
(* attempts of the one under way.  That a run without the model does what  *)
(* it was asked needs to know where it stands before its second step       *)
(* (Offline).                                                              *)
(***************************************************************************)
EXTENDS ReActAgent, TLAPS

Effort ==
  /\ phase = "retrieve" =>
       steps = 0 /\ posts = 0 /\ results = <<>> /\ tries = 0 /\ authors = {}
  /\ phase = "react" =>
       /\ steps \in 1 .. MaxSteps
       /\ Len(results) < steps
       /\ posts <= Attempts * (steps - 1) + tries
  /\ phase = "final" =>
       /\ Len(results) <= steps
       /\ posts <= Attempts * steps + tries
  /\ EffortBounded

Origin ==
  /\ usedFallback <=> "fallback" \in authors
  /\ ~fallbackMode => "fallback" \notin authors
  /\ phase \in {"final", "answered"} => authors # {}

Offline ==
  /\ phase = "react" /\ "model" \notin authors =>
       \/ authors = {} /\ results = <<>> /\ steps = 1
       \/ /\ authors = {"fallback"}
          /\ results = Asked(question)
          /\ results # <<>>
          /\ steps = 2
  /\ OfflineDoesAsAsked

Inv ==
  /\ TypeOK
  /\ Effort
  /\ CallsAreSound
  /\ Origin
  /\ Offline
  /\ FailsForAReason

-----------------------------------------------------------------------------
LEMMA MaxStepsPositive == MaxSteps \in Nat /\ MaxSteps >= 1
  BY AgentAssumption

LEMMA CallTyped ==
  ASSUME TypeOK, NEW reply \in Replies, reply.input # Blank,
         reply.action \in Tools
  PROVE  /\ Call(reply) \in Calls
         /\ ~NoHost(Call(reply)) /\ reply.action = "check_server_status" =>
              Call(reply).input \in Hosts
  BY DEF TypeOK, Replies, Call, Normalized, Calls, Inputs, Questions, NoHost, Tools

(* The fallback asks for the call the question asks for, or finishes. *)
LEMMA FallbackReplyDoes ==
  ASSUME TypeOK
  PROVE  LET reply == FallbackReply(question) IN
         /\ reply \in Replies
         /\ reply.input # Blank
         /\ \/ reply.action \notin Tools /\ Asked(question) = <<>>
            \/ /\ reply.action \in Tools
               /\ ~NoHost(Call(reply))
               /\ Asked(question) = <<Call(reply)>>
  <1> DEFINE reply == FallbackReply(question)
  <1>1. FallbackHost(question) \in Hosts \cup {None}
    BY AgentAssumption DEF TypeOK, Questions, FallbackHost
  <1>2. CASE question.live /\ FallbackHost(question) # None
    <2>1. reply = [action |-> "check_server_status", input |-> FallbackHost(question)]
      BY <1>2 DEF FallbackReply
    <2>2. Call(reply) = [tool |-> "check_server_status", input |-> FallbackHost(question)]
      BY <1>1, <1>2, <2>1 DEF Call, Normalized
    <2> QED BY <1>1, <1>2, <2>1, <2>2, AgentAssumption
            DEF Replies, Inputs, Tools, NoHost, Asked
  <1>3. CASE ~(question.live /\ FallbackHost(question) # None) /\ question.incidents
    <2>1. reply = [action |-> "list_recent_incidents", input |-> Platform]
      BY <1>3 DEF FallbackReply
    <2>2. Call(reply) = [tool |-> "list_recent_incidents", input |-> Platform]
      BY <2>1 DEF Call, Normalized
    <2> QED BY <1>3, <2>1, <2>2, AgentAssumption
            DEF Replies, Inputs, Tools, NoHost, Asked
  <1>4. CASE /\ ~(question.live /\ FallbackHost(question) # None)
             /\ ~question.incidents
    <2>1. reply = [action |-> "finish", input |-> None]
      BY <1>4 DEF FallbackReply
    <2> QED BY <1>4, <2>1, AgentAssumption DEF Replies, Inputs, Tools, Asked
  <1> QED BY <1>2, <1>3, <1>4

(* A step of the loop, whoever wrote the reply. *)
LEMMA DecisionKeeps ==
  ASSUME Inv, phase = "react", NEW reply \in Replies, React(reply),
         ModelWrites \/ FallbackWrites, UNCHANGED settings,
         NEW by \in {"model", "fallback"},
         lastDecision' = [by |-> by, reply |-> reply]
  PROVE  TypeOK' /\ Effort' /\ CallsAreSound'
  <1> USE MaxStepsPositive
  <1>0. /\ tries' = 0
        /\ posts' \in Nat
        /\ posts' <= 2 * steps
    <2>1. /\ posts \in Nat
          /\ tries \in 0 .. 2
          /\ steps \in 1 .. MaxSteps
          /\ posts <= 2 * (steps - 1) + tries
      BY DEF Inv, TypeOK, Effort, Attempts
    <2>2. tries' = 0 /\ (posts' = posts \/ (posts' = posts + 1 /\ tries < 2))
      BY DEF ModelWrites, FallbackWrites, MayPost, Attempts
    <2> QED BY <2>1, <2>2
  <1>1. usedFallback' \in BOOLEAN /\ authors' \subseteq {"model", "fallback"}
    BY DEF ModelWrites, FallbackWrites, Reported, Inv, TypeOK
  <1>2. CASE ParseRaises(reply) \/ Breaks(reply)
    <2>1. phase' \in {"final", "failed"} /\ steps' = steps /\ results' = results
      BY <1>2 DEF ParseRaises, Breaks
    <2>2. TypeOK'
      BY <1>0, <1>1, <2>1 DEF Inv, TypeOK, settings, Asking, Attempts
    <2>3. Effort'
      BY <1>0, <2>1 DEF Inv, TypeOK, Effort, EffortBounded, Attempts
    <2>4. CallsAreSound'
      BY <2>1 DEF Inv, CallsAreSound
    <2> QED BY <2>2, <2>3, <2>4
  <1>3. CASE RunTool(reply)
    <2>1. /\ Call(reply) \in Calls
          /\ reply.action = "check_server_status" => Call(reply).input \in Hosts
      BY <1>3, CallTyped DEF RunTool, Inv
    <2>2. /\ results \in Seq(Calls)
          /\ results' = Append(results, Call(reply))
          /\ Len(results') = Len(results) + 1
          /\ results' \in Seq(Calls)
      BY <1>3, <2>1 DEF RunTool, Inv, TypeOK
    <2>3. /\ phase' \in {"react", "final"}
          /\ steps' \in 1 .. MaxSteps
          /\ phase' = "react" => steps' = steps + 1
          /\ phase' = "final" => steps' = steps
      BY <1>3 DEF RunTool, NextStep, Inv, TypeOK, Effort
    <2>4. TypeOK'
      BY <1>0, <1>1, <2>2, <2>3 DEF Inv, TypeOK, settings, Asking, Attempts
    <2>5. Effort'
      <3>1. /\ Len(results) \in Nat /\ Len(results) < steps
            /\ steps \in 1 .. MaxSteps
        BY <2>2 DEF Inv, Effort
      <3>2. Len(results') <= steps
        BY <2>2, <3>1
      <3>3. /\ phase' = "react" => Len(results') < steps'
            /\ Len(results') <= steps'
            /\ steps <= steps'
        BY <2>3, <3>1, <3>2
      <3>4. /\ phase' = "react" => posts' <= 2 * (steps' - 1) + tries'
            /\ phase' = "final" => posts' <= 2 * steps' + tries'
            /\ posts' <= 2 * (steps' + 1)
        <4>1. steps' \in Int /\ steps \in Int
          BY <2>3, <3>1
        <4>2. CASE phase' = "react"
          <5>1. steps' = steps + 1
            BY <2>3, <4>2
          <5> QED BY <1>0, <4>1, <4>2, <5>1
        <4>3. CASE phase' = "final"
          <5>1. steps' = steps
            BY <2>3, <4>3
          <5> QED BY <1>0, <4>1, <4>3, <5>1
        <4> QED BY <2>3, <4>2, <4>3
      <3> QED BY <2>3, <3>3, <3>4 DEF Effort, EffortBounded, Attempts
    <2>6. \A k \in DOMAIN results : results[k] # Call(reply)
      BY <1>3 DEF RunTool, Seen, ToSet
    <2>7. /\ DOMAIN results' = 1 .. Len(results) + 1
          /\ DOMAIN results = 1 .. Len(results)
          /\ \A k \in 1 .. Len(results) : results'[k] = results[k]
          /\ results'[Len(results) + 1] = Call(reply)
      BY <2>2
    <2>8. CallsAreSound'
      <3>1. \A j, k \in DOMAIN results' : results'[j] = results'[k] => j = k
        BY <2>2, <2>6, <2>7 DEF Inv, CallsAreSound
      <3>2. \A k \in DOMAIN results' :
              results'[k].tool = "check_server_status" => results'[k].input \in Hosts
        BY <2>1, <2>2, <2>7 DEF Inv, CallsAreSound, Call
      <3> QED BY <3>1, <3>2 DEF CallsAreSound
    <2> QED BY <2>4, <2>5, <2>8
  <1> QED BY <1>2, <1>3 DEF React

LEMMA StepKeepsBounds ==
  ASSUME Inv, [Run]_vars PROVE TypeOK' /\ Effort' /\ CallsAreSound'
  <1> USE MaxStepsPositive DEF Inv, TypeOK, Effort, EffortBounded, CallsAreSound,
          settings, client, Asking, Attempts
  <1>1. CASE Retrieve
    BY <1>1 DEF Retrieve
  <1>2. CASE RetrieveFails
    BY <1>2 DEF RetrieveFails
  <1>3. CASE PostFails
    BY <1>3 DEF PostFails, MayPost
  <1>4. CASE GenerateRaises
    BY <1>4 DEF GenerateRaises, ErrorIsRaised
  <1>5. ASSUME NEW reply \in Replies, ModelDecides(reply)
        PROVE  TypeOK' /\ Effort' /\ CallsAreSound'
    BY <1>5, DecisionKeeps DEF ModelDecides
  <1>6. CASE FallbackDecides
    BY <1>6, DecisionKeeps, FallbackReplyDoes DEF FallbackDecides
  <1>7. CASE Answer
    <2>1. /\ steps' = steps /\ results' = results /\ phase' = "answered"
          /\ tries' = 0
          /\ posts' = posts \/ (posts' = posts + 1 /\ tries < 2)
      BY <1>7 DEF Answer, ModelWrites, FallbackWrites, MayPost
    <2>2. usedFallback' \in BOOLEAN /\ authors' \subseteq {"model", "fallback"}
      BY <1>7 DEF Answer, ModelWrites, FallbackWrites, Reported
    <2>3. TypeOK'
      BY <1>7, <2>1, <2>2 DEF Answer
    <2>4. Effort'
      BY <1>7, <2>1 DEF Answer
    <2>5. CallsAreSound'
      BY <2>1
    <2> QED BY <2>3, <2>4, <2>5
  <1>8. CASE UNCHANGED vars
    BY <1>8 DEF vars
  <1> QED BY <1>1, <1>2, <1>3, <1>4, <1>5, <1>6, <1>7, <1>8 DEF Run

LEMMA StepKeepsOrigin ==
  ASSUME Inv, [Run]_vars PROVE Origin'
  <1> USE DEF Inv, TypeOK, Effort, Origin, settings, client, Asking
  <1>1. CASE Retrieve \/ RetrieveFails \/ PostFails \/ GenerateRaises
    BY <1>1 DEF Retrieve, RetrieveFails, PostFails, GenerateRaises
  <1>2. CASE ModelWrites /\ UNCHANGED settings
    BY <1>2 DEF ModelWrites, Reported
  <1>3. CASE FallbackWrites /\ UNCHANGED settings
    BY <1>3 DEF FallbackWrites, Reported
  <1>4. CASE UNCHANGED vars
    BY <1>4 DEF vars
  <1> QED BY <1>1, <1>2, <1>3, <1>4 DEF Run, ModelDecides, FallbackDecides, Answer

LEMMA StepKeepsOffline ==
  ASSUME Inv, [Run]_vars PROVE Offline'
  <1>1. CASE Retrieve
    BY <1>1 DEF Retrieve, Inv, Effort, Offline, OfflineDoesAsAsked, client, settings
  <1>2. CASE RetrieveFails \/ GenerateRaises
    BY <1>2 DEF RetrieveFails, GenerateRaises, Offline, OfflineDoesAsAsked
  <1>3. CASE PostFails
    BY <1>3 DEF PostFails, Inv, Offline, OfflineDoesAsAsked, settings, Asked, FallbackHost
  <1>4. CASE ModelWrites
    BY <1>4 DEF ModelWrites, Offline, OfflineDoesAsAsked
  <1>5. CASE FallbackDecides
    <2> DEFINE reply == FallbackReply(question)
    <2>1. /\ phase = "react"
          /\ question' = question
          /\ authors' = authors \cup {"fallback"}
          /\ React(reply)
      BY <1>5 DEF FallbackDecides, FallbackWrites, settings
    <2>2. SUFFICES ASSUME "model" \notin authors PROVE Offline'
      BY <2>1, <2>2 DEF Offline, OfflineDoesAsAsked
    <2>3. /\ authors' = {"fallback"}
          /\ \/ results = <<>> /\ steps = 1
             \/ results = Asked(question) /\ results # <<>> /\ steps = 2
      BY <2>1, <2>2 DEF Inv, Offline
    <2>4. Asked(question)' = Asked(question)
      BY <2>1 DEF Asked, FallbackHost
    <2>5. CASE reply.action \notin Tools
      <3>1. Asked(question) = <<>> /\ reply.input # Blank
        BY <2>5, FallbackReplyDoes DEF Inv
      <3>2. phase' = "final" /\ results' = results /\ steps' = steps
        BY <2>1, <2>5, <3>1 DEF React, ParseRaises, Breaks, RunTool
      <3> QED BY <2>3, <2>4, <3>1, <3>2 DEF Offline, OfflineDoesAsAsked
    <2>6. CASE reply.action \in Tools
      <3>1. /\ Asked(question) = <<Call(reply)>>
            /\ reply.input # Blank
            /\ ~NoHost(Call(reply))
        BY <2>6, FallbackReplyDoes DEF Inv
      <3>2. CASE results = <<>> /\ steps = 1
        <4>1. RunTool(reply)
          BY <2>1, <2>6, <3>1, <3>2 DEF React, ParseRaises, Breaks, Seen, ToSet
        <4>2. results' = <<Call(reply)>>
          BY <3>2, <4>1 DEF RunTool
        <4>3. \/ phase' = "react" /\ steps' = 2
              \/ phase' = "final" /\ steps' = 1
          BY <2>1, <3>2, <4>1, MaxStepsPositive DEF RunTool, NextStep
        <4> QED BY <2>3, <2>4, <3>1, <4>2, <4>3 DEF Offline, OfflineDoesAsAsked
      <3>3. CASE results = Asked(question) /\ steps = 2
        <4>1. Seen(Call(reply))
          BY <3>1, <3>3 DEF Seen, ToSet
        <4>2. phase' = "final" /\ results' = results /\ steps' = steps
          BY <2>1, <3>1, <4>1 DEF React, ParseRaises, Breaks, RunTool
        <4> QED BY <2>3, <2>4, <3>3, <4>2 DEF Offline, OfflineDoesAsAsked
      <3> QED BY <2>3, <3>2, <3>3
    <2> QED BY <2>5, <2>6
  <1>6. CASE Answer /\ FallbackWrites
    <2>1. /\ phase = "final" /\ phase' = "answered"
          /\ results' = results /\ steps' = steps /\ question' = question
          /\ authors' = authors \cup {"fallback"}
      BY <1>6 DEF Answer, FallbackWrites, settings
    <2>2. authors' = {"fallback"} => authors = {"fallback"}
      BY <2>1 DEF Inv, Origin
    <2>3. Asked(question)' = Asked(question)
      BY <2>1 DEF Asked, FallbackHost
    <2> QED BY <2>1, <2>2, <2>3 DEF Inv, Offline, OfflineDoesAsAsked
  <1>7. CASE UNCHANGED vars
    BY <1>7 DEF vars, settings, client, Inv, Offline, OfflineDoesAsAsked, Asked, FallbackHost
  <1> QED BY <1>1, <1>2, <1>3, <1>4, <1>5, <1>6, <1>7 DEF Run, ModelDecides, Answer

(* A step fails the run for one of the three reasons, and no other step    *)
(* follows a failure.                                                      *)
LEMMA StepKeepsReasons ==
  ASSUME Inv, [Run]_vars PROVE FailsForAReason'
  <1>1. CASE Retrieve \/ PostFails \/ Answer
    BY <1>1 DEF Retrieve, PostFails, Answer, Asking, FailsForAReason
  <1>2. CASE RetrieveFails
    BY <1>2 DEF RetrieveFails, Inv, Effort, client, FailsForAReason
  <1>3. CASE GenerateRaises
    BY <1>3 DEF GenerateRaises, ErrorIsRaised, MayPost, Attempts, settings, client,
       Inv, TypeOK, FailsForAReason
  <1>4. ASSUME NEW reply \in Replies, ModelDecides(reply) PROVE FailsForAReason'
    <2>1. /\ tries' = 0
          /\ lastDecision' = [by |-> "model", reply |-> reply]
          /\ React(reply) /\ phase = "react"
      BY <1>4 DEF ModelDecides, ModelWrites
    <2>2. phase' = "failed" => reply.input = Blank
      BY <2>1 DEF React, ParseRaises, Breaks, RunTool, NextStep
    <2> QED BY <2>1, <2>2 DEF FailsForAReason
  <1>5. CASE FallbackDecides
    BY <1>5, FallbackReplyDoes DEF FallbackDecides, React, ParseRaises, Breaks, RunTool,
       NextStep, Inv, FailsForAReason
  <1>6. CASE UNCHANGED vars
    BY <1>6 DEF vars, settings, client, Inv, FailsForAReason
  <1> QED BY <1>1, <1>2, <1>3, <1>4, <1>5, <1>6 DEF Run

(* What holds at each point of a run (react.py, run).                      *)
THEOREM RunInvariant == Spec => []Inv
  <1>1. Init => Inv
    <2> SUFFICES ASSUME Init PROVE Inv
      OBVIOUS
    <2>1. TypeOK
      <3>1. results \in Seq(Calls)
        BY DEF Init
      <3>2. steps \in 0 .. MaxSteps /\ tries \in 0 .. Attempts /\ posts \in Nat
        BY MaxStepsPositive DEF Init, Attempts
      <3> QED BY <3>1, <3>2 DEF Init, TypeOK
    <2>2. Effort
      BY MaxStepsPositive DEF Init, Effort, EffortBounded, Attempts
    <2>3. CallsAreSound /\ Origin /\ Offline /\ FailsForAReason
      BY DEF Init, CallsAreSound, Origin, Offline, OfflineDoesAsAsked, FailsForAReason
    <2> QED BY <2>1, <2>2, <2>3 DEF Inv
  <1>2. Inv /\ [Run]_vars => Inv'
    BY StepKeepsBounds, StepKeepsOrigin, StepKeepsOffline, StepKeepsReasons DEF Inv
  <1> QED BY <1>1, <1>2, PTL DEF Spec

(* Every reachable state of a run is well typed. *)
THEOREM RunTypeCorrect == Spec => []TypeOK
  BY RunInvariant, PTL DEF Inv

(* A run costs at most two posts for each step and for the answer, and no  *)
(* more tool calls than steps (react.py, run).                             *)
THEOREM EffortIsBounded == Spec => []EffortBounded
  <1>1. Inv => EffortBounded
    BY DEF Inv, Effort
  <1> QED BY <1>1, RunInvariant, PTL

(* No call is repeated, not even with another in between, and no live      *)
(* check goes out without a host (react.py, the guards of the loop).       *)
THEOREM CallsStaySound == Spec => []CallsAreSound
  BY RunInvariant, PTL DEF Inv

(* used_fallback_llm tells the truth (react.py, run; client.py, generate). *)
THEOREM FallbackIsReported == Spec => []FallbackReported
  <1>1. Inv => FallbackReported
    BY DEF Inv, TypeOK, Origin, FallbackReported
  <1> QED BY <1>1, RunInvariant, PTL

(* Out of reach of its model, a run makes the one call that the fallback   *)
(* reads in its question, to the host its own pattern finds there, if any, *)
(* in two steps at most (client.py, _fallback_generate).                   *)
THEOREM OfflineRunsDoAsAsked == Spec => []OfflineDoesAsAsked
  <1>1. Inv => OfflineDoesAsAsked
    BY DEF Inv, Offline
  <1> QED BY <1>1, RunInvariant, PTL

(* A run fails for the retrieval, for a model out of reach, or for the     *)
(* blank input of the text it was just given, which the model wrote and    *)
(* not the fallback (react.py, run and _parse_react).                      *)
THEOREM FailuresHaveReasons == Spec => []FailsForAReason
  BY RunInvariant, PTL DEF Inv

-----------------------------------------------------------------------------
(* No reply of the model stops behind "Action Input:".                     *)
Readable == \A reply \in Replies : ModelDecides(reply) => reply.input # Blank

LEMMA ReadableStepFails ==
  ASSUME Inv, Run, Readable, phase' = "failed"
  PROVE  \/ steps' = 0
         \/ tries' = Attempts /\ ~fallbackMode'
  <1>1. phase \in {"retrieve", "react", "final"}
    BY DEF Run, Retrieve, RetrieveFails, PostFails, GenerateRaises, ModelDecides,
           FallbackDecides, Answer, Asking
  <1>2. ASSUME NEW reply, reply.input # Blank PROVE ~React(reply)
    BY <1>1, <1>2 DEF React, ParseRaises, Breaks, RunTool, NextStep
  <1>3. ASSUME NEW reply \in Replies PROVE ~ModelDecides(reply)
    BY <1>2 DEF Readable, ModelDecides
  <1>4. ~FallbackDecides
    BY <1>2, FallbackReplyDoes DEF FallbackDecides, Inv
  <1>5. CASE RetrieveFails
    BY <1>5 DEF RetrieveFails, Inv, Effort
  <1>6. CASE GenerateRaises
    <2>1. tries \in 0 .. Attempts /\ ~(tries < Attempts) /\ ~fallbackMode
      BY <1>6 DEF GenerateRaises, ErrorIsRaised, MayPost, Inv, TypeOK
    <2>2. tries = Attempts
      BY <2>1 DEF Attempts
    <2> QED BY <1>6, <2>1, <2>2 DEF GenerateRaises, client, settings
  <1>7. ~Retrieve /\ ~PostFails /\ ~Answer
    BY <1>1 DEF Retrieve, PostFails, Answer, Asking
  <1> QED BY <1>3, <1>4, <1>5, <1>6, <1>7 DEF Run

(* What README.md says of the parser is right of a model that never leaves *)
(* an input blank, whatever else it writes: once it has its documents, a   *)
(* run fails only because the model could not be reached.                  *)
THEOREM ReadableRepliesSuffice == Spec /\ [][Readable]_vars => []FailsOnlyUnreached
  <1>1. Init => FailsOnlyUnreached
    BY DEF Init, FailsOnlyUnreached
  <1>2. Inv /\ FailsOnlyUnreached /\ [Run]_vars /\ [Readable]_vars => FailsOnlyUnreached'
    <2> SUFFICES ASSUME Inv, FailsOnlyUnreached, [Run]_vars, [Readable]_vars
                 PROVE  FailsOnlyUnreached'
      OBVIOUS
    <2>1. CASE UNCHANGED vars
      BY <2>1 DEF vars, client, settings, FailsOnlyUnreached
    <2>2. CASE Run /\ Readable
      BY <2>2, ReadableStepFails DEF FailsOnlyUnreached
    <2> QED BY <2>1, <2>2
  <1> QED BY <1>1, <1>2, RunInvariant, PTL DEF Spec
=============================================================================
