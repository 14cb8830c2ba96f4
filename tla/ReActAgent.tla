----------------------------- MODULE ReActAgent -----------------------------
(***************************************************************************)
(* One run of the agent, agent/react.py, over the LLM client,              *)
(* llm/client.py: what QueryService takes for a single step.               *)
(*                                                                         *)
(* The documents are retrieved, the model is asked up to MaxSteps times    *)
(* what to do and its tool calls are run, and it is asked once more for    *)
(* the answer.  The model may reply anything; each post to it may fail,    *)
(* and then be tried again; behind it stands the rule-based fallback.      *)
(* Runs share nothing: one is enough.                                      *)
(***************************************************************************)
EXTENDS SequencesExt

CONSTANTS
  Hosts,            \* Host names, as HOST_RE finds them.
  Services,         \* Names of services.
  Platform,         \* The service asked about when none is named.
  FallbackFinds(_), \* What the fallback's own pattern finds of a host name:
                    \* it knows fewer domains.
  None,             \* No input, or a word for it.
  Blank,            \* Nothing behind "Action Input:", at the end of the text.
  MaxSteps          \* agent_max_steps.

ASSUME AgentAssumption ==
  /\ MaxSteps \in Nat \ {0}
  /\ Platform \in Services
  /\ Hosts \cap Services = {}
  /\ {None, Blank} \cap (Hosts \cup Services) = {}
  /\ None # Blank
  /\ \A h \in Hosts : FallbackFinds(h) \in Hosts \cup {None}

(* stop_after_attempt(2) *)
Attempts == 2

Tools == {"check_server_status", "list_recent_incidents"}

Inputs == Hosts \cup Services \cup {None}

(* TOOL_REGISTRY, called with a normalized input. *)
Calls == [tool : Tools, input : Inputs]

(* What a model's text comes to: a tool, "finish" or a word that is        *)
(* neither, with an input; or no action at all.                            *)
Replies ==
  [action : Tools \cup {"finish"}, input : Inputs \cup {Blank}]
    \cup [action : {"prose"}, input : {None}]

(* What matters of a question: the host it names, and whether the fallback *)
(* takes it to ask about a live host or about incidents.                   *)
Questions == [host : Hosts \cup {None}, live : BOOLEAN, incidents : BOOLEAN]

VARIABLES
  question,     \* The question.
  fallbackMode, \* llm_fallback_mode.
  phase,        \* Where the run is.
  steps,        \* trace.steps
  results,      \* trace.tool_results, by their calls; seen_calls is their set.
  usedFallback, \* trace.used_fallback_llm
  tries,        \* Posts of this generation that failed.
  posts,        \* History: posts to the model.
  authors,      \* History: who wrote the texts so far.
  lastDecision  \* History: the last text asked for in the loop, and its author.

settings == <<question, fallbackMode>>
client == <<usedFallback, tries, posts, authors, lastDecision>>

vars == <<settings, phase, steps, results, client>>

Asking == {"react", "final"}

NoDecision == [by |-> "nobody", reply |-> [action |-> "prose", input |-> None]]

TypeOK ==
  /\ question \in Questions
  /\ fallbackMode \in BOOLEAN
  /\ phase \in {"retrieve", "answered", "failed"} \cup Asking
  /\ steps \in 0 .. MaxSteps
  /\ results \in Seq(Calls)
  /\ usedFallback \in BOOLEAN
  /\ tries \in 0 .. Attempts
  /\ posts \in Nat
  /\ authors \subseteq {"model", "fallback"}
  /\ lastDecision \in [by : {"model", "fallback"}, reply : Replies] \cup {NoDecision}

Init ==
  /\ question \in Questions
  /\ fallbackMode \in BOOLEAN
  /\ phase = "retrieve"
  /\ steps = 0
  /\ results = <<>>
  /\ usedFallback = FALSE
  /\ tries = 0
  /\ posts = 0
  /\ authors = {}
  /\ lastDecision = NoDecision

-----------------------------------------------------------------------------
(* LLMClient.generate *)

(* A slip to be caught: one post too many. *)
MayPostOnceMore == tries <= Attempts

MayPost == tries < Attempts

(* _ollama_generate: no connection, a timeout, an error status, no JSON. *)
PostFails ==
  /\ phase \in Asking
  /\ MayPost
  /\ tries' = tries + 1
  /\ posts' = posts + 1
  /\ UNCHANGED <<settings, phase, steps, results, usedFallback, authors, lastDecision>>

(* A slip to be caught: only the last generation is reported. *)
ReportedLast(fallback) == usedFallback' = fallback

Reported(fallback) == usedFallback' = (usedFallback \/ fallback)

ModelWrites ==
  /\ MayPost
  /\ posts' = posts + 1
  /\ tries' = 0
  /\ Reported(FALSE)
  /\ authors' = authors \cup {"model"}

FallbackWrites ==
  /\ ~MayPost
  /\ fallbackMode
  /\ tries' = 0
  /\ Reported(TRUE)
  /\ authors' = authors \cup {"fallback"}
  /\ UNCHANGED posts

(* A slip to be caught: the last error is swallowed. *)
ErrorIsSwallowed == FALSE

ErrorIsRaised == ~MayPost /\ ~fallbackMode

GenerateRaises ==
  /\ phase \in Asking
  /\ ErrorIsRaised
  /\ phase' = "failed"
  /\ UNCHANGED <<settings, steps, results, client>>

(* _fallback_generate, for a prompt that asks for a tool decision: its     *)
(* rules read the question only, whatever was observed since.              *)
FallbackHost(q) == IF q.host = None THEN None ELSE FallbackFinds(q.host)

FallbackReply(q) ==
  IF q.live /\ FallbackHost(q) # None
  THEN [action |-> "check_server_status", input |-> FallbackHost(q)]
  ELSE IF q.incidents
       THEN [action |-> "list_recent_incidents", input |-> Platform]
       ELSE [action |-> "finish", input |-> None]

-----------------------------------------------------------------------------
(* ReActAgent.run *)

(* _normalize_action_input *)
Normalized(reply) ==
  IF reply.action = "check_server_status" /\ reply.input \notin Hosts
  THEN question.host
  ELSE reply.input

Call(reply) == [tool |-> reply.action, input |-> Normalized(reply)]

(* A slip to be caught: only the call just made is remembered. *)
SeenLast(call) == results # <<>> /\ Last(results) = call

(* A slip to be caught: no call is remembered. *)
SeenNever(call) == FALSE

Seen(call) == call \in ToSet(results)

NoHost(call) == call.tool = "check_server_status" /\ call.input = None

Retrieve ==
  /\ phase = "retrieve"
  /\ phase' = "react"
  /\ steps' = 1
  /\ UNCHANGED <<settings, results, client>>

RetrieveFails ==
  /\ phase = "retrieve"
  /\ phase' = "failed"
  /\ UNCHANGED <<settings, steps, results, client>>

(* A slip to be caught: a text without any action is unpacked like others. *)
UnparsedRaises(reply) ==
  /\ reply.input = Blank \/ reply.action = "prose"
  /\ phase' = "failed"
  /\ UNCHANGED <<steps, results>>

(* _parse_react takes the first line of an input that has none: IndexError. *)
ParseRaises(reply) ==
  /\ reply.input = Blank
  /\ phase' = "failed"
  /\ UNCHANGED <<steps, results>>

Breaks(reply) ==
  /\ reply.input # Blank
  /\ reply.action \notin Tools \/ NoHost(Call(reply)) \/ Seen(Call(reply))
  /\ phase' = "final"
  /\ UNCHANGED <<steps, results>>

NextStep ==
  \/ steps < MaxSteps /\ steps' = steps + 1 /\ UNCHANGED phase
  \/ steps = MaxSteps /\ phase' = "final" /\ UNCHANGED steps

RunTool(reply) ==
  /\ reply.input # Blank
  /\ reply.action \in Tools
  /\ ~NoHost(Call(reply))
  /\ ~Seen(Call(reply))
  /\ results' = Append(results, Call(reply))
  /\ NextStep

React(reply) == ParseRaises(reply) \/ Breaks(reply) \/ RunTool(reply)

ModelDecides(reply) ==
  /\ phase = "react"
  /\ ModelWrites
  /\ lastDecision' = [by |-> "model", reply |-> reply]
  /\ React(reply)
  /\ UNCHANGED settings

FallbackDecides ==
  /\ phase = "react"
  /\ FallbackWrites
  /\ lastDecision' = [by |-> "fallback", reply |-> FallbackReply(question)]
  /\ React(FallbackReply(question))
  /\ UNCHANGED settings

Answer ==
  /\ phase = "final"
  /\ ModelWrites \/ FallbackWrites
  /\ phase' = "answered"
  /\ UNCHANGED <<settings, steps, results, lastDecision>>

-----------------------------------------------------------------------------
Run ==
  \/ Retrieve
  \/ RetrieveFails
  \/ PostFails
  \/ GenerateRaises
  \/ \E reply \in Replies : ModelDecides(reply)
  \/ FallbackDecides
  \/ Answer

Spec == Init /\ [][Run]_vars

(* Each await of the run returns or raises: a post is under a timeout.     *)
FairSpec == Spec /\ WF_vars(Run)
-----------------------------------------------------------------------------
(* Whatever the model replies and however often it cannot be reached, a    *)
(* run posts at most Attempts times for each step and for the answer, and  *)
(* never runs more tools than it took steps (react.py, run; client.py,     *)
(* _ollama_generate).                                                      *)
EffortBounded ==
  /\ posts <= Attempts * (steps + 1)
  /\ steps <= MaxSteps
  /\ Len(results) <= steps

(* No tool is called twice with the same input, not even with another call *)
(* in between, and a live check never goes out without a host: neither the *)
(* model's inputs nor the question could supply another.                   *)
CallsAreSound ==
  /\ \A j, k \in DOMAIN results : results[j] = results[k] => j = k
  /\ \A k \in DOMAIN results :
       results[k].tool = "check_server_status" => results[k].input \in Hosts

(* used_fallback_llm, which the client is shown and the ledger keeps, says *)
(* whether the fallback wrote any text of the run, however the attempts of *)
(* the single generations went.                                            *)
FallbackReported ==
  /\ usedFallback <=> "fallback" \in authors
  /\ phase = "answered" /\ ~fallbackMode => authors = {"model"}

(* What a question asks for, as the fallback reads it: a live check of the *)
(* host that its own pattern finds, which need not be the host the         *)
(* question names, or the incidents of the platform.                       *)
Asked(q) ==
  IF q.live /\ FallbackHost(q) # None
  THEN <<[tool |-> "check_server_status", input |-> FallbackHost(q)]>>
  ELSE IF q.incidents
       THEN <<[tool |-> "list_recent_incidents", input |-> Platform]>>
       ELSE <<>>

(* "Ollama with deterministic fallback": with the model out of reach, a    *)
(* run makes the one call that the rules of the fallback read in the       *)
(* question (Asked), if they read one, and leaves the loop within two      *)
(* steps, although the fallback never says "finish" after a tool call.     *)
OfflineDoesAsAsked ==
  phase \in {"final", "answered"} /\ authors = {"fallback"} =>
    results = Asked(question) /\ steps <= 2

(* A run fails for three reasons only: the retrieval, before anything was  *)
(* asked; a model that could not be reached twice in a row with the        *)
(* fallback turned off; or a blank input in the text it was just given,    *)
(* which the model wrote, never the fallback (react.py, _parse_react).     *)
FailsForAReason ==
  phase = "failed" =>
    \/ steps = 0 /\ posts = 0
    \/ tries = Attempts /\ ~fallbackMode
    \/ /\ tries = 0
       /\ lastDecision.by = "model"
       /\ lastDecision.reply.input = Blank

(* Every run answers or fails. *)
RunEnds == <>(phase \in {"answered", "failed"})

-----------------------------------------------------------------------------
(* README.md, "tolerant parsing"; react.py, "Recover hostname from the     *)
(* user question when model forgot Action Input": once it has its          *)
(* documents, a run fails only because the model could not be reached.     *)
FailsOnlyUnreached ==
  phase = "failed" /\ steps > 0 => tries = Attempts /\ ~fallbackMode
=============================================================================
