---------------------------- MODULE McpTopology ----------------------------
(***************************************************************************)
(* opensovd-mcp: a session over stdin and stdout with an MCP client, whose *)
(* calls it turns into list requests to the gateway.  A tool lists one     *)
(* kind of entities.  read_resource sends three requests at once and joins *)
(* their answers into one report; the first that fails makes the whole     *)
(* read fail.  Calls are served concurrently.                              *)
(*                                                                         *)
(* The gateway is external here: it answers each request under a read      *)
(* guard of its own, and discovery applies batches in between.  The        *)
(* registry is the one of DiscoveryFeed, which Discovery implements: a     *)
(* batch changes it in one step.  rmcp, which reads stdin and spawns the   *)
(* handlers, is external too.                                              *)
(***************************************************************************)
EXTENDS TopologyEvents

CONSTANTS Callers,  \* calls that an MCP client can have open at once
          Batches,  \* the batches discovery can apply
          Unknown,  \* no answer yet
          Failed    \* the request failed

\* A batch adds entities.
ASSUME BatchesAssumption == \A batch \in Batches : Additions(batch) \subseteq Entities

Kinds == {"component", "area", "app"}

VARIABLES registry,  \* the live entities
          session,   \* how far the program is
          input,     \* its stdin, as its client leaves it: "open" or "closed"
          call       \* caller -> its call

mcpVars == <<registry, session, input, call>>

OfKind(entities, kind) == {e \in entities : e.kind = kind}

Unanswered == [k \in Kinds |-> Unknown]

\* `seen` is every registry there was since the call began.
NoCall == [stage |-> "idle", wants |-> {}, answer |-> Unanswered, seen |-> {}]

\* The lists that each request wants: the topology resource, the tools, and prompts
\* and descriptions, which are answered without the gateway.
Wants == [topology |-> Kinds, list_components |-> {"component"}, list_areas |-> {"area"},
          list_apps |-> {"app"}, explore_topology |-> {}, unknown |-> {}]

McpInit ==
    /\ registry = {}
    /\ session = "connecting"
    /\ input = "open"
    /\ call = [c \in Callers |-> NoCall]

(***************************************************************************)
(* The gateway.                                                            *)
(***************************************************************************)

\* A request of the call is on its way.
Asks(c, kind) ==
    /\ call[c].stage = "asking"
    /\ kind \in call[c].wants
    /\ call[c].answer[kind] = Unknown

\* Discovery applies a batch.
ApplyBatch ==
    /\ \E batch \in Batches : registry' = Merge(registry, batch)
    /\ call' = [c \in Callers |->
                   IF call[c].stage = "asking"
                   THEN [call[c] EXCEPT !.seen = @ \cup {registry'}] ELSE call[c]]
    /\ UNCHANGED <<session, input>>

\* component_list, area_list or app_list, without a filter.
AnswerList(c, kind) ==
    /\ Asks(c, kind)
    /\ call' = [call EXCEPT ![c].answer[kind] = OfKind(registry, kind)]
    /\ UNCHANGED <<registry, session, input>>

\* The gateway is not reached, answers with an error (401 to every request, if it
\* wants a token), or its answer is lost.
RequestFails(c, kind) ==
    /\ Asks(c, kind)
    /\ call' = [call EXCEPT ![c].answer[kind] = Failed]
    /\ UNCHANGED <<registry, session, input>>

(***************************************************************************)
(* A call.                                                                 *)
(***************************************************************************)

OpenCall(request) ==
    [stage |-> "asking", wants |-> Wants[request], answer |-> Unanswered, seen |-> {registry}]

\* Faulty variant of Ask: it keeps the answers of the call before.
AskCached(c, request) ==
    /\ session = "serving" /\ input = "open"
    /\ call[c].stage # "asking"
    /\ call' = [call EXCEPT ![c] =
          [OpenCall(request) EXCEPT !.answer = call[c].answer]]
    /\ UNCHANGED <<registry, session, input>>

\* A resource with any other URI is not found.
Ask(c, request) ==
    /\ session = "serving" /\ input = "open"
    /\ call[c].stage # "asking"
    /\ call' = [call EXCEPT ![c] =
          IF request = "unknown" THEN [NoCall EXCEPT !.stage = "failed"]
                                 ELSE OpenCall(request)]
    /\ UNCHANGED <<registry, session, input>>

SomeFailed(c) == \E kind \in call[c].wants : call[c].answer[kind] = Failed

\* Faulty variant of FailCall: it waits for the other requests, as join! would.
FailWhenAllAnswered(c) ==
    /\ call[c].stage = "asking"
    /\ SomeFailed(c)
    /\ \A kind \in Kinds : ~Asks(c, kind)
    /\ call' = [call EXCEPT ![c] = [NoCall EXCEPT !.stage = "failed"]]
    /\ UNCHANGED <<registry, session, input>>

\* The first failure ends the call with internal_error and drops the other requests.
FailCall(c) ==
    /\ call[c].stage = "asking"
    /\ SomeFailed(c)
    /\ call' = [call EXCEPT ![c] = [NoCall EXCEPT !.stage = "failed"]]
    /\ UNCHANGED <<registry, session, input>>

\* Every request has its list.
Join(c) ==
    /\ call[c].stage = "asking"
    /\ ~SomeFailed(c)
    /\ \A kind \in Kinds : ~Asks(c, kind)
    /\ call' = [call EXCEPT ![c].stage = "reported"]
    /\ UNCHANGED <<registry, session, input>>

(***************************************************************************)
(* The program.                                                            *)
(***************************************************************************)

\* The URL is not one, or the client leaves before it has initialized the session.
ConnectFails ==
    /\ session = "connecting"
    /\ session' = "exited"
    /\ UNCHANGED <<registry, input, call>>

Initialize ==
    /\ session = "connecting" /\ input = "open"
    /\ session' = "serving"
    /\ UNCHANGED <<registry, input, call>>

CloseInput ==
    /\ input = "open"
    /\ input' = "closed"
    /\ UNCHANGED <<registry, session, call>>

\* Faulty variant of ServiceStops: its end and the signal are both waited for.
ServiceStopsUnnoticed ==
    /\ session = "serving" /\ input = "closed"
    /\ call' = [c \in Callers |-> NoCall]
    /\ UNCHANGED <<registry, session, input>>

\* waiting() returns; calls that are under way get no answer.
ServiceStops ==
    /\ session = "serving" /\ input = "closed"
    /\ session' = "stopping"
    /\ call' = [c \in Callers |-> NoCall]
    /\ UNCHANGED <<registry, input>>

\* shutdown_signal() is listened to once the session is initialized, and for one
\* signal.
Signal ==
    /\ session \in {"connecting", "serving"}
    /\ session' = IF session = "connecting" THEN "exited" ELSE "stopping"
    /\ call' = [c \in Callers |-> NoCall]
    /\ UNCHANGED <<registry, input>>

\* serve() has returned, but the runtime waits for the thread that reads stdin: until
\* the client closes it or writes once more.
Exit ==
    /\ session = "stopping" /\ input = "closed"
    /\ session' = "exited"
    /\ UNCHANGED <<registry, input, call>>

WriteAndExit ==
    /\ session = "stopping" /\ input = "open"
    /\ session' = "exited"
    /\ UNCHANGED <<registry, input, call>>

CallEnd(c) == FailCall(c) \/ Join(c)

McpNext ==
    \/ ApplyBatch
    \/ \E c \in Callers : \/ CallEnd(c)
                          \/ \E request \in DOMAIN Wants : Ask(c, request)
                          \/ \E kind \in Kinds : AnswerList(c, kind) \/ RequestFails(c, kind)
    \/ ConnectFails \/ Initialize \/ CloseInput \/ ServiceStops \/ Signal
    \/ Exit \/ WriteAndExit

\* The program goes on with a call that it can end, and finds that its input was closed.
\* Nobody is obliged to answer a request, and there is no timeout: a request whose
\* gateway says nothing stays open.
McpFairness ==
    /\ \A c \in Callers : WF_mcpVars(CallEnd(c))
    /\ WF_mcpVars(input = "closed" /\ (ConnectFails \/ ServiceStops \/ Exit))

McpSpec == McpInit /\ [][McpNext]_mcpVars /\ McpFairness

-----------------------------------------------------------------------------

\* What a call reports is, kind by kind, what the registry held at some moment of
\* the call: an entity it names was live, and an entity it omits was not, at one
\* moment that is the same for all entities of that kind.
EachSectionWasReal ==
    \A c \in Callers : call[c].stage = "reported" =>
        \A k \in call[c].wants : \E s \in call[c].seen : call[c].answer[k] = OfKind(s, k)

\* A call ends as soon as it can be told how: with the first request that fails, even if
\* the gateway never answers the others, or with the last answer.
OutcomeEndsCall ==
    \A c \in Callers :
        call[c].stage = "asking" /\ (SomeFailed(c) \/ \A kind \in Kinds : ~Asks(c, kind))
            ~> call[c].stage # "asking"

\* A client that goes away takes the program with it, whatever calls were open and
\* whatever signal came.
ClosingEndsMcp == input = "closed" ~> session = "exited"

=============================================================================
