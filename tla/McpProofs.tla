----------------------------- MODULE McpProofs -----------------------------
(***************************************************************************)
(* What a call of the MCP server reports was so, for every set of calls,   *)
(* of ids and of batches, whatever the registry goes through meanwhile.    *)
(***************************************************************************)
EXTENDS McpTopology, TLAPS

Stages == {"idle", "asking", "reported", "failed"}

Calls == [stage : Stages, wants : SUBSET Kinds,
          answer : [Kinds -> {Unknown, Failed} \cup SUBSET Entities],
          seen : SUBSET SUBSET Entities]

McpTypeOK ==
    /\ registry \subseteq Entities
    /\ session \in {"connecting", "serving", "stopping", "exited"}
    /\ input \in {"open", "closed"}
    /\ call \in [Callers -> Calls]

(***************************************************************************)
(* The inductive invariant.  While a call is open, the registry is among   *)
(* those seen since the call began, so that a list is of one of them       *)
(* whenever it is answered; and a call that reports has every list.        *)
(***************************************************************************)

IsList(answer) == answer \notin {Unknown, Failed}

CallOK(c) ==
    /\ call[c].stage = "asking" => registry \in call[c].seen
    /\ \A k \in call[c].wants :
          /\ call[c].stage \in {"asking", "reported"} /\ IsList(call[c].answer[k]) =>
                \E s \in call[c].seen : call[c].answer[k] = OfKind(s, k)
          /\ call[c].stage = "reported" => IsList(call[c].answer[k])

McpInv == McpTypeOK /\ \A c \in Callers : CallOK(c)

LEMMA WantsAreKinds ==
    ASSUME NEW request \in DOMAIN Wants
    PROVE  Wants[request] \subseteq Kinds
  BY DEF Wants, Kinds

LEMMA CallTypes ==
    /\ McpTypeOK => call \in [Callers -> Calls]
    /\ NoCall \in Calls
    /\ registry \subseteq Entities =>
          \A request \in DOMAIN Wants : OpenCall(request) \in Calls
<1>1. McpTypeOK => call \in [Callers -> Calls]
  BY DEF McpTypeOK, Calls, Stages
<1>2. NoCall \in Calls
  BY DEF NoCall, Unanswered, Calls, Stages
<1>3. ASSUME registry \subseteq Entities, NEW request \in DOMAIN Wants
      PROVE  OpenCall(request) \in Calls
  BY <1>3, WantsAreKinds DEF OpenCall, Unanswered, Calls, Stages
<1>4. QED
  BY <1>1, <1>2, <1>3

(***************************************************************************)
(* The gateway.                                                            *)
(***************************************************************************)

LEMMA BatchStep ==
    ASSUME McpInv, ApplyBatch
    PROVE  McpInv'
<1>1. registry' \subseteq Entities
  BY BatchesAssumption DEF ApplyBatch, Merge, McpInv, McpTypeOK
<1>2. ASSUME NEW c \in Callers, call[c].stage # "asking"
      PROVE  call'[c] \in Calls /\ CallOK(c)'
  <2>1. call'[c] = call[c]
    BY <1>2 DEF ApplyBatch
  <2>2. QED
    BY <1>2, <2>1, CallTypes DEF McpInv, CallOK
<1>3. ASSUME NEW c \in Callers, call[c].stage = "asking"
      PROVE  call'[c] \in Calls /\ CallOK(c)'
  <2>1. call[c] \in Calls
    BY CallTypes DEF McpInv
  <2>2. call'[c] = [call[c] EXCEPT !.seen = call[c].seen \cup {registry'}]
    BY <1>3 DEF ApplyBatch
  <2>3. /\ call'[c] \in Calls /\ call'[c].stage = "asking"
        /\ call'[c].wants = call[c].wants /\ call'[c].answer = call[c].answer
        /\ call'[c].seen = call[c].seen \cup {registry'}
    BY <1>1, <1>3, <2>1, <2>2 DEF Calls
  <2>4. ASSUME NEW k \in call'[c].wants, IsList(call'[c].answer[k])
        PROVE  \E s \in call'[c].seen : call'[c].answer[k] = OfKind(s, k)
    BY <1>3, <2>3, <2>4 DEF McpInv, CallOK
  <2>5. QED
    BY <2>3, <2>4 DEF CallOK
<1>4. call' \in [Callers -> Calls]
  BY <1>2, <1>3 DEF ApplyBatch
<1>5. McpTypeOK'
  BY <1>1, <1>4 DEF McpInv, McpTypeOK, ApplyBatch, Calls, Stages
<1>6. QED
  BY <1>2, <1>3, <1>5 DEF McpInv

\* What CallOK says of a call, for a record that need not be one of the calls yet.
RecordOK(new) ==
    /\ new.stage = "asking" => registry \in new.seen
    /\ \A k \in new.wants :
          /\ new.stage \in {"asking", "reported"} /\ IsList(new.answer[k]) =>
                \E s \in new.seen : new.answer[k] = OfKind(s, k)
          /\ new.stage = "reported" => IsList(new.answer[k])

\* A step that changes one call and not the registry.
LEMMA OneCall ==
    ASSUME McpInv, NEW c \in Callers, NEW new \in Calls, RecordOK(new),
           call' = [call EXCEPT ![c] = new],
           UNCHANGED <<registry, session, input>>
    PROVE  McpInv'
<1>1. /\ call \in [Callers -> Calls] /\ call' \in [Callers -> Calls]
      /\ \A d \in Callers : call'[d] = IF d = c THEN new ELSE call[d]
  BY CallTypes DEF McpInv
<1>2. McpTypeOK'
  BY <1>1 DEF McpInv, McpTypeOK, Calls, Stages
<1>3. CallOK(c)'
  BY <1>1 DEF CallOK, RecordOK
<1>4. ASSUME NEW d \in Callers, d # c
      PROVE  CallOK(d)'
  BY <1>1, <1>4 DEF McpInv, CallOK
<1>5. QED
  BY <1>2, <1>3, <1>4 DEF McpInv

\* A request is answered with the list of the moment, or fails.
LEMMA AnswerStep ==
    ASSUME McpInv, NEW c \in Callers, NEW kind \in Kinds,
           AnswerList(c, kind) \/ RequestFails(c, kind)
    PROVE  McpInv'
<1>1. PICK answer \in {OfKind(registry, kind), Failed} :
          call' = [call EXCEPT ![c].answer[kind] = answer]
  BY DEF AnswerList, RequestFails
<1> DEFINE new == [call[c] EXCEPT !.answer[kind] = answer]
<1>2. /\ call[c] \in Calls /\ call[c].stage = "asking" /\ CallOK(c)
      /\ answer \in {Failed} \cup SUBSET Entities
  BY <1>1, CallTypes DEF McpInv, McpTypeOK, AnswerList, RequestFails, Asks, OfKind
<1>3. /\ new \in Calls /\ new.stage = "asking" /\ new.wants = call[c].wants
      /\ new.seen = call[c].seen
      /\ \A k \in Kinds : new.answer[k] = IF k = kind THEN answer ELSE call[c].answer[k]
  BY <1>2 DEF Calls
<1> HIDE DEF new
<1>4. ASSUME NEW k \in new.wants, IsList(new.answer[k])
      PROVE  \E s \in new.seen : new.answer[k] = OfKind(s, k)
  <2>1. k \in Kinds
    BY <1>2, <1>3 DEF Calls
  <2>2. CASE k = kind
    BY <1>1, <1>2, <1>3, <1>4, <2>1, <2>2 DEF IsList, CallOK
  <2>3. CASE k # kind
    BY <1>2, <1>3, <1>4, <2>1, <2>3 DEF CallOK
  <2>4. QED
    BY <2>2, <2>3
<1>5. RecordOK(new)
  BY <1>2, <1>3, <1>4 DEF RecordOK, CallOK
<1>6. call' = [call EXCEPT ![c] = new] /\ UNCHANGED <<registry, session, input>>
  BY <1>1 DEF AnswerList, RequestFails, new
<1>7. QED
  BY <1>3, <1>5, <1>6, OneCall

(***************************************************************************)
(* The calls and the program.                                              *)
(***************************************************************************)

\* A call that failed holds nothing.
LEMMA FailedCall ==
    ASSUME McpInv, NEW c \in Callers,
           call' = [call EXCEPT ![c] = [NoCall EXCEPT !.stage = "failed"]],
           UNCHANGED <<registry, session, input>>
    PROVE  McpInv'
<1> DEFINE new == [NoCall EXCEPT !.stage = "failed"]
<1>1. new \in Calls /\ RecordOK(new)
  BY CallTypes DEF Calls, Stages, NoCall, RecordOK
<1> HIDE DEF new
<1>2. QED
  BY <1>1, OneCall DEF new

LEMMA AskStep ==
    ASSUME McpInv, NEW c \in Callers, NEW request \in DOMAIN Wants, Ask(c, request)
    PROVE  McpInv'
<1>1. UNCHANGED <<registry, session, input>> /\ registry \subseteq Entities
  BY DEF Ask, McpInv, McpTypeOK
<1>2. CASE request = "unknown"
  BY <1>1, <1>2, FailedCall DEF Ask
<1>3. CASE request # "unknown"
  <2>1. OpenCall(request) \in Calls
    BY <1>1, CallTypes
  <2>2. call' = [call EXCEPT ![c] = OpenCall(request)]
    BY <1>3 DEF Ask
  <2>3. RecordOK(OpenCall(request))
    BY WantsAreKinds DEF RecordOK, OpenCall, Unanswered, IsList
  <2>4. QED
    BY <1>1, <2>1, <2>2, <2>3, OneCall
<1>4. QED
  BY <1>2, <1>3

LEMMA CallEnds ==
    ASSUME McpInv, NEW c \in Callers, CallEnd(c)
    PROVE  McpInv'
<1>1. CASE FailCall(c)
  BY <1>1, FailedCall DEF FailCall
<1>2. CASE Join(c)
  <2> DEFINE new == [call[c] EXCEPT !.stage = "reported"]
  <2>1. call[c] \in Calls /\ CallOK(c) /\ call[c].stage = "asking"
    BY <1>2, CallTypes DEF McpInv, Join
  <2>2. /\ new \in Calls /\ new.stage = "reported" /\ new.wants = call[c].wants
        /\ new.answer = call[c].answer /\ new.seen = call[c].seen
    BY <2>1 DEF Calls, Stages
  <2>3. call' = [call EXCEPT ![c] = new] /\ UNCHANGED <<registry, session, input>>
    BY <1>2 DEF Join
  <2>4. \A k \in call[c].wants : IsList(call[c].answer[k])
    BY <1>2, <2>1 DEF Join, Asks, SomeFailed, Calls, IsList
  <2> HIDE DEF new
  <2>5. RecordOK(new)
    BY <2>1, <2>2, <2>4 DEF RecordOK, CallOK
  <2>6. QED
    BY <2>2, <2>3, <2>5, OneCall
<1>3. QED
  BY <1>1, <1>2 DEF CallEnd

LEMMA ProgramStep ==
    ASSUME McpInv,
           \/ ConnectFails \/ Initialize \/ CloseInput \/ ServiceStops \/ Signal
           \/ Exit \/ WriteAndExit \/ UNCHANGED mcpVars
    PROVE  McpInv'
<1>1. CASE call' = [c \in Callers |-> NoCall] /\ UNCHANGED <<registry, input>>
           /\ session' \in {"stopping", "exited"}
  <2>1. \A c \in Callers : call'[c] \in Calls /\ call'[c].wants = {} /\ call'[c].stage = "idle"
    BY <1>1, CallTypes DEF NoCall
  <2>2. call' \in [Callers -> Calls]
    BY <1>1, <2>1
  <2>3. QED
    BY <1>1, <2>1, <2>2 DEF McpInv, McpTypeOK, CallOK, Calls, Stages
<1>2. CASE /\ UNCHANGED <<registry, call>>
           /\ session' \in {"connecting", "serving", "stopping", "exited"}
           /\ input' \in {"open", "closed"}
  BY <1>2 DEF McpInv, McpTypeOK, CallOK
<1>3. QED
  BY <1>1, <1>2 DEF ConnectFails, Initialize, CloseInput, ServiceStops, Signal, Exit,
                    WriteAndExit, mcpVars, McpInv, McpTypeOK

LEMMA McpStep == McpInv /\ [McpNext]_mcpVars => McpInv'
<1> SUFFICES ASSUME McpInv, [McpNext]_mcpVars PROVE McpInv'
  OBVIOUS
<1>1. QED
  BY BatchStep, AnswerStep, AskStep, CallEnds, ProgramStep DEF McpNext

\* Each list of a report is what the registry held of that kind at a moment of the
\* call, whatever batches were applied between the answers.
THEOREM SectionsCorrect == McpSpec => [](McpTypeOK /\ EachSectionWasReal)
<1>1. McpInit => McpInv
  <2> SUFFICES ASSUME McpInit PROVE McpInv
    OBVIOUS
  <2>1. /\ call \in [Callers -> Calls]
        /\ \A c \in Callers : call[c].wants = {} /\ call[c].stage = "idle"
    BY CallTypes DEF McpInit, NoCall
  <2>2. QED
    BY <2>1 DEF McpInit, McpInv, McpTypeOK, CallOK, Calls, Stages
<1>2. McpInv => McpTypeOK /\ EachSectionWasReal
  <2> SUFFICES ASSUME McpInv, NEW c \in Callers, call[c].stage = "reported",
                      NEW k \in call[c].wants
               PROVE  \E s \in call[c].seen : call[c].answer[k] = OfKind(s, k)
    BY DEF McpInv, EachSectionWasReal
  <2>1. QED
    BY DEF McpInv, CallOK
<1>3. QED
  BY <1>1, <1>2, McpStep, PTL DEF McpSpec

=============================================================================
