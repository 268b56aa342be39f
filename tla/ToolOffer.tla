------------------------------ MODULE ToolOffer ------------------------------
(***************************************************************************)
(* What a model step is offered of the owner's tools, over a whole thread: *)
(* the route of msty_tool_routing.select_tools and the route it continues, *)
(* the tools the model connects for itself (native_request_tools), the     *)
(* catalogue the gateway may replace when it answers an external batch     *)
(* (msty_execution._post_batch_catalog), and the tool node that hands the  *)
(* client's results over.                                                  *)
(*                                                                         *)
(* The owner's words are what the router's patterns see in them: a verb,   *)
(* domains, names of tools. The pattern tables are constants.              *)
(***************************************************************************)
EXTENDS Integers, FiniteSets

CONSTANTS Tools,         \* the tools clients supply, by name
          Role,          \* what the registry files a tool under; "known_only" and
                         \* "known_write" are given for their exact name only
          Domain,        \* the business domain of a read, write or executor tool
          Order,         \* _truncation_rank of a tool that is not named: tier, then name
          Alphabet,      \* the place of its name
          Twins,         \* tools X for which the server has a native_X
          Passthrough,   \* the tool whose name ends in execute_tool
          OwnerTexts, Catalogs,
          ToolChoices,   \* tool_choice: "auto", "none", "required" or a tool's name
          MaxSelected,   \* MAX_SELECTED_TOOLS
          MaxRequested,  \* MAX_REQUESTED
          OfferBatch, OfferTurns, OfferSteps   \* bounds of the model

Domains == {"files", "supabase", "pressable", "brain"}
Bounded == {"pressable", "supabase", "brain"}

\* What the router reads out of an owner's message. `brings` are the tools a job id, an
\* installation or a question about the system names, `raises` the intent it stands for;
\* `near` are the tools whose description shares words or meaning with the message.
OwnerText == [verb : {"mutate", "read", "explain", "none"}, short : BOOLEAN,
              wide : BOOLEAN, question : BOOLEAN, domains : SUBSET Domains,
              names : SUBSET Tools, brings : SUBSET Tools, near : SUBSET Tools,
              raises : {"none", "read", "mutate"}]

ASSUME ToolOfferAssumption ==
    /\ IsFiniteSet(Tools) /\ Order \in [Tools -> Nat] /\ Alphabet \in [Tools -> Nat]
    /\ OwnerTexts \subseteq OwnerText /\ Catalogs \subseteq SUBSET Tools
    /\ Passthrough \in Tools /\ Twins \subseteq Tools
    /\ MaxSelected \in Nat \ {0} /\ MaxRequested \in Nat \ {0}
    /\ \A a, b \in Tools : Order[a] = Order[b] \/ Alphabet[a] = Alphabet[b] => a = b

VARIABLES desk,      \* the thread belongs to the owner's window
          supplied,  \* state['tools']
          choice,    \* tool_choice
          text,      \* latest_user_text
          route,     \* native_tool_route
          called,    \* names of the thread's calls, the native_ prefix taken off
          asked,     \* names in the native_request_tools calls of this turn
          passed,    \* tool_name of this turn's calls of the passthrough
          pending,   \* external calls that wait for the client, then for the tool node
          stage,     \* "idle", "model", "client", "connect" and "tools" (the tool node)
          rounds,    \* owner turns and model steps made
          promised,  \* history: tools announced for the next step
          opened,    \* history: tools of writing the work in hand has been given by name or intent
          dropped    \* history: calls the client made in this turn whose result nobody handed over

offerVars == <<desk, supplied, choice, text, route, called, asked, passed, pending, stage,
               rounds, promised, opened, dropped>>

With(role) == {t \in Tools : Role[t] = role}
NoRoute == [source |-> "none", intent |-> "direct", domains |-> {}, names |-> {}]

OfferInit ==
    /\ desk \in BOOLEAN /\ supplied \in Catalogs /\ text \in OwnerTexts
    /\ choice \in ToolChoices
    /\ route = NoRoute
    /\ called = {} /\ asked = {} /\ passed = {} /\ pending = {}
    /\ stage = "model" /\ rounds = [turns |-> 1, steps |-> 0]
    /\ promised = {} /\ opened = {} /\ dropped = {}

-----------------------------------------------------------------------------
(* The route of one step *)

Continuation == text.short /\ text.domains = {}
Continued == Continuation /\ route # NoRoute

\* _intent, and what a recovered continuation, an installation or a job id make of it.
Spoken ==
    CASE Continuation -> "read"
      [] text.verb = "explain" -> "direct"
      [] text.verb = "none" -> IF text.domains = {} THEN "direct" ELSE "read"
      [] OTHER -> text.verb
Intent ==
    IF text.raises = "mutate" \/ (text.raises = "read" /\ Spoken = "direct")
    THEN text.raises ELSE Spoken

ByDomain ==
    {t \in Tools : /\ Domain[t] \in text.domains
                   /\ Role[t] \in {"read", "executor"} \cup
                                  (IF Intent = "mutate" THEN {"write"} ELSE {})}

\* Connectors the registry does not know are matched by words alone.
Connectors == text.near \cap With("connector")

UsesCodex == Intent = "mutate" /\ text.wide /\ text.domains \cap Bounded = {}

\* What the window adds to the tools of a working turn.
WindowTools == IF desk THEN With("service") ELSE {}

\* The tools a fresh message gives by its words. Codex takes broad work over: beside it
\* only the tools that are named stay.
Fresh ==
    IF UsesCodex THEN text.names \cup With("codex") \cup WindowTools \cup Connectors
    ELSE text.names \cup text.brings
         \cup (IF Continuation THEN With("core") ELSE {})
         \cup (IF Intent = "direct" THEN {}
               ELSE With("org") \cup WindowTools \cup ByDomain \cup Connectors
                    \cup (IF text.domains = {} THEN With("core") ELSE {}))

\* What the semantic layer may add: reads, no tool that is installed for its exact name
\* only, and no more than there is room for; nothing when it is off or warming up.
SemanticHits ==
    IF Continued \/ Intent = "direct" \/ UsesCodex THEN {{}}
    ELSE {hits \in SUBSET ((text.near \cap supplied \cap (With("read") \cup With("core"))) \ Fresh) :
             hits = {} \/ Cardinality(hits) <= MaxSelected - Cardinality(Fresh \cap supplied)}

Historical == called \cap supplied
Required == {choice} \cap supplied

\* sorted(requested)[:MAX_SELECTED_TOOLS]
FirstByName(set) ==
    {t \in set : Cardinality({u \in set : Alphabet[u] < Alphabet[t]}) < MaxSelected}

\* Mutant of Requested: the passthrough connects tools of any kind.
RequestedAny == FirstByName((asked \cup passed) \cap supplied)

\* requested_names: a tool that writes only if the model asked for it with
\* native_request_tools.
Requested ==
    {t \in FirstByName((asked \cup passed) \cap supplied) :
        Role[t] \in {"read", "core", "known_only"} \/ t \in asked}

AlwaysThere == IF desk THEN With("harness") ELSE {}

Chosen(hits) ==
    LET routed == (IF Continued THEN route.names \cup WindowTools ELSE Fresh \cup hits)
                  \cup AlwaysThere
    IN IF choice = "none" THEN Historical
       ELSE supplied \cap
            (routed \cup Historical \cup Required \cup Requested
             \cup (IF choice = "required" /\ routed = {} THEN With("core") ELSE {}))

\* Mutant of Protected: what the model connected itself is cut like the rest.
ProtectedButRequested(chosen) ==
    Historical \cup Required \cup (chosen \cap (With("org") \cup AlwaysThere \cup WindowTools))

Protected(chosen) ==
    Historical \cup Required \cup Requested
    \cup (chosen \cap (With("org") \cup AlwaysThere \cup WindowTools))

\* What goes first under the limit: hits of the semantic layer last, named tools first.
Before(t, u, hits) ==
    LET place(x) == <<IF x \in hits THEN 1 ELSE 0, IF x \in text.names THEN 0 ELSE 1, Order[x]>>
    IN \E i \in 1..3 : place(t)[i] < place(u)[i] /\ \A j \in 1..(i - 1) : place(t)[j] = place(u)[j]

\* select_tools: the protected ones are kept whatever their number.
SelectTools(hits) ==
    LET chosen == Chosen(hits)
        kept == Protected(chosen) \cap chosen
        rest == {t \in chosen \ kept :
                    Cardinality({u \in chosen \ kept : Before(u, t, hits)})
                        < MaxSelected - Cardinality(kept)}
    IN IF Cardinality(chosen) <= MaxSelected THEN chosen ELSE kept \cup rest

Route(hits) ==
    [source |-> IF Continued THEN "continued" ELSE IF Continuation THEN "recovered" ELSE "classified",
     intent |-> IF Continued THEN route.intent ELSE Intent,
     domains |-> IF Continued THEN route.domains ELSE text.domains,
     names |-> SelectTools(hits)]

\* The step has the tool that connects tools: there is something to connect and the
\* message is not small talk.
MayAsk(r) ==
    /\ choice # "none"
    /\ supplied # r.names
    /\ r.intent # "direct" \/ Requested # {} \/ (text.verb # "explain" /\ text.question)

-----------------------------------------------------------------------------
(* The steps of the thread *)

\* What this message, or the model by name, opens of the tools that write.
Opens == text.names \cup text.brings \cup asked \cup {choice}
         \cup (IF Continued THEN opened
               ELSE {t \in Tools : Intent = "mutate" /\ Domain[t] \in text.domains})

\* One model step, up to what it asks for. Without tools it can only answer.
Offered(next) ==
    /\ stage = "model" /\ rounds.steps < OfferSteps
    /\ \E hits \in SemanticHits : route' = Route(hits)
    /\ opened' = Opens
    /\ promised' = {}
    /\ rounds' = [rounds EXCEPT !.steps = @ + 1]
    /\ stage' = next
    /\ UNCHANGED <<desk, supplied, choice, text, dropped>>

StepAnswers == Offered("idle") /\ UNCHANGED <<called, asked, passed, pending>>

\* The step raises: the run ends on the checkpoint before it.
StepRaises ==
    /\ stage = "model" /\ stage' = "idle"
    /\ UNCHANGED <<desk, supplied, choice, text, route, called, asked, passed, pending, rounds,
                   promised, opened, dropped>>

\* native_request_tools: any names, known or not.
AsksForTools ==
    /\ Offered("connect")
    /\ MayAsk(route')
    /\ \E names \in SUBSET Tools :
          /\ Cardinality(names) \in 1..MaxRequested
          /\ asked' = asked \cup names /\ pending' = names
    /\ UNCHANGED <<called, passed>>

\* A call of the server's own file tool, whatever becomes of it.
CallsTwin ==
    /\ choice # "none" /\ Offered("model")
    /\ \E t \in Twins : called' = called \cup {t}
    /\ UNCHANGED <<asked, passed, pending>>

\* External calls: a batch of them, and the target of the passthrough. A call of a tool
\* that is not on offer blocks the result (valid_tool_calls) and is not published.
CallsExternal ==
    /\ choice # "none" /\ Offered("client")
    /\ \E used \in SUBSET route'.names, target \in Tools :
          /\ Cardinality(used) \in 1..OfferBatch
          /\ pending' = used /\ called' = called \cup used
          /\ passed' = passed \cup (IF Passthrough \in used THEN {target} ELSE {})
    /\ UNCHANGED asked

\* The tool node on native_request_tools.
Connect ==
    /\ stage = "connect"
    /\ promised' = pending \cap supplied
    /\ pending' = {} /\ stage' = "model"
    /\ UNCHANGED <<desk, supplied, choice, text, route, called, asked, passed, rounds,
                   opened, dropped>>

\* validate_resume: the results of the whole batch, and maybe a new catalogue, bound to
\* the batch and to the old catalogue by their digests.
ClientAnswers ==
    /\ stage = "client"
    /\ supplied' \in Catalogs \cup {supplied}
    /\ choice' \in ToolChoices
    /\ stage' = "tools"
    /\ UNCHANGED <<desk, text, route, called, asked, passed, pending, rounds, promised,
                   opened, dropped>>

\* The tool node on the results the client sent. It admits the names of the catalogue it
\* finds in the state; another name is corrected by the guard, or raises when the
\* registry knows it and its arguments fit.
HandOver ==
    /\ stage = "tools"
    /\ \/ dropped' = dropped \cup (pending \ supplied) /\ stage' = "model"
       \/ /\ \E t \in pending \ supplied : Role[t] # "connector"
          /\ dropped' = dropped \cup pending /\ stage' = "idle"
    /\ pending' = {}
    /\ UNCHANGED <<desk, supplied, choice, text, route, called, asked, passed, rounds,
                   promised, opened>>

\* The owner writes, after an answer or past a batch that waits; the client sends its
\* tools along.
OwnerWritesText ==
    /\ stage \in {"idle", "client", "connect"} /\ rounds.turns < OfferTurns
    /\ text' \in OwnerTexts /\ supplied' \in Catalogs /\ choice' \in ToolChoices
    /\ asked' = {} /\ passed' = {} /\ pending' = {} /\ stage' = "model"
    /\ rounds' = [rounds EXCEPT !.turns = @ + 1]
    /\ promised' = {} /\ dropped' = {}
    /\ UNCHANGED <<desk, route, called, opened>>

OfferNext == \/ StepAnswers \/ StepRaises \/ AsksForTools \/ CallsTwin \/ CallsExternal
             \/ Connect \/ ClientAnswers \/ HandOver \/ OwnerWritesText

OfferSpec == OfferInit /\ [][OfferNext]_offerVars

-----------------------------------------------------------------------------
(* Properties *)

OfferTypeOK ==
    /\ desk \in BOOLEAN /\ supplied \subseteq Tools /\ text \in OwnerTexts
    /\ called \subseteq Tools /\ asked \subseteq Tools /\ passed \subseteq Tools
    /\ pending \subseteq Tools /\ route.names \subseteq Tools
    /\ stage \in {"idle", "model", "client", "connect", "tools"}

\* A tool that writes is on offer only if somebody opened it: the owner by its name or by
\* asking for a change in its domain, in this message or in the one it continues, the
\* model by connecting it under its exact name, or a call of it that is in the thread.
WritesAreOpened ==
    stage # "model" =>
        route.names \cap (With("write") \cup With("known_write")) \subseteq opened \cup called

\* What the tool node announced for the next step is on offer there, in the same run and
\* past the limit on the offer, as long as the model has not connected more than that
\* limit; and no tool of an earlier call is cut.
PromiseKept ==
    [][stage = "model" /\ rounds' # rounds =>
         /\ called \cap supplied \subseteq route'.names
         /\ Cardinality(asked \cup passed) <= MaxSelected => promised \subseteq route'.names]_offerVars

\* The comment in awrap_tool_call: an external call that is already executed is not
\* checked again, its result reaches the model.
ResultsDelivered == dropped = {}
=============================================================================
