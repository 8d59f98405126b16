---------------------------- MODULE ModelCatalog ----------------------------
(***************************************************************************)
(* The runtimes that use an API key, and the models they offer: how a      *)
(* credential is checked when the runtime is made, how each plugin turns   *)
(* its service's listing into the list Paloma shows, and what an effort    *)
(* chosen from that list becomes in a Bedrock request.                     *)
(*                                                                         *)
(* A listing is a sequence of the service's entries; an entry's slug is    *)
(* its name.  Efforts are named, and Anthropic's come in EffortOrder.      *)
(* What is filtered, sorted or looked up entry by entry is a recursive     *)
(* function over the positions.                                            *)
(***************************************************************************)
EXTENDS Integers, Sequences, SequencesExt, FiniteSetsExt

CONSTANTS
    Slugs,        \* names of models: numbers, for their order
    MaxListing    \* bound: entries of a listing

VARIABLES
    runtime,    \* [family, status, key, error], or family "off"
    listing,    \* the service's listing
    profiles,   \* Bedrock's inference profiles, in the order of the pages
    models      \* what ProviderCache holds for the backend: <<>> or <<list>>

catalogVars == <<runtime, listing, profiles, models>>

Efforts == {"low", "medium", "high"}
EffortOrder == <<"low", "medium", "high">>

Model(id, default, efforts) == [id |-> id, default |-> default, efforts |-> efforts]

(* filter: what is left of a sequence when only some entries are kept.     *)
Only(entries, kept) ==
    LET upTo[i \in 0..Len(entries)] ==
            IF i = 0 THEN <<>>
            ELSE IF entries[i] \in kept THEN Append(upTo[i - 1], entries[i]) ELSE upTo[i - 1]
    IN  upTo[Len(entries)]

-----------------------------------------------------------------------------
(* OpenAI: models_from_response.                                           *)

ResponsesEntry ==
    [slug : Slugs, supported : BOOLEAN, visibility : {"list", "hide"}, image : BOOLEAN,
     priority : 1..2, efforts : {<<>>, <<"low">>, <<"high", "low">>},
     default : {<<>>, <<"low">>, <<"medium">>}]

Before(a, b) == \/ a.priority > b.priority
                \/ a.priority = b.priority /\ a.slug < b.slug

\* Fault: the default of the listing is taken as it is.
DefaultEffortAsListed(m) ==
    IF m.default # <<>> THEN m.default ELSE SubSeq(m.efforts, 1, IF m.efforts = <<>> THEN 0 ELSE 1)

DefaultEffort(m) ==
    IF m.default # <<>> /\ Contains(m.efforts, m.default[1]) THEN m.default
    ELSE IF m.efforts = <<>> THEN <<>> ELSE <<m.efforts[1]>>

(* sort_by: each entry goes in front of those that it is before.           *)
Placed(sorted, m) ==
    LET after == {i \in DOMAIN sorted : Before(m, sorted[i])}
    IN  IF after = {} THEN Append(sorted, m) ELSE InsertAt(sorted, Min(after), m)

Ordered(entries) ==
    LET upTo[i \in 0..Len(entries)] == IF i = 0 THEN <<>> ELSE Placed(upTo[i - 1], entries[i])
    IN  upTo[Len(entries)]

(* Models without an effort are left out.                                  *)
ModelsFromResponse(response) ==
    LET kept == Only(response, {m \in ResponsesEntry : m.supported /\ m.visibility = "list" /\ m.image})
        sorted == Only(Ordered(kept), {m \in ResponsesEntry : DefaultEffort(m) # <<>>})
    IN  [i \in DOMAIN sorted |-> Model(sorted[i].slug, DefaultEffort(sorted[i])[1], Range(sorted[i].efforts))]

-----------------------------------------------------------------------------
(* Anthropic: parse_model_response.                                        *)

MessagesEntry ==
    [slug : Slugs, effort : BOOLEAN, image : BOOLEAN, adaptive : BOOLEAN, efforts : SUBSET Efforts]

ParseModelResponse(data) ==
    LET kept == Only(data, {m \in MessagesEntry : m.effort /\ m.image /\ m.adaptive /\ m.efforts # {}})
        InOrder(m) == Only(EffortOrder, m.efforts)
    IN  [i \in DOMAIN kept |->
          Model(kept[i].slug, InOrder(kept[i])[IF Len(InOrder(kept[i])) > 1 THEN 2 ELSE 1], kept[i].efforts)]

-----------------------------------------------------------------------------
(* Bedrock: models, inference_profiles, fetch_models, to_model.  `class`   *)
(* is the table of models.rs an entry's id is found in.  A profile serves  *)
(* models; only those offered by profile are asked for.                    *)

ConverseEntry ==
    [slug : Slugs, active : BOOLEAN, types : {{}, {"profile"}, {"demand", "profile"}}, streaming : BOOLEAN,
     image : {TRUE}, unsupported : BOOLEAN, class : {"adaptive", "thinking", "plain"}]

Profile == [global : BOOLEAN, serves : SUBSET Slugs]

EffortsFor(class) == IF class = "adaptive" THEN Efforts ELSE {"default"}

ToModel(m, profile) ==
    [slug |-> m.slug, class |-> m.class, profile |-> profile,
     default |-> IF m.class = "adaptive" THEN "high" ELSE "default", efforts |-> EffortsFor(m.class)]

Usable(summaries) ==
    Only(summaries, {m \in ConverseEntry : /\ m.active /\ m.types # {} /\ m.streaming /\ m.image /\ ~m.unsupported})

\* Fault: the profile listed last is taken.
InferenceProfileLast(slug) ==
    SelectLastInSeq(profiles, LAMBDA p : slug \in p.serves)

(* The profile of a model: the first that serves it, or if that is global  *)
(* the next, and so on: a regional one stays.  0: there is none.           *)
InferenceProfile(slug) ==
    LET best[i \in 0..Len(profiles)] ==
            IF i = 0 THEN 0
            ELSE IF slug \notin profiles[i].serves THEN best[i - 1]
            ELSE IF best[i - 1] = 0 \/ profiles[best[i - 1]].global THEN i ELSE best[i - 1]
    IN  best[Len(profiles)]

FetchConverseModels(summaries) ==
    LET usable == Usable(summaries)
        onDemand == Only(usable, {m \in ConverseEntry : "demand" \in m.types})
        inference == Only(usable, {m \in ConverseEntry : "demand" \notin m.types /\ InferenceProfile(m.slug) # 0})
    IN  [i \in DOMAIN onDemand |-> ToModel(onDemand[i], 0)]
        \o [i \in DOMAIN inference |-> ToModel(inference[i], InferenceProfile(inference[i].slug))]

(* construct_reasoning_config: what the request says of thinking.          *)
ReasoningConfig(class, effort) ==
    CASE effort = "" -> <<>>
      [] effort = "default" -> IF class = "thinking" THEN <<"enabled">> ELSE <<>>
      [] OTHER -> <<"adaptive", effort>>

-----------------------------------------------------------------------------
(* OpenAIRuntime::new, AnthropicRuntime::new, BedrockRuntime::new.  The    *)
(* credential is a key, blank, or of the wrong kind; the service accepts   *)
(* the key or not, and sends its listing or fails.                         *)

RunningRuntime(family, key) == [family |-> family, status |-> "Running", key |-> key]
Unhealthy(family) == [family |-> family, status |-> "Unhealthy", key |-> "blank"]

OpenAINew(credential, accepted, listed) ==
    IF credential = "key" /\ accepted /\ listed
    THEN runtime' = RunningRuntime("OpenAI", credential) /\ models' = <<ModelsFromResponse(listing)>>
    ELSE runtime' = Unhealthy("OpenAI") /\ UNCHANGED models

AnthropicNew(credential, accepted) ==
    IF credential = "key" /\ accepted
    THEN runtime' = RunningRuntime("Anthropic", credential) /\ models' = <<ParseModelResponse(listing)>>
    ELSE runtime' = Unhealthy("Anthropic") /\ UNCHANGED models

(* A blank credential means the machine's own AWS credentials.             *)
BedrockNew(credential, accepted) ==
    IF credential \in {"key", "blank"} /\ accepted
    THEN runtime' = RunningRuntime("Bedrock", credential) /\ models' = <<FetchConverseModels(listing)>>
    ELSE runtime' = Unhealthy("Bedrock") /\ UNCHANGED models

CatalogRest(where) ==
    /\ runtime = [family |-> where, status |-> "new", key |-> "blank"]
    /\ listing = <<>> /\ profiles = <<>> /\ models = <<>>

CatalogInit == \E family \in {"OpenAI", "Anthropic", "Bedrock"} : CatalogRest(family)

(* The service's listing: external.                                        *)
ListEntry ==
    /\ runtime.status = "new" /\ Len(listing) < IF runtime.family = "Bedrock" THEN 1 ELSE MaxListing
    /\ \E m \in CASE runtime.family = "OpenAI" -> ResponsesEntry
                  [] runtime.family = "Anthropic" -> MessagesEntry
                  [] runtime.family = "Bedrock" -> ConverseEntry :
         /\ \A i \in DOMAIN listing : listing[i].slug < m.slug
         /\ listing' = Append(listing, m)
    /\ UNCHANGED <<runtime, profiles, models>>

ListProfile ==
    /\ runtime.status = "new" /\ runtime.family = "Bedrock" /\ Len(profiles) < 3 /\ listing # <<>>
    /\ \E p \in Profile : profiles' = Append(profiles, p)
    /\ UNCHANGED <<runtime, listing, models>>

Connect ==
    /\ runtime.status = "new" /\ UNCHANGED <<listing, profiles>>
    /\ \E credential \in {"key", "blank", "refresh_token"}, accepted \in BOOLEAN, listed \in BOOLEAN :
         \/ runtime.family = "OpenAI" /\ OpenAINew(credential, accepted, listed)
         \/ runtime.family = "Anthropic" /\ AnthropicNew(credential, accepted)
         \/ runtime.family = "Bedrock" /\ BedrockNew(credential, accepted)

CatalogNext == ListEntry \/ ListProfile \/ Connect
CatalogSpec == CatalogInit /\ [][CatalogNext]_catalogVars
-----------------------------------------------------------------------------
(* A runtime that runs has a list, and every model on it can be used: its  *)
(* default effort is one of its efforts ("default_effort_is_always_one_of_ *)
(* the_supported_efforts", shared.rs), each of its efforts asks a Bedrock  *)
(* model for the thinking it is able to, and a model that is only reached  *)
(* through a profile has one, a regional one if there is any.              *)
CatalogueIsUsable ==
    runtime.status = "Running" =>
        /\ models # <<>>
        /\ \A i \in DOMAIN models[1] :
             LET m == models[1][i] IN
             /\ m.default \in m.efforts
             /\ runtime.family = "Bedrock" =>
                  /\ \A e \in m.efforts :
                       LET config == ReasoningConfig(m.class, e)
                       IN  /\ m.class = "adaptive" => config = <<"adaptive", e>>
                           /\ m.class = "thinking" => config = <<"enabled">>
                           /\ m.class = "plain" => config = <<>>
                  /\ m.profile # 0 =>
                       /\ m.slug \in profiles[m.profile].serves
                       /\ (\E p \in Range(profiles) : m.slug \in p.serves /\ ~p.global) =>
                              ~profiles[m.profile].global
=============================================================================
