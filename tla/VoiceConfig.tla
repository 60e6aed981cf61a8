---------------------------- MODULE VoiceConfig ----------------------------
(***************************************************************************)
(* How the server comes by its settings when it starts (config.rs,         *)
(* logging.rs, bin/voice_server.rs) and how its clients call the providers *)
(* with them (client/asr.rs, client/llm.rs, client/tts.rs).                *)
(*                                                                         *)
(* A section is a function from settings to values; what a file or the     *)
(* environment gives of it is such a function on fewer settings.  Values   *)
(* are texts ("" is the empty one), None where the code has an Option, and *)
(* Junk for a text that cannot be parsed.  An API key is a record, bearer  *)
(* says whether it is written with "Bearer "; a header has a name, a       *)
(* spelling of it and a value, both ones that HTTP allows.                 *)
(***************************************************************************)
EXTENDS Integers, FiniteSets, SequencesExt

CONSTANTS
    None, Junk,
    Givens,         \* what a start of the server may find: [cli, env, files]
    DefaultPath     \* the configuration file inside the crate

VARIABLES
    given,          \* cli, env and files of this start
    stage,          \* "loading", "building", "serving", "failed"
    conf,           \* the settings in effect, by section
    clients,        \* the four clients of providers
    store,          \* the memory of the agent
    request         \* the last call of a provider, None before

configVars == <<given, stage, conf, clients, store, request>>

(***************************************************************************)
(* Defaults, files, environment, command line.                             *)
(***************************************************************************)
\* What f says, and what g says beside it.
Over(f, g) == [x \in (DOMAIN f) \union (DOMAIN g) |-> IF x \in DOMAIN f THEN f[x] ELSE g[x]]

NoKey == [bearer |-> FALSE, token |-> ""]

Connection == [api_base |-> "", api_key |-> NoKey, timeout_ms |-> None, headers |-> {}]

AsrDefaults ==
    Over([model |-> "sensevoice", language |-> None, response_format |-> None,
          spk |-> None, tags |-> None], Connection)

LlmDefaults ==
    Over([model |-> "", max_completion_tokens |-> None, temperature |-> None,
          top_p |-> None, top_k |-> None, reasoning_effort |-> None,
          include_usage |-> "false"], Connection)

TtsDefaults ==
    Over([model |-> "", voice |-> "", response_format |-> "", stream |-> "false",
          sample_rate |-> None, channels |-> "1", speed |-> None,
          task_type |-> None, language |-> None, instructions |-> None,
          max_new_tokens |-> None, stream_format |-> None,
          transport |-> "http", max_connections |-> "4"], Connection)

Defaults ==
    [log      |-> [level |-> "info", file |-> ""],
     server   |-> [port |-> "8080", worker_num |-> "3"],
     provider |-> [Connection EXCEPT !.timeout_ms = "30000"],
     asr      |-> AsrDefaults,
     llm      |-> LlmDefaults,
     strong   |-> <<>>,
     tts      |-> TtsDefaults,
     redis    |-> [url |-> None, default_ttl_secs |-> "3600"],
     agent    |-> [memory_backend |-> "in_memory", memory_window |-> "20",
                   memory_ttl_secs |-> None]]

\* Here and in its configs, above and in its configs, at home.
candidate_paths == <<"here.yaml", "configs.yaml", "above.yaml", "home.yaml">>

\* A file named on the command line need not exist, one named by VOICE_CONFIG
\* that does not is passed over.
resolve_config_path(g) ==
    LET present == SelectSeq(<<DefaultPath>> \o candidate_paths, LAMBDA p : p \in DOMAIN g.files)
    IN  IF "config" \in DOMAIN g.cli THEN g.cli.config
        ELSE IF "config" \in DOMAIN g.env /\ g.env.config \in DOMAIN g.files THEN g.env.config
        ELSE IF present = <<>> THEN DefaultPath
        ELSE Head(present)

in_use(g) ==
    LET path == resolve_config_path(g)
    IN  IF path \in DOMAIN g.files THEN g.files[path] ELSE <<>>

\* load_yaml and the defaults of serde; a section of the model or of the
\* synthesiser must name its model, or its voice.
Loads(g) ==
    LET file == in_use(g)
    IN  /\ file # Junk
        /\ "llm" \in DOMAIN file => "model" \in DOMAIN file.llm
        /\ "strong" \in DOMAIN file => "model" \in DOMAIN file.strong
        /\ "tts" \in DOMAIN file => "voice" \in DOMAIN file.tts

load_yaml(g) ==
    LET file == in_use(g)
        from(s) == IF s = "strong" THEN LlmDefaults ELSE Defaults[s]
    IN  [s \in DOMAIN Defaults |-> IF s \in DOMAIN file THEN Over(file[s], from(s)) ELSE Defaults[s]]

\* The settings of a section that have a variable in the environment.
AsrVariables == {"api_key", "model", "language", "response_format", "spk", "tags"}
LlmVariables == DOMAIN LlmDefaults
TtsVariables == {"api_key", "model", "voice", "sample_rate"}
AgentVariables == {"memory_backend", "memory_window", "memory_ttl_secs"}

Variables ==
    [log |-> {"level", "file"}, server |-> {"port"}, provider |-> {"api_base", "api_key"},
     asr |-> AsrVariables, llm |-> LlmVariables, strong |-> LlmVariables, tts |-> TtsVariables,
     redis |-> {"url", "default_ttl_secs"}, agent |-> AgentVariables]

\* The variables of a section that are set, and those that can be read: the
\* ones that must be parsed are passed over when they cannot.
SetOf(env, s) == IF s \in DOMAIN env THEN Variables[s] \cap DOMAIN env[s] ELSE {}
ReadOf(env, s) == {k \in SetOf(env, s) : env[s][k] # Junk}

Told(env, s) == [k \in ReadOf(env, s) |-> env[s][k]]

\* What a start may find of the sections and, of these, the headers.  There
\* are finitely many, spelled alike only if named alike; a key is not None.
SectionsOf(g) ==
    {Told(g.env, s) : s \in DOMAIN Variables} \union
    UNION {Range(file) : file \in Range(g.files) \ {Junk}}

HeadersOf(g) == UNION {x.headers : x \in {y \in SectionsOf(g) : "headers" \in DOMAIN y}}

ASSUME HeadersAssumption ==
    \A g \in Givens :
        /\ IsFiniteSet(HeadersOf(g))
        /\ \A h, i \in HeadersOf(g) : h.spelling = i.spelling => h.name = i.name
        /\ \A x \in SectionsOf(g) : "api_key" \in DOMAIN x => x.api_key # None

Overridden(section, env, s) ==
    [k \in DOMAIN section |-> IF k \in ReadOf(env, s) THEN env[s][k] ELSE section[k]]

\* Fault: the strong model starts from the file's settings of the fast one.
StrongOfFile(c, env) ==
    IF c.strong = <<>> /\ SetOf(env, "strong") = {} THEN <<>>
    ELSE Overridden(IF c.strong = <<>> THEN c.llm ELSE c.strong, env, "strong")

\* has_llm_env: without a section of its own, the strong model has what the
\* fast one has behind the environment.
StrongSection(c, env) ==
    IF c.strong = <<>> /\ SetOf(env, "strong") = {} THEN <<>>
    ELSE Overridden(IF c.strong = <<>> THEN Overridden(c.llm, env, "llm") ELSE c.strong,
                    env, "strong")

apply_env_overrides(c, env) ==
    [s \in DOMAIN c |-> IF s = "strong" THEN StrongSection(c, env) ELSE Overridden(c[s], env, s)]

\* The command line has the last word.  (Where a relative log file is looked
\* for is left out.)
Effective(g) ==
    LET c == apply_env_overrides(load_yaml(g), g.env)
        Cli(s) == IF s \in DOMAIN g.cli THEN g.cli[s] ELSE <<>>
    IN  [c EXCEPT !.log = Over(Cli("log"), @), !.server = Over(Cli("server"), @)]

(***************************************************************************)
(* Clients.                                                                *)
(***************************************************************************)
\* ProviderConfig of a section: what it leaves empty is the provider's.
resolved(section, provider) ==
    LET own == {h.spelling : h \in section.headers}
    IN  [api_base   |-> IF section.api_base = "" THEN provider.api_base ELSE section.api_base,
         api_key    |-> IF section.api_key = NoKey THEN provider.api_key ELSE section.api_key,
         timeout_ms |-> IF section.timeout_ms = None THEN provider.timeout_ms
                        ELSE section.timeout_ms,
         headers    |-> section.headers
                        \union {h \in provider.headers : h.spelling \notin own}]

\* to_header_map: names are the same in any spelling, and a map of Rust is
\* read in any order: of two spellings either may be the one that stays.
HeaderMaps(headers) ==
    {kept \in SUBSET headers :
        \A h \in headers : Cardinality({k \in kept : k.name = h.name}) = 1}

transport_kind(tts) == IF tts.transport = "websocket" THEN "websocket" ELSE "http"

TTS_MODEL_FORMATS ==
    [m \in {"Qwen/Qwen3-TTS-12Hz-1.7B-CustomVoice"} |-> [sample_rate |-> "24000", channels |-> "1"]]

\* For a model of the table nothing else is asked.
model_format(tts) ==
    IF tts.model \in DOMAIN TTS_MODEL_FORMATS THEN TTS_MODEL_FORMATS[tts.model]
    ELSE [sample_rate |-> tts.sample_rate, channels |-> tts.channels]

\* No rate is listed for a format the table does not know: any goes.
supported_sample_rates(format) ==
    CASE format = "opus" -> {"48000"}
      [] format \in {"wav", "pcm"} -> {"8000", "16000", "24000", "32000", "44100"}
      [] format = "mp3" -> {"32000", "44100"}
      [] OTHER -> {}

RateFits(tts) ==
    \/ transport_kind(tts) = "websocket"
    \/ model_format(tts).sample_rate = None
    \/ supported_sample_rates(tts.response_format) = {}
    \/ model_format(tts).sample_rate \in supported_sample_rates(tts.response_format)

resolved_endpoint(tts, provider) ==
    [base |-> resolved(tts, provider).api_base,
     path |-> IF transport_kind(tts) = "websocket" THEN "/audio/speech/stream" ELSE "/audio/speech"]

\* build_asr_client, build_llm_client_inner.
AsrClient(asr, provider, headers) ==
    Over([section |-> asr, path |-> "/audio/transcriptions"],
         [resolved(asr, provider) EXCEPT !.headers = headers,
                                         !.api_key = IF @ = NoKey THEN None ELSE @])

LlmClient(llm, provider, headers, prompt) ==
    Over([section |-> llm, path |-> "/chat/completions", prompt |-> prompt],
         [resolved(llm, provider) EXCEPT !.headers = headers])

\* build_tts_client_with_metrics: the WebSocket takes the headers of its own
\* section alone; over HTTP an empty key is a key.
TtsClient(tts, provider, headers) ==
    LET ws == transport_kind(tts) = "websocket"
        tuned == [tts EXCEPT !.response_format = IF @ # "" THEN @ ELSE IF ws THEN "pcm" ELSE "wav",
                             !.voice = IF @ = "" /\ ~ws THEN "vivian" ELSE @,
                             !.sample_rate = model_format(tts).sample_rate,
                             !.channels = model_format(tts).channels]
    IN  Over([section |-> tuned, path |-> resolved_endpoint(tts, provider).path,
              transport |-> transport_kind(tts)],
             [resolved(tts, provider) EXCEPT !.headers = IF ws THEN tts.headers ELSE headers,
                                             !.api_key = IF @ = NoKey /\ ws THEN None ELSE @])

(***************************************************************************)
(* Requests.                                                               *)
(***************************************************************************)
Bearer(key) == [name |-> "authorization", value |-> [key EXCEPT !.bearer = TRUE]]
AsSent(h) == [name |-> h.name, value |-> h.value]

\* apply_auth_headers: a header that is configured goes before the key.
apply_auth_headers(client) ==
    LET bare == [client.api_key EXCEPT !.bearer = FALSE]
    IN  {AsSent(h) : h \in client.headers} \union
        (IF client.api_key = NoKey \/ \E h \in client.headers : h.name = "x-api-key" THEN {}
         ELSE {[name |-> "x-api-key", value |-> bare]})

\* The recogniser and the synthesiser: both the key and the headers.
with_bearer(client) ==
    {AsSent(h) : h \in client.headers} \union
    (IF client.api_key = None THEN {} ELSE {Bearer(client.api_key)})

\* messages_with_system_prompt
messages_with_system_prompt(prompt, messages, hint) ==
    IF prompt = None THEN messages
    ELSE <<[role |-> "system", text |-> <<prompt, IF hint = "" THEN "nothing" ELSE hint>>]>> \o messages

\* The options of a section that are sent: those with another value than these.
Body(section, options, unset) ==
    [k \in {f \in options : section[f] \notin unset} |-> section[k]]

LlmOptions ==
    {"max_completion_tokens", "temperature", "top_p", "top_k", "reasoning_effort", "include_usage"}

Chat(client, hint) ==
    LET user == [role |-> "user", text |-> <<"prompt">>]
    IN  [headers |-> apply_auth_headers(client), model |-> client.section.model,
         messages |-> messages_with_system_prompt(client.prompt, <<user>>, hint),
         body |-> Body(client.section, LlmOptions, {None, "false"})]

\* Optional fields are sent when they have a text; a file name tells the type.
AsrOptions == {"language", "response_format", "spk", "tags"}

Transcription(client) ==
    [headers |-> with_bearer(client), model |-> client.section.model,
     body |-> Body(client.section, AsrOptions, {None, ""})]

list_voices(client) == [headers |-> with_bearer(client)]

TtsOptions ==
    {"voice", "response_format", "speed", "task_type", "language", "instructions", "max_new_tokens"}

\* The defaults the synthesiser is asked with; streaming when it is asked
\* for in either way.
Speech(client, voice) ==
    LET s == client.section
        Or(value, default) == IF value = None THEN default ELSE value
    IN  [headers |-> with_bearer(client), model |-> s.model,
         body |-> [voice |-> IF voice = None THEN s.voice ELSE voice,
                   response_format |-> s.response_format, sample_rate |-> s.sample_rate,
                   speed |-> Or(s.speed, "1.0"), task_type |-> Or(s.task_type, "CustomVoice"),
                   language |-> Or(s.language, "Auto"), instructions |-> Or(s.instructions, ""),
                   max_new_tokens |-> Or(s.max_new_tokens, "2048"),
                   stream |-> s.stream = "true" \/ s.stream_format \in {"sse", "audio"}]]

\* connect: a header that is configured replaces the key it is sent beside;
\* session_config_with: what is not set is not sent, and no model.
Session(client, voice, kept) ==
    LET s == [client.section EXCEPT !.voice = IF voice # None THEN voice
                                              ELSE IF @ = "" THEN None ELSE @]
        named == {AsSent(h) : h \in kept}
    IN  [headers |-> named \union
             (IF client.api_key = None \/ \E h \in kept : h.name = "authorization" THEN {}
              ELSE {Bearer(client.api_key)}),
         body |-> Body(s, TtsOptions \union {"sample_rate"}, {None}),
         stream_audio |-> s.stream_format = "audio"]

(***************************************************************************)
(* The start of the server, and its calls.                                 *)
(***************************************************************************)
InitConfig ==
    /\ given \in Givens
    /\ stage = "loading"
    /\ conf = Defaults /\ clients = None /\ store = None /\ request = None

Load ==
    /\ stage = "loading"
    /\ IF Loads(given)
       THEN stage' = "building" /\ conf' = Effective(given)
       ELSE stage' = "failed" /\ UNCHANGED conf
    /\ UNCHANGED <<given, clients, store, request>>

\* Without a strong section the fast model does both.
StrongConf == IF conf.strong = <<>> THEN conf.llm ELSE conf.strong

Builds ==
    /\ RateFits(conf.tts)
    /\ conf.agent.memory_backend \in {"in_memory", "redis"}
    /\ conf.agent.memory_backend = "redis" => conf.redis.url # None

Build ==
    /\ stage = "building" /\ Builds
    /\ stage' = "serving"
    /\ LET p == conf.provider
           Maps(section) == HeaderMaps(resolved(section, p).headers)
       IN  \E a \in Maps(conf.asr), f \in Maps(conf.llm), s \in Maps(StrongConf), t \in Maps(conf.tts) :
              clients' = [asr    |-> AsrClient(conf.asr, p, a),
                          fast   |-> LlmClient(conf.llm, p, f, "fast"),
                          strong |-> LlmClient(StrongConf, p, s, "strong"),
                          tts    |-> TtsClient(conf.tts, p, t)]
    /\ store' = [kind |-> conf.agent.memory_backend, window |-> conf.agent.memory_window,
                 ttl |-> IF conf.agent.memory_backend = "in_memory" THEN None
                         ELSE IF conf.agent.memory_ttl_secs = None THEN conf.redis.default_ttl_secs
                         ELSE conf.agent.memory_ttl_secs]
    /\ UNCHANGED <<given, conf, request>>

\* An incompatible rate, an unknown store, or Redis that is not configured
\* or not reached.
FailToBuild ==
    /\ stage = "building"
    /\ ~Builds \/ conf.agent.memory_backend = "redis"
    /\ stage' = "failed"
    /\ UNCHANGED <<given, conf, clients, store, request>>

\* A call of a client, with the voice that was chosen for it.
Call(to, client, over, voice, q) ==
    Over([to |-> to, over |-> over, voice |-> voice,
          base |-> client.api_base, timeout |-> client.timeout_ms], q)

AskProvider ==
    /\ stage = "serving" /\ request = None
    /\ LET tts == clients.tts
       IN  \/ \E who \in {"fast", "strong"}, hint \in {"", "sad"} :
                 request' = Call(who, clients[who], "http", None, Chat(clients[who], hint))
           \/ request' = Call("asr", clients.asr, "http", None, Transcription(clients.asr))
           \/ /\ tts.transport = "http"
              /\ \/ \E voice \in {None, "anna"} :
                       request' = Call("tts", tts, "http", voice, Speech(tts, voice))
                 \/ request' = Call("tts", tts, "http", None, list_voices(tts))
           \/ /\ tts.transport = "websocket"
              /\ \E voice \in {None, "anna"}, kept \in HeaderMaps(tts.headers) :
                    request' = Call("tts", tts, "websocket", voice, Session(tts, voice, kept))
    /\ UNCHANGED <<given, stage, conf, clients, store>>

NextConfig == Load \/ Build \/ FailToBuild \/ AskProvider

(***************************************************************************)
(* Properties.                                                             *)
(***************************************************************************)
\* What the file in use says of a setting of a section, if anything.
FileSays(s) ==
    IF s \in DOMAIN in_use(given) THEN in_use(given)[s] ELSE <<>>

\* Where the settings of a model are looked for, nearest first.
Sources(s) ==
    LET env(t) == Told(given.env, t)
    IN  IF s = "fast" THEN <<env("llm"), FileSays("llm")>>
        ELSE IF s # "strong" THEN <<env(s), FileSays(s)>>
        ELSE IF DOMAIN FileSays("strong") # {} THEN <<env("strong"), FileSays("strong")>>
        ELSE <<env("strong"), env("llm"), FileSays("llm")>>

Nearest(setting, sources, otherwise) ==
    LET telling == {i \in DOMAIN sources : setting \in DOMAIN sources[i]}
    IN  IF telling = {} THEN otherwise ELSE sources[Min(telling)][setting]

\* What a section leaves empty the provider's lends.
Lent(setting, sources, empty, otherwise) ==
    LET own == Nearest(setting, sources, empty)
    IN  IF own = empty THEN Nearest(setting, Sources("provider"), otherwise) ELSE own

\* Of the headers of one name one is sent: the section's own, if it has one
\* and all of them spell the name alike.
SentOnce(name, own, lent, sent) ==
    LET said  == {h \in own \union lent : h.name = name}
        mine  == {h \in own : h.name = name}
        found == {h \in sent : h.name = name}
        alike == Cardinality({h.spelling : h \in said}) = 1
    IN  /\ Cardinality(found) = 1
        /\ \A f \in found : \E h \in IF mine # {} /\ alike THEN mine ELSE said : f.value = h.value

Options(to) == CASE to = "asr" -> AsrOptions [] to = "tts" -> TtsOptions [] OTHER -> LlmOptions

\* Every call of a provider is made as the nearest source that speaks of a
\* setting says, the environment before the file, the section before the
\* provider's, and for the strong model its own before the fast one's: to that
\* base, with that timeout, model, key and headers, and with the options that
\* are given (the voice chosen for the call before the configured one).
\* An Authorization header that is configured is sent beside the key, over a
\* WebSocket instead of it.  A WebSocket carries the section's own headers
\* alone: see ProviderHeadersPassed.
CallsAsConfigured ==
    request # None =>
        LET sources == Sources(request.to)
            key     == Lent("api_key", sources, NoKey, NoKey)
            own     == Nearest("headers", sources, {})
            lent    == IF request.over = "websocket" THEN {}
                       ELSE Nearest("headers", Sources("provider"), {})
            names   == {h.name : h \in own \union lent}
            carrier == IF request.to \in {"fast", "strong"} THEN "x-api-key" ELSE "authorization"
            carried == {h \in request.headers : h.name = carrier}
            beside  == carrier = "authorization" /\ request.over = "http"
        IN  /\ request.base = Lent("api_base", sources, "", "")
            /\ request.timeout = Lent("timeout_ms", sources, None, "30000")
            /\ "model" \in DOMAIN request =>
                  request.model = Nearest("model", sources,
                                          IF request.to = "asr" THEN "sensevoice" ELSE "")
            /\ \A name \in names :
                  (beside /\ name = carrier) \/ SentOnce(name, own, lent, request.headers)
            /\ beside /\ key # NoKey => Bearer(key) \in carried
            /\ ~beside /\ carrier \notin names =>
                  carried = IF key = NoKey THEN {}
                            ELSE IF carrier = "x-api-key"
                            THEN {[name |-> carrier, value |-> [key EXCEPT !.bearer = FALSE]]}
                            ELSE {Bearer(key)}
            /\ "body" \in DOMAIN request =>
                  \A k \in Options(request.to) :
                      LET said == IF k = "voice" /\ request.voice # None THEN request.voice
                                  ELSE Nearest(k, sources, None)
                      IN  said \notin {None, "", "false"} =>
                              k \in DOMAIN request.body /\ request.body[k] = said

\* Fails.  The headers of the provider's section go out with every call, as the
\* documentation of the configuration has it; TtsClient gives those of the
\* WebSocket's own section alone.
ProviderHeadersPassed ==
    request # None =>
        \A h \in Nearest("headers", Sources("provider"), {}) :
            \E sent \in request.headers : sent.name = h.name

=============================================================================
