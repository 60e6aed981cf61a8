---------------------------- MODULE MCProviders ----------------------------
(* Agent, ProviderHttp, AdminApi and VoiceConfig on small instances: all that *)
(* talks to a provider, and what it is told of it.  They share no state: a    *)
(* behaviour of this instance is one of one of the four.                      *)
EXTENDS Agent, ProviderHttp, AdminApi, VoiceConfig, TLC

CONSTANTS
    Parts,      \* those that have behaviours
    t1, t2

----------------------------------------------------------------------------
(* The turns of a session.                                                   *)
\* One character less than the strong model needs, and enough.
MCLengths == {14, 15}

----------------------------------------------------------------------------
(* Streamed answers: every sequence of three lines of these kinds, and some  *)
(* longer ones.                                                              *)
LlmData(letters, final) == [field |-> "data", said |-> letters, final |-> final]
TtsData(sound, final) == [field |-> "data", sound |-> sound, final |-> final]
Named(n) == [field |-> "event", name |-> n]
Other == {[field |-> "junk"], [field |-> "mark"], [field |-> "other"]}

LlmLines ==
    Other \union
    {LlmData(<<"x", "<">>, FALSE), LlmData(<<"k">>, FALSE), LlmData(<<">", "x">>, FALSE),
     LlmData(<<"x", "<", "k", ">", "y">>, FALSE), LlmData(<<"<", "/">>, FALSE),
     LlmData(<<"k", ">", "z">>, TRUE), LlmData(<<"<">>, TRUE)}

TtsLines ==
    Other \union {Named(n) : n \in {"delta", "done", "error", "created"}} \union
    {TtsData("some", FALSE), TtsData("some", TRUE), TtsData("none", FALSE), TtsData("bad", FALSE)}

Longer ==
    {[client |-> "llm", lines |->
        <<LlmData(<<"a", "<">>, FALSE), LlmData(<<"k", ">", "b">>, FALSE), LlmData(<<"<", "/">>, FALSE),
          LlmData(<<"k", ">", "c">>, FALSE), LlmData(<<"<", "k">>, TRUE)>>],
     [client |-> "tts", lines |->
        <<Named("delta"), TtsData("some", FALSE), [field |-> "other"], TtsData("some", FALSE),
          Named("done"), TtsData("none", FALSE), Named("delta"), TtsData("some", FALSE)>>]}

MCAnswers ==
    {[client |-> "llm", lines |-> l] : l \in [1..3 -> LlmLines]} \union
    {[client |-> "tts", lines |-> l] : l \in [1..3 -> TtsLines]} \union
    Longer \union {[client |-> "asr", lines |-> <<>>]}

----------------------------------------------------------------------------
(* Posted bodies, texts, transcripts.                                        *)
Chunk1(id, length) == [id |-> id, length |-> length]
MCUploads ==
    {[wave |-> FALSE, chunks |-> <<>>, length |-> 0],
     [wave |-> FALSE, chunks |-> <<>>, length |-> 64],
     [wave |-> TRUE, chunks |-> <<Chunk1("fmt ", 16), Chunk1("data", 64)>>, length |-> 108],
     [wave |-> TRUE, chunks |-> <<Chunk1("data", 0)>>, length |-> 20],
     [wave |-> TRUE, chunks |-> <<Chunk1("fmt ", 16)>>, length |-> 36]}

MCScripts == {<<0>>, <<3>>, <<1, 0, 3, 1>>, <<3, 3, 0>>, <<1, 1>>}
MCSounds == {<<>>, <<1, 4, 1>>}

\* A segment of up to two tokens, and texts of two segments.
Tokens == {"SAD", "NEUTRAL", "Cough", "w"}
MCTranscripts ==
    {<<"zh">> \o t : t \in UNION {[1..n -> Tokens] : n \in 0..2}} \union
    {<<"nospeech", "Event_UNK">>, <<"nospeech", "Event_UNK", "Speech", "w">>} \union
    {s \o <<"en">> \o t : s, t \in
        {<<"SAD", "BGM", "v">>, <<"HAPPY", "BGM", "Cough", "w", "The.">>, <<"v", "w">>}}

----------------------------------------------------------------------------
(* Starts of the server.                                                     *)
K(token) == [bearer |-> FALSE, token |-> token]
B(token) == [bearer |-> TRUE, token |-> token]
Header(spelling, token) == [name |-> "x-api-key", spelling |-> spelling, value |-> K(token)]
None1 == [none \in {} |-> None]

\* The variants of a setting: not given, or given with one of these values.
Maybe(setting, values) == {None1} \union {setting :> v : v \in values}

\* Where the key of the fast model comes from.
KeyStarts ==
    {[cli |-> None1,
      env |-> [provider |-> pe, llm |-> le],
      files |-> "crate.yaml" :> [provider |-> pf @@ ph, llm |-> lf @@ lh @@ [model |-> "fast"]]] :
        pe \in Maybe("api_key", {NoKey, K("pe")}), pf \in Maybe("api_key", {B("pf")}),
        ph \in Maybe("headers", {{Header("X-Api-Key", "ph")}, {Header("x-api-key", "ph")}}),
        le \in Maybe("api_key", {NoKey, K("le")}) \union {"headers" :> Junk}
               \union {"headers" :> {}, "headers" :> {Header("x-api-key", "lh")}},
        lf \in Maybe("api_key", {B("lf")}),
        lh \in Maybe("headers", {{Header("x-api-key", "lf")}})}

\* Where the settings of the strong model come from.
StrongStarts ==
    {[cli |-> cli,
      env |-> [llm |-> le, strong |-> se] @@ other,
      files |-> ("crate.yaml" :> ([llm |-> [model |-> "fast", api_key |-> K("f")]] @@ sf)) @@ more] :
        cli \in {None1, [config |-> "cli.yaml"]},
        le \in Maybe("model", {"fast2"}) \union {[model |-> "fast2", api_key |-> K("e")]},
        se \in Maybe("model", {"strong2"}) \union Maybe("timeout_ms", {Junk, "5"})
               \union {"api_key" :> NoKey},
        sf \in {None1, "strong" :> [model |-> "strong"]},
        other \in {None1, [config |-> "env.yaml"]},
        more \in {None1, "env.yaml" :> Junk, "cli.yaml" :> ("llm" :> ("api_key" :> K("c")))}}

\* The synthesiser and the memory.
BuildStarts ==
    {[cli |-> "server" :> ("port" :> "1"),
      env |-> [tts |-> te, redis |-> re],
      files |-> "crate.yaml" :> [tts |-> [voice |-> "", transport |-> t, model |-> m,
                                          response_format |-> f, api_key |-> B("t")],
                                 agent |-> [memory_backend |-> b]]] :
        te \in Maybe("sample_rate", {Junk, "8000", "24000"}), t \in {"http", "websocket"},
        m \in {"tts", "Qwen/Qwen3-TTS-12Hz-1.7B-CustomVoice"}, f \in {"", "mp3", "flac"},
        b \in {"in_memory", "redis", "disk"}, re \in Maybe("url", {"redis"})}

\* What the provider's section lends to the recogniser and the synthesiser.
Region(spelling, token) == [name |-> "x-region", spelling |-> spelling, value |-> K(token)]
Proxied(token) == [name |-> "authorization", spelling |-> "Authorization", value |-> B(token)]

CallStarts ==
    {[cli |-> None1,
      env |-> [provider |-> pe, tts |-> te],
      files |-> "crate.yaml" :> [provider |-> Over([headers |-> {Region("X-Region", "p")}], pf),
                                 asr |-> Over([language |-> "zh", spk |-> "true"], own),
                                 tts |-> Over(Over([transport |-> t, language |-> "en"], own), tf)]] :
        pe \in Maybe("api_base", {"pe"}), te \in Maybe("voice", {"", "te"}),
        pf \in {None1, [timeout_ms |-> "7", api_key |-> K("p"), api_base |-> "pf"]},
        tf \in {[voice |-> ""], [voice |-> "tf", speed |-> "2", response_format |-> "mp3"]},
        own \in {None1, [api_base |-> "own", timeout_ms |-> "5",
                         headers |-> {Region("x-region", "own"), Proxied("own")}],
                 [headers |-> {Region("X-Region", "own"), Proxied("own")}, api_key |-> K("own")]},
        t \in {"http", "websocket"}}

DefaultStart == [cli |-> None1, env |-> None1, files |-> None1]

\* No file inside the crate: those here and at home.
FoundStarts ==
    {[cli |-> None1, env |-> [config |-> "env.yaml"], files |-> here @@ home] :
        here \in Maybe("here.yaml", {"llm" :> [model |-> "here", api_key |-> K("h")]}),
        home \in Maybe("home.yaml", {"llm" :> [model |-> "home"]})}

MCGivens == {DefaultStart} \union FoundStarts \union CallStarts \union KeyStarts \union StrongStarts \union BuildStarts

----------------------------------------------------------------------------
VARIABLE focus

httpParts == <<httpVars, adminVars, configVars>>

\* The parts that take no step start in one state each.
MCInit ==
    /\ focus \in Parts
    /\ focus = "agent" \/ backend = "in_memory"
    /\ focus = "provider" \/ (client = "asr" /\ body = <<>>)
    /\ focus = "admin" \/ endpoint = "voices"
    /\ focus = "config" \/ given = DefaultStart
    /\ Init /\ InitHttp /\ InitAdmin /\ InitConfig

\* Turns are named in the order they begin in.
InOrder == turn[t1] = Idle => turn'[t2] = Idle

MCNext ==
    /\ UNCHANGED focus
    /\ \/ focus = "agent" /\ Next /\ InOrder /\ UNCHANGED httpParts
       \/ focus = "provider" /\ NextHttp /\ UNCHANGED <<vars, adminVars, configVars>>
       \/ focus = "admin" /\ NextAdmin /\ UNCHANGED <<vars, httpVars, configVars>>
       \/ focus = "config" /\ NextConfig /\ UNCHANGED <<vars, httpVars, adminVars>>

\* A turn that has not begun asks nothing of the scheduler: the fairness of the
\* turns is none for the other parts.
MCSpec == MCInit /\ [][MCNext]_<<vars, httpParts, focus>> /\ TurnFairness
=============================================================================
