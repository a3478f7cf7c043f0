----------------------------- MODULE MCStartup -----------------------------
(***************************************************************************)
(* Command lines of at most three parts, two INI files, and request bodies *)
(* that differ from a plain one in one respect.                            *)
(***************************************************************************)
EXTENDS Startup, TLC

CONSTANTS MaxParts

Parts ==
    { <<"--config", "a.ini">>, <<"--config", "b.ini">>,
      <<"--model", "m.gguf">>, <<"--model", "--config">>,
      <<"--n-ctx", "65552">>, <<"--fing-longer", "600">>, <<"--n-ctx">>,
      <<"--max-tokens", "16">>, <<"--allow-ip", "ip1,ip2">>, <<"--daemonize">>,
      <<"--api-key", "longkey">>, <<"--recommend">>, <<"--help">> }

MCArgvs == {FlattenSeq(parts) : parts \in SeqOf(Parts, MaxParts)}

Line(k, v) == [key |-> k, value |-> v]

MCFiles ==
    ("a.ini" :> << Line("# comment", ""), Line("model_path", "a.gguf"),
                   Line("allow_ip", " ,"), Line("allow_ip", "ip3"), Line("n_ctx", "600"),
                   Line("config_file", "b.ini"), Line("n_ctx", "1024"),
                   Line("temperature", "3.0") >>)
    @@ ("b.ini" :> << Line("max_tokens", "16"), Line("model_path", "b.gguf") >>)

MCstrtol(w) ==
    CASE w = "16" -> 16 [] w = "600" -> 600 [] w = "1024" -> 1024
      [] w = "65552" -> 65552 [] OTHER -> 0

MCstrtof(w) ==
    CASE w = "0.7" -> 70 [] w = "0.9" -> 90 [] w = "1.1" -> 110 [] w = "3.0" -> 300
      [] OTHER -> 0

MCsnprintf(f, w) == IF f = "api_key" /\ w = "longkey" THEN "long" ELSE w

MCAddresses(w) ==
    CASE w = "ip1,ip2" -> <<"ip1", "ip2">> [] w = "ip3" -> <<"ip3">> [] OTHER -> <<>>

Sizes == {4, 20, 45, 58, 61, 74, 186, 193, 300, 470, 480, 590, 690, 880, 1280}

MCMachines ==
    {[vram |-> s, gtt |-> 0, ram |-> 70] : s \in Sizes}
    \union {[vram |-> 5, gtt |-> s, ram |-> 70] : s \in Sizes}
    \union {[vram |-> 0, gtt |-> 0, ram |-> s] : s \in Sizes}

MCColon(w) == w = "127.0.0.1:8080"

-----------------------------------------------------------------------------
a == "a"
Long == <<a, "b", "c">>
Texts == {<<>>, <<a, "b">>, Long, Absent}
Msg(r, c) == [role |-> r, content |-> c]
Numbers == {Inf, -250, -100, -50, 50, 150, 70000}

Plain(kind) ==
    [kind |-> kind, json |-> TRUE, messages |-> <<Msg("user", <<a>>)>>, prompt |-> <<a>>,
     temperature |-> Absent, top_p |-> Absent, repeat_penalty |-> Absent,
     frequency_penalty |-> Absent, presence_penalty |-> Absent,
     max_tokens |-> Absent, stop |-> Absent, stream |-> FALSE]

Messages ==
    {Msg("user", Long), Msg("assistant", Absent), Msg("tool", <<a>>), Msg(Absent, <<>>)}

StopArrays == {<<>>, <<Long>>, <<Absent, Long>>, <<Long, Long, Long>>}

MCBodies ==
    UNION { {Plain(kind), [Plain(kind) EXCEPT !.json = FALSE], [Plain(kind) EXCEPT !.stream = TRUE]}
            \union {[Plain(kind) EXCEPT !.max_tokens = v, !.temperature = v, !.top_p = v,
                       !.repeat_penalty = v, !.frequency_penalty = v,
                       !.presence_penalty = v] : v \in Numbers}
            \union {[Plain(kind) EXCEPT !.stop = [array |-> TRUE, items |-> s]] :
                       s \in StopArrays}
            \union {[Plain(kind) EXCEPT !.stop = [array |-> FALSE, items |-> <<<<a>>>>]]}
            : kind \in {"chat", "completion"} }
    \union {[Plain("chat") EXCEPT !.messages = m] : m \in
               SeqOf(Messages, 1) \union {<<Msg("user", Long), msg>> : msg \in Messages}
               \union {Absent, <<Msg("user", <<a>>), Msg("user", <<a>>), Msg("user", <<a>>)>>}}
    \union {[Plain("completion") EXCEPT !.prompt = t] : t \in Texts}
=============================================================================
