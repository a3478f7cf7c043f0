------------------------------- MODULE Config -------------------------------
(***************************************************************************)
(* From the command line to a configuration: main() up to step 5 and       *)
(* config.c.  argv is scanned for flags that end the program, then for the *)
(* first --config, the INI file is read line by line, the command line     *)
(* argument by argument, and the result is validated.                      *)
(*                                                                         *)
(* A word of the command line or of a file is a value the constants below  *)
(* interpret, as libc would: strtol, strtof, snprintf into the field's     *)
(* buffer, strtok_r on commas with each piece trimmed.  argv[0] is left    *)
(* out, and a line is what one fgets returns.                              *)
(***************************************************************************)
EXTENDS Integers, Sequences, FiniteSetsExt, SequencesExt, Recommend

CONSTANTS
    Argvs,            \* command lines
    Files,            \* path -> the file's lines, [key, value] each
    strtol(_),        \* word -> Int
    strtof(_),        \* word -> a float
    snprintf(_, _),   \* field, word -> the word as it fits the field
    Addresses(_),     \* word -> its comma-separated addresses, blanks dropped
    Colon(_),         \* word -> does it contain ':'?
    Half,             \* 2^31: int32_t is -Half .. Half - 1
    ACL_MAX,          \* PROF_ACL_MAX (16)
    Machines          \* hardware hw_detect may find

VARIABLES
    argv,
    pc,               \* where main() is; "serving" once the config is valid
    i,                \* next line of the file, next argument
    cfg,              \* config_t
    loaded,           \* the file that was read, "" for none
    advice            \* what --recommend printed

configVars == <<argv, pc, i, cfg, loaded, advice>>

IntFields   == {"n_ctx", "n_gpu_layers", "n_batch", "n_threads", "top_k", "max_tokens",
                "max_inference_seconds", "stats_interval", "daemonize", "log_level"}
FloatFields == {"temperature", "top_p", "repeat_penalty"}
StrFields   == {"model_path", "model_alias", "listen_addr", "api_key", "pid_file",
                "log_file", "config_file"}
Scalars     == IntFields \union FloatFields \union StrFields

(* The keys of set_config_field.                                           *)
IniKeys == (Scalars \ {"config_file"}) \union {"allow_ip"}

(* The options of config_parse_cli that take a value, and what they set.   *)
Options ==
    { <<"--config", "config_file">>, <<"--model", "model_path">>,
      <<"--model-alias", "model_alias">>, <<"--n-ctx", "n_ctx">>,
      <<"--fing-longer", "n_ctx">>, <<"--n-gpu-layers", "n_gpu_layers">>,
      <<"--n-batch", "n_batch">>, <<"--n-threads", "n_threads">>,
      <<"--temperature", "temperature">>, <<"--top-p", "top_p">>,
      <<"--top-k", "top_k">>, <<"--repeat-penalty", "repeat_penalty">>,
      <<"--max-tokens", "max_tokens">>, <<"--listen-addr", "listen_addr">>,
      <<"--api-key", "api_key">>, <<"--pid-file", "pid_file">>,
      <<"--max-inference-seconds", "max_inference_seconds">>,
      <<"--stats-interval", "stats_interval">>, <<"--log-level", "log_level">>,
      <<"--log-file", "log_file">>, <<"--allow-ip", "allow_ip">> }

ValueOptions == {o[1] : o \in Options}
FieldOf(arg) == CHOOSE f \in IniKeys \union StrFields : <<arg, f>> \in Options

ASSUME SizeAssumption == Half \in Nat /\ Half > 4096 /\ ACL_MAX \in Nat
ASSUME MachinesAssumption == Machines \subseteq Machine
ASSUME PathAssumption ==
    \A path \in DOMAIN Files : path # "" /\ path \notin ValueOptions \union {"--daemonize"}
ASSUME OptionAssumption ==      \* options fit the buffer of a path
    \A o \in ValueOptions \union {"--daemonize"} : snprintf("config_file", o) = o

config_defaults ==
    [model_path |-> "", model_alias |-> "local-model", n_ctx |-> 4096,
     n_gpu_layers |-> 99, n_batch |-> 2048, n_threads |-> 0,
     temperature |-> strtof("0.7"), top_p |-> strtof("0.9"), top_k |-> 40,
     repeat_penalty |-> strtof("1.1"), max_tokens |-> 512,
     listen_addr |-> "127.0.0.1:8080", api_key |-> "", acl |-> <<>>,
     max_inference_seconds |-> 300, stats_interval |-> 60, daemonize |-> 0,
     pid_file |-> "/run/professord/professord.pid", log_level |-> 2,
     log_file |-> "", config_file |-> ""]

NoAdvice == [n_ctx |-> 0]

Init ==
    /\ argv \in Argvs /\ pc = "flags" /\ i = 1
    /\ cfg = config_defaults /\ loaded = "" /\ advice = NoAdvice

-----------------------------------------------------------------------------
(* Setting a field                                                         *)

(* Mutant: a field as wide as long.                                        *)
MutantInt32(k) == k

(* The cast from long to int32_t.                                          *)
Int32(k) == ((k + Half) % (2 * Half)) - Half

(* Addresses are appended while there is room.                             *)
AppendAcl(acl, new) == SubSeq(acl \o new, 1, Min({Len(acl) + Len(new), ACL_MAX}))

Converted(field, word) ==
    CASE field \in IntFields   -> Int32(strtol(word))
      [] field \in FloatFields -> strtof(word)
      [] field \in StrFields   -> snprintf(field, word)

Set(c, field, word) ==
    IF field = "allow_ip" THEN [c EXCEPT !.acl = AppendAcl(@, Addresses(word))]
    ELSE [c EXCEPT ![field] = Converted(field, word)]

(* set_config_field: unknown keys are ignored.                             *)
set_config_field(c, key, word) == IF key \in IniKeys THEN Set(c, key, word) ELSE c

-----------------------------------------------------------------------------
(* main(), steps 2 to 5                                                    *)

Flags == {"--version", "-v", "--recommend", "--gen-api-key"}

Exit == pc' = "exited" /\ UNCHANGED <<argv, i, cfg, loaded>>

(* Step 2: the first such flag decides, wherever it stands.                *)
EarlyExit ==
    /\ pc = "flags"
    /\ \E k \in DOMAIN argv :
         /\ argv[k] \in Flags /\ \A j \in 1..(k - 1) : argv[j] \notin Flags
         /\ IF argv[k] = "--recommend"
            THEN \E hw \in Machines : advice' = hw_print_recommendations(hw)
            ELSE UNCHANGED advice
    /\ Exit

(* Mutant: the last --config is taken, as the command line's second pass   *)
(* does.                                                                   *)
MutantFirstConfig ==
    LET at == {k \in 1..(Len(argv) - 1) : argv[k] = "--config"}
    IN  IF at = {} THEN "" ELSE snprintf("config_file", argv[Max(at) + 1])

(* Step 3: the word after the first --config, if there is one.             *)
FirstConfig ==
    LET at == {k \in 1..(Len(argv) - 1) : argv[k] = "--config"}
    IN  IF at = {} THEN "" ELSE snprintf("config_file", argv[Min(at) + 1])

ExtractConfig ==
    /\ pc = "flags" /\ \A k \in DOMAIN argv : argv[k] \notin Flags
    /\ cfg' = [cfg EXCEPT !.config_file = FirstConfig]
    /\ pc' = IF FirstConfig = "" THEN "cli" ELSE "open"
    /\ UNCHANGED <<argv, i, loaded, advice>>

(* Step 3b: config_load_file.                                              *)
OpenFile ==
    /\ pc = "open" /\ cfg.config_file \in DOMAIN Files
    /\ pc' = "lines" /\ loaded' = cfg.config_file
    /\ UNCHANGED <<argv, i, cfg, advice>>

NoSuchFile ==
    /\ pc = "open" /\ cfg.config_file \notin DOMAIN Files
    /\ Exit /\ UNCHANGED advice

(* A line with a key and a value; comments and lines without '=' have no   *)
(* key the configuration knows.                                            *)
LoadLine ==
    /\ pc = "lines" /\ i <= Len(Files[loaded])
    /\ cfg' = set_config_field(cfg, Files[loaded][i].key, Files[loaded][i].value)
    /\ i' = i + 1
    /\ UNCHANGED <<argv, pc, loaded, advice>>

EndOfFile ==
    /\ pc = "lines" /\ i > Len(Files[loaded])
    /\ pc' = "cli" /\ i' = 1
    /\ UNCHANGED <<argv, cfg, loaded, advice>>

(* Step 4: config_parse_cli.  The flags of step 2 cannot be met again.     *)
Arg == argv[i]
AtArg == pc = "cli" /\ i <= Len(argv)

Help == AtArg /\ Arg \in {"--help", "-h"} /\ Exit /\ UNCHANGED advice

Daemonize ==
    /\ AtArg /\ Arg = "--daemonize"
    /\ cfg' = [cfg EXCEPT !.daemonize = 1] /\ i' = i + 1
    /\ UNCHANGED <<argv, pc, loaded, advice>>

(* The last word has no value, or the option is unknown.                   *)
BadArg ==
    /\ AtArg /\ Arg \notin {"--help", "-h", "--daemonize"}
    /\ i = Len(argv) \/ Arg \notin ValueOptions
    /\ Exit /\ UNCHANGED advice

(* Mutant: an address given on the command line replaces the file's.       *)
MutantSetOption ==
    /\ AtArg /\ Arg \in ValueOptions /\ i < Len(argv)
    /\ cfg' = Set(IF Arg = "--allow-ip" THEN [cfg EXCEPT !.acl = <<>>] ELSE cfg,
                  FieldOf(Arg), argv[i + 1])
    /\ i' = i + 2
    /\ UNCHANGED <<argv, pc, loaded, advice>>

SetOption ==
    /\ AtArg /\ Arg \in ValueOptions /\ i < Len(argv)
    /\ cfg' = Set(cfg, FieldOf(Arg), argv[i + 1])
    /\ i' = i + 2
    /\ UNCHANGED <<argv, pc, loaded, advice>>

(* Mutant: max_tokens is not compared with the context size.               *)
MutantValid(c) ==
    /\ c.model_path # "" /\ c.n_ctx > 0 /\ c.max_tokens > 0
    /\ Colon(c.listen_addr) /\ c.max_inference_seconds > 0

(* Step 5: config_validate.                                                *)
config_validate(c) ==
    /\ c.model_path # "" /\ c.n_ctx > 0
    /\ c.max_tokens > 0 /\ c.max_tokens <= c.n_ctx
    /\ Colon(c.listen_addr) /\ c.max_inference_seconds > 0

Validate ==
    /\ pc = "cli" /\ i > Len(argv)
    /\ pc' = IF config_validate(cfg) THEN "serving" ELSE "exited"
    /\ UNCHANGED <<argv, i, cfg, loaded, advice>>

ConfigNext ==
    \/ EarlyExit \/ ExtractConfig \/ OpenFile \/ NoSuchFile \/ LoadLine \/ EndOfFile
    \/ Help \/ Daemonize \/ BadArg \/ SetOption \/ Validate

-----------------------------------------------------------------------------
(***************************************************************************)
(* What a command line means, without reading it from left to right.  A    *)
(* word is a value if and only if the word before it is an option that     *)
(* takes one; this determines the positions of options.                    *)
(***************************************************************************)
OptionAt ==
    CHOOSE P \in SUBSET DOMAIN argv :
      \A k \in DOMAIN argv : k \in P <=> ~(k - 1 \in P /\ argv[k - 1] \in ValueOptions)

Setting(positions, field) ==
    {k \in positions : argv[k] \in ValueOptions /\ FieldOf(argv[k]) = field}

FileLines == IF loaded = "" THEN <<>> ELSE Files[loaded]

LinesFor(field) == {k \in DOMAIN FileLines : FileLines[k].key = field}

(* README.md:55 "CLI always overrides the INI file": a setting of a server *)
(* that started is the last one the command line gives, else the last one  *)
(* of the file the first --config names, else the default.  A server that  *)
(* started never took a value that looks like an option for one.           *)
Precedence ==
    pc = "serving" =>
      LET options == OptionAt
          given   == [f \in Scalars |-> Setting(options, f)]
      IN  /\ loaded = IF given.config_file = {} THEN ""
                      ELSE snprintf("config_file", argv[Min(given.config_file) + 1])
          /\ \A f \in Scalars \ {"daemonize"} :
               cfg[f] = IF given[f] # {} THEN Converted(f, argv[Max(given[f]) + 1])
                        ELSE IF f \in IniKeys /\ LinesFor(f) # {}
                        THEN Converted(f, FileLines[Max(LinesFor(f))].value)
                        ELSE config_defaults[f]
          /\ (\E k \in options : argv[k] = "--daemonize") => cfg.daemonize = 1

(* The access list holds the addresses of the file, then those of the      *)
(* command line, each once per mention, as far as there is room: no later  *)
(* source empties a list, which would admit everybody, and only a list     *)
(* without any address, such as ",", leaves it empty (config.c:105,        *)
(* config.c:228, ARCHITECTURE.md:499).                                     *)
AclAccumulates ==
    pc = "serving" =>
      LET options == OptionAt
          inFile  == [k \in DOMAIN FileLines |->
                        IF k \in LinesFor("allow_ip") THEN Addresses(FileLines[k].value) ELSE <<>>]
          onLine  == [k \in DOMAIN argv |->
                        IF k \in Setting(options, "allow_ip") THEN Addresses(argv[k + 1]) ELSE <<>>]
          all     == FlattenSeq(inFile) \o FlattenSeq(onLine)
      IN  /\ IsPrefix(cfg.acl, all)
          /\ Len(cfg.acl) = Min({Len(all), ACL_MAX})
=============================================================================
