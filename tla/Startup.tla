------------------------------ MODULE Startup ------------------------------
(***************************************************************************)
(* A process from its command line to the parameters an inference runs     *)
(* with: Config, and on a server that has started, Request, which reads    *)
(* the configuration and never writes it.                                  *)
(***************************************************************************)
EXTENDS Config

CONSTANTS Bodies, Absent, NaN, Inf, MAX_MESSAGES, CONTENT_MAX, STOP_MAX, STOP_LEN

VARIABLES rpc, body, n, req, params, heap, status, oom, doubleFree

INSTANCE Request

ASSUME LimitAssumption ==
    {MAX_MESSAGES, CONTENT_MAX, STOP_MAX, STOP_LEN} \subseteq Nat \ {0}

(* Words are strings; libc reads a number from each, and a list of strings *)
(* between its commas.                                                     *)
ArgWords  == UNION {{a[k] : k \in DOMAIN a} : a \in Argvs}
FileWords == UNION {{Files[p][k].value : k \in DOMAIN Files[p]} : p \in DOMAIN Files}
Words     == ArgWords \union FileWords

ASSUME WordsAssumption ==
    /\ Argvs \subseteq Seq(STRING)
    /\ \A p \in DOMAIN Files : Files[p] \in Seq([key : STRING, value : STRING])
    /\ \A w \in Words : strtol(w) \in Int /\ Addresses(w) \in Seq(STRING)

(* What cJSON makes of a body: members of the types the code asks for, or  *)
(* Absent; numbers an int32_t cannot hold are Inf.                         *)
Text    == {Absent} \union Seq(STRING)
Number  == {Absent, Inf} \union Int
Message == [role : {Absent} \union STRING, content : Text]

Body ==
    [kind : {"chat", "completion"}, json : BOOLEAN,
     messages : {Absent} \union Seq(Message), prompt : Text,
     temperature : Number, top_p : Number, repeat_penalty : Number,
     frequency_penalty : Number, presence_penalty : Number, max_tokens : Number,
     stop : {Absent} \union [array : BOOLEAN, items : Seq(Text)], stream : BOOLEAN]

ASSUME BodiesAssumption ==
    /\ {Absent, NaN, Inf} \intersect (Int \union Seq(STRING) \union Seq(Message)) = {}
    /\ Absent # NaN /\ Absent # Inf /\ NaN # Inf
    /\ Bodies \subseteq Body
    /\ \A b \in Bodies : b.max_tokens \in Int => Truncate(b.max_tokens) \in -Half..(Half - 1)

requestVars == <<rpc, body, n, req, params, heap, status, oom, doubleFree>>

vars == <<configVars, requestVars>>

StartupInit == Init /\ RequestInit

Configure == ConfigNext /\ UNCHANGED requestVars

Serve == pc = "serving" /\ RequestNext /\ UNCHANGED configVars

Exited == pc = "exited" /\ UNCHANGED vars

StartupNext == Configure \/ Serve \/ Exited

Spec == StartupInit /\ [][StartupNext]_vars

(* The fields keep their types; integers of config_t are int32_t values    *)
(* and positions stay within what is being read.                           *)
TypeOK ==
    /\ i \in 1..(Len(argv) + 1) \union 1..(Len(FileLines) + 1)
    /\ pc \in {"flags", "open", "lines", "cli", "serving", "exited"}
    /\ DOMAIN cfg = DOMAIN config_defaults /\ Len(cfg.acl) <= ACL_MAX
    /\ \A f \in IntFields : cfg[f] \in -Half..(Half - 1)
    /\ loaded \in DOMAIN Files \union {""}
    /\ rpc \in {"idle", "nomem", "parse", "messages", "message", "prompt", "options",
                "resolve", "submit", "queued", "orphan", "lost", "error", "answered"}
    /\ body.kind \in {"none", "chat", "completion"} /\ n \in 0..MAX_MESSAGES
    /\ DOMAIN req = DOMAIN NewReq /\ req.max_tokens \in -Half..(Half - 1)
    /\ heap \subseteq {"job", "cd", "root", "messages"}
    /\ status \in {0, 400, 500, 503} /\ oom \in BOOLEAN /\ doubleFree \in BOOLEAN

(* The advice of --recommend holds on the machine it was given for         *)
(* (recommend.c:470-599).                                                  *)
AdviceSound == advice # NoAdvice => AdviceHolds(advice)
=============================================================================
