--------------------------- MODULE Startup_proof ---------------------------
(***************************************************************************)
(* Theorems about Startup, Config and Request for any command lines, INI   *)
(* files, machines, request bodies and limits.                             *)
(***************************************************************************)
EXTENDS Startup, Recommend_proof, WellFoundedInduction

-----------------------------------------------------------------------------
(* The configuration                                                       *)

Fields == Scalars \union {"acl"}

(* The fields keep their types, whatever the words say.                    *)
IsConfig(c) ==
    /\ DOMAIN c = Fields
    /\ \A f \in IntFields : c[f] \in -Half..(Half - 1)
    /\ c["acl"] \in Seq(STRING) /\ Len(c["acl"]) <= ACL_MAX

(* What main() is reading, and where.                                      *)
Reading ==
    /\ argv \in Argvs /\ pc \in {"flags", "open", "lines", "cli", "serving", "exited"}
    /\ loaded \in DOMAIN Files \union {""}
    /\ i \in 1..(Len(argv) + 1) \union 1..(Len(FileLines) + 1)
    /\ pc \in {"flags", "open"} => i = 1
    /\ pc = "lines" => loaded \in DOMAIN Files /\ i \in 1..(Len(Files[loaded]) + 1)
    /\ pc = "cli" => i \in 1..(Len(argv) + 1)

Validated == pc = "serving" => config_validate(cfg)

Advised == advice = NoAdvice \/ \E hw \in Machines : advice = hw_print_recommendations(hw)

ConfigInv == IsConfig(cfg) /\ Reading /\ Validated /\ Advised

(* Precedence, of any command line a: the positions of options, as         *)
(* OptionAt chooses them, and the file of the first --config.              *)
Positions(a) ==
    {P \in SUBSET DOMAIN a :
       \A k \in DOMAIN a : k \in P <=> ~(k - 1 \in P /\ a[k - 1] \in ValueOptions)}

Configs(a) == {k \in 1..(Len(a) - 1) : a[k] = "--config"}

FirstOf(a) == IF Configs(a) = {} THEN "" ELSE snprintf("config_file", a[Min(Configs(a)) + 1])

(* What main() may have read: a file, or none.                             *)
Readable(path) == path \in DOMAIN Files \union {""}

(* What sets a field before position p of a file or of the command line.   *)
Above(path, field, p) == {k \in DOMAIN Files[path] : Files[path][k].key = field /\ k < p}

Before(a, P, field, p) ==
    {k \in P : a[k] \in ValueOptions /\ FieldOf(a[k]) = field /\ k < p}

FromFile(path, field, p) ==
    IF path # "" /\ field \in IniKeys /\ Above(path, field, p) # {}
    THEN Converted(field, Files[path][Max(Above(path, field, p))].value)
    ELSE config_defaults[field]

Base(a, path, field) ==
    IF field = "config_file" THEN FirstOf(a)
    ELSE FromFile(path, field, Len(Files[path]) + 1)

(* Up to position p, options and their values have been told apart, and    *)
(* the configuration is c.                                                 *)
Parsing(a, P, p) ==
    /\ p <= Len(a) => p \in P
    /\ \A k \in P : k < p => a[k] \in ValueOptions \union {"--daemonize"}
    /\ \A k \in P : k < p /\ a[k] \in ValueOptions => k + 1 < p

Settled(a, P, p, c, path) ==
    /\ \A f \in Scalars \ {"daemonize"} :
         c[f] = IF Before(a, P, f, p) = {} THEN Base(a, path, f)
                ELSE Converted(f, a[Max(Before(a, P, f, p)) + 1])
    /\ (\E k \in P : k < p /\ a[k] = "--daemonize") => c["daemonize"] = 1

SoFar(a, P, p, c, path) == Parsing(a, P, p) /\ Settled(a, P, p, c, path)

Sources ==
    /\ pc = "flags" => cfg = config_defaults /\ loaded = ""
    /\ pc = "open" => /\ FirstOf(argv) # ""
                     /\ cfg = [config_defaults EXCEPT !["config_file"] = FirstOf(argv)]
    /\ pc = "lines" =>
         /\ loaded = FirstOf(argv) /\ cfg["config_file"] = FirstOf(argv)
         /\ \A f \in Scalars \ {"config_file"} : cfg[f] = FromFile(loaded, f, i)
    /\ pc \in {"cli", "serving"} => loaded = FirstOf(argv)
    /\ pc = "cli" => \A P \in Positions(argv) : SoFar(argv, P, i, cfg, loaded)
    /\ pc = "serving" => \A P \in Positions(argv) : SoFar(argv, P, Len(argv) + 1, cfg, loaded)

(* The access list: what each line of the file and each word of a command  *)
(* line contributes to it, the first n contributions in one sequence, and  *)
(* as much of that as there is room for.                                   *)
FilePart(path) ==
    IF path = "" THEN <<>>
    ELSE [k \in DOMAIN Files[path] |->
            IF Files[path][k].key = "allow_ip" THEN Addresses(Files[path][k].value) ELSE <<>>]

ArgPart(a, P) ==
    [k \in DOMAIN a |->
       IF k \in P /\ a[k] \in ValueOptions /\ FieldOf(a[k]) = "allow_ip"
       THEN Addresses(a[k + 1]) ELSE <<>>]

Flatten(s) ==
    LET flatten[k \in 1..Len(s)] == IF k = 1 THEN s[k] ELSE flatten[k - 1] \o s[k]
    IN  flatten

Gathered(s, n_) == IF n_ = 0 THEN <<>> ELSE Flatten(s)[n_]

Cap(all) == SubSeq(all, 1, Min({Len(all), ACL_MAX}))

OfFile(path) == Gathered(FilePart(path), Len(FilePart(path)))

Listed(a, P, path, p, acl) ==
    /\ OfFile(path) \in Seq(STRING) /\ Gathered(ArgPart(a, P), p - 1) \in Seq(STRING)
    /\ acl = Cap(OfFile(path) \o Gathered(ArgPart(a, P), p - 1))

Access ==
    /\ pc \in {"flags", "open"} => cfg["acl"] = <<>>
    /\ pc = "lines" => LET all == Gathered(FilePart(loaded), i - 1)
                       IN  all \in Seq(STRING) /\ cfg["acl"] = Cap(all)
    /\ pc = "cli" => \A P \in Positions(argv) : Listed(argv, P, loaded, i, cfg["acl"])
    /\ pc = "serving" =>
         \A P \in Positions(argv) : Listed(argv, P, loaded, Len(argv) + 1, cfg["acl"])

-----------------------------------------------------------------------------
(* The request                                                             *)

Entry == [role : {Absent} \union STRING, content : Seq(STRING)]
Given == Number \union {NaN}

RequestRecord ==
    [messages : {Absent} \union Seq(Entry), prompt : Seq(STRING),
     temperature : Given, top_p : Given, frequency_penalty : Given,
     presence_penalty : Given, repeat_penalty : Given,
     max_tokens : -Half..(Half - 1), stop : Seq(Seq(STRING)), stream : BOOLEAN]

(* Whose turn it is with which body.                                       *)
Turn ==
    /\ rpc \in {"idle", "nomem", "parse", "messages", "message", "prompt", "options",
                "resolve", "submit", "queued", "orphan", "lost", "error", "answered"}
    /\ req \in RequestRecord /\ n \in 0..MAX_MESSAGES /\ oom \in BOOLEAN
    /\ rpc = "idle" => body = NoBody /\ oom = FALSE
    /\ rpc # "idle" => body \in Bodies /\ pc = "serving"
    /\ rpc \in {"idle", "nomem", "parse", "messages", "prompt"} => req = NewReq /\ n = 0
    /\ rpc \in {"messages", "message"} => body.kind = "chat"
    /\ rpc \in {"prompt", "options"} => body.kind = "completion"
    /\ rpc \notin {"idle", "nomem", "parse", "error", "answered"} => body.json

(* Every block that is allocated, at every step.                           *)
Blocks ==
    /\ doubleFree = FALSE
    /\ rpc \in {"idle", "answered"} => heap = {}
    /\ rpc = "nomem" => heap \subseteq {"job", "cd"}
    /\ rpc = "parse" => heap = {"job", "cd"} /\ req.messages = Absent
    /\ rpc \in {"messages", "prompt", "options"} =>
         heap = {"job", "cd", "root"} /\ req.messages = Absent
    /\ rpc = "message" => heap = {"job", "cd", "root", "messages"} /\ req.messages # Absent
    /\ Parsed => heap = {"job", "cd"} \union MessagesOf(req)
    /\ rpc \in {"orphan", "lost"} => heap = {"job"} \union MessagesOf(req)
    /\ Parsed \/ rpc = "orphan" => (body.kind = "completion" => req.messages = Absent)
    /\ rpc = "error" => heap = {"job", "cd"} /\ req.messages = Absent

(* As much of the conversation as has been read.                           *)
Conversation ==
    /\ rpc = "message" \/ (Parsed /\ body.kind = "chat") =>
         /\ body.messages # Absent /\ Len(body.messages) \in 1..MAX_MESSAGES
         /\ n <= Len(body.messages) /\ (Parsed => n = Len(body.messages))
         /\ req.messages # Absent /\ Len(req.messages) = n
         /\ \A k \in 1..n :
              LET sent == body.messages[k]
              IN  /\ sent.role \in Roles /\ req.messages[k].role = sent.role
                  /\ req.messages[k].content =
                       IF sent.content = Absent THEN <<>> ELSE Stored(sent.content, CONTENT_MAX)
    /\ rpc = "options" \/ (Parsed /\ body.kind = "completion") =>
         body.prompt # Absent /\ req.prompt = Stored(body.prompt, CONTENT_MAX)

Members ==
    Parsed =>
      /\ req.stop = Stops(body)
      /\ req.temperature = Float(body.temperature) /\ req.top_p = Float(body.top_p)
      /\ req.repeat_penalty = Float(body.repeat_penalty)
      /\ req.frequency_penalty = IF body.kind = "chat" THEN Float(body.frequency_penalty) ELSE NaN
      /\ req.presence_penalty = IF body.kind = "chat" THEN Float(body.presence_penalty) ELSE NaN
      /\ req.max_tokens \in Int32s(body.max_tokens)

(* A refusal has its reason.                                               *)
Refused ==
    /\ status \in {0, 400, 500, 503} /\ (status # 0 => rpc = "answered")
    /\ rpc = "error" \/ status = 400 => oom \/ ~Acceptable(body)

RequestInv == Turn /\ Blocks /\ Conversation /\ Members /\ Refused /\ ParamsInRange

IInv == ConfigInv /\ RequestInv

-----------------------------------------------------------------------------
(* Operators                                                               *)

(* The minimum of two numbers.                                             *)
LEMMA MinOf ==
  ASSUME NEW a \in Int, NEW b \in Int
  PROVE  Min({a, b}) = IF a <= b THEN a ELSE b
  <1>1. \E x \in {a, b} : \A y \in {a, b} : x =< y
    OBVIOUS
  <1>2. Min({a, b}) \in {a, b} /\ \A y \in {a, b} : Min({a, b}) =< y
    BY <1>1 DEF Min
  <1>3. QED
    BY <1>2

(* A remainder is less than the modulus.                                   *)
LEMMA Modulus ==
  ASSUME NEW x \in Int, NEW m \in Nat \ {0}
  PROVE  x % m \in 0..(m - 1)
  OBVIOUS

(* The cast yields an int32_t.                                             *)
LEMMA Int32Range ==
  ASSUME NEW k \in Int
  PROVE  Int32(k) \in -Half..(Half - 1)
  <1>1. Half \in Nat /\ Half > 4096
    BY SizeAssumption
  <1>2. 2 * Half \in Nat /\ 2 * Half > 0
    BY <1>1
  <1>3. (k + Half) % (2 * Half) \in 0..(2 * Half - 1)
    <2>1. PICK m \in Nat \ {0} : m = 2 * Half
      BY <1>2
    <2>2. PICK x \in Int : x = k + Half
      BY <1>1
    <2>3. x % m \in 0..(m - 1)
      BY Modulus
    <2>4. QED
      BY <2>1, <2>2, <2>3
  <1>4. QED
    BY <1>1, <1>3 DEF Int32

(* The access list never outgrows its array.                               *)
LEMMA AclFits ==
  ASSUME NEW acl \in Seq(STRING), NEW new \in Seq(STRING)
  PROVE  AppendAcl(acl, new) \in Seq(STRING) /\ Len(AppendAcl(acl, new)) <= ACL_MAX
  <1>1. ACL_MAX \in Nat
    BY SizeAssumption
  <1> DEFINE all == acl \o new
             m   == Min({Len(acl) + Len(new), ACL_MAX})
  <1>2. all \in Seq(STRING) /\ Len(all) = Len(acl) + Len(new)
    OBVIOUS
  <1>3. m \in Nat /\ m <= Len(acl) + Len(new) /\ m <= ACL_MAX
    <2>1. PICK k \in Nat : k = Len(acl) + Len(new)
      OBVIOUS
    <2>2. m = Min({k, ACL_MAX})
      BY <2>1
    <2>3. Min({k, ACL_MAX}) = IF k <= ACL_MAX THEN k ELSE ACL_MAX
      BY <1>1, MinOf
    <2>4. QED
      BY <1>1, <2>1, <2>2, <2>3
  <1>4. AppendAcl(acl, new) = SubSeq(all, 1, m)
    BY DEF AppendAcl
  <1> HIDE DEF all, m
  <1>5. SubSeq(all, 1, m) \in Seq(STRING) /\ Len(SubSeq(all, 1, m)) = m
    BY <1>2, <1>3
  <1>6. QED
    BY <1>3, <1>4, <1>5

(* Storing a value in a field, cut or wrapped to fit it, leaves a          *)
(* configuration.                                                          *)
LEMMA SetKeeps ==
  ASSUME NEW c, IsConfig(c), NEW f \in IniKeys \union StrFields, NEW w \in Words
  PROVE  IsConfig(Set(c, f, w))
  <1>1. CASE f = "allow_ip"
    <2>1. Set(c, f, w) = [c EXCEPT !["acl"] = AppendAcl(c["acl"], Addresses(w))]
      BY <1>1 DEF Set
    <2>2. Addresses(w) \in Seq(STRING)
      BY WordsAssumption
    <2>3. AppendAcl(c["acl"], Addresses(w)) \in Seq(STRING)
          /\ Len(AppendAcl(c["acl"], Addresses(w))) <= ACL_MAX
      BY <2>2, AclFits DEF IsConfig
    <2>4. QED
      BY <2>1, <2>3 DEF IsConfig, Fields, Scalars, IntFields, FloatFields, StrFields
  <1>2. CASE f # "allow_ip"
    <2>1. Set(c, f, w) = [c EXCEPT ![f] = Converted(f, w)]
      BY <1>2 DEF Set
    <2>2. f \in Scalars
      BY <1>2 DEF IniKeys, Scalars
    <2>3. f \in IntFields => Converted(f, w) \in -Half..(Half - 1)
      <3>1. strtol(w) \in Int
        BY WordsAssumption
      <3>2. f \in IntFields => Converted(f, w) = Int32(strtol(w))
        BY DEF Converted, IntFields, FloatFields, StrFields
      <3>3. QED
        BY <3>1, <3>2, Int32Range
    <2>4. f # "acl" /\ f \in Fields
      BY <2>2 DEF Scalars, IntFields, FloatFields, StrFields, Fields
    <2> HIDE DEF Converted
    <2>5. QED
      BY <2>1, <2>3, <2>4 DEF IsConfig
  <1>3. QED
    BY <1>1, <1>2

(* So are the defaults.                                                    *)
LEMMA DefaultsFit == IsConfig(config_defaults)
  <1>1. DOMAIN config_defaults = Fields
    BY DEF config_defaults, Fields, Scalars, IntFields, FloatFields, StrFields
  <1>2. \A f \in IntFields : config_defaults[f] \in -Half..(Half - 1)
    <2>1. /\ config_defaults["n_ctx"] = 4096 /\ config_defaults["n_gpu_layers"] = 99
          /\ config_defaults["n_batch"] = 2048 /\ config_defaults["n_threads"] = 0
          /\ config_defaults["top_k"] = 40 /\ config_defaults["max_tokens"] = 512
          /\ config_defaults["max_inference_seconds"] = 300
          /\ config_defaults["stats_interval"] = 60 /\ config_defaults["daemonize"] = 0
          /\ config_defaults["log_level"] = 2
      BY DEF config_defaults
    <2>2. \A f \in IntFields : config_defaults[f] \in 0..4096
      BY <2>1 DEF IntFields
    <2>3. ASSUME NEW f \in IntFields
          PROVE  config_defaults[f] \in -Half..(Half - 1)
      <3>1. PICK k \in 0..4096 : k = config_defaults[f]
        BY <2>2
      <3>2. k \in -Half..(Half - 1)
        BY SizeAssumption
      <3>3. QED
        BY <3>1, <3>2
    <2>4. QED
      BY <2>3
  <1>3. config_defaults["acl"] = <<>>
    BY DEF config_defaults
  <1>4. QED
    BY <1>1, <1>2, <1>3, SizeAssumption DEF IsConfig

(* Every option that takes a value has a field.                            *)
LEMMA FieldOfOption ==
  ASSUME NEW a \in ValueOptions
  PROVE  FieldOf(a) \in IniKeys \union StrFields /\ <<a, FieldOf(a)>> \in Options
  <1>1. PICK o \in Options : a = o[1]
    BY DEF ValueOptions
  <1>2. o = <<o[1], o[2]>> /\ o[2] \in IniKeys \union StrFields
    BY DEF Options, IniKeys, Scalars, IntFields, FloatFields, StrFields
  <1>3. QED
    BY <1>1, <1>2 DEF FieldOf


(* The texts of a request.                                                 *)
LEMMA Sentinels ==
    /\ Absent \notin Int /\ NaN \notin Int /\ Inf \notin Int
    /\ Absent \notin Seq(STRING) /\ Absent \notin Seq(Entry)
    /\ Absent # NaN /\ Absent # Inf /\ NaN # Inf
  <1>1. Absent \notin Int /\ NaN \notin Int /\ Inf \notin Int
    BY BodiesAssumption
  <1>2. Absent \notin Seq(STRING) /\ Absent \notin Seq(Message)
    BY BodiesAssumption
  <1>3. Seq(Entry) \subseteq Seq(Message)
    <2>1. Entry \subseteq Message
      BY DEF Entry, Message, Text
    <2>2. ASSUME NEW s \in Seq(Entry)
          PROVE  s \in Seq(Message)
      <3>1. s \in [1..Len(s) -> Entry] /\ Len(s) \in Nat
        OBVIOUS
      <3>2. s \in [1..Len(s) -> Message]
        BY <2>1, <3>1
      <3>3. QED
        BY <3>1, <3>2
    <2>3. QED
      BY <2>2
  <1>4. Absent # NaN /\ Absent # Inf /\ NaN # Inf
    BY BodiesAssumption
  <1>5. QED
    BY <1>1, <1>2, <1>3, <1>4

(* The array sizes of a request are positive.                              *)
LEMMA Limits ==
    MAX_MESSAGES \in Nat \ {0} /\ CONTENT_MAX \in Nat \ {0}
    /\ STOP_MAX \in Nat \ {0} /\ STOP_LEN \in Nat \ {0}
  BY LimitAssumption

(* A text in its buffer is the text, or as much of it as fits.             *)
LEMMA StoredText ==
  ASSUME NEW text \in Seq(STRING), NEW size \in Nat \ {0}
  PROVE  /\ Stored(text, size) \in Seq(STRING)
         /\ Len(Stored(text, size)) < size
         /\ Len(text) < size => Stored(text, size) = text
         /\ ~(Len(text) < size) => Len(Stored(text, size)) = size - 1
         /\ \A k \in DOMAIN Stored(text, size) : Stored(text, size)[k] = text[k]
  <1> DEFINE m == Min({Len(text), size - 1})
  <1>1. /\ m \in Nat /\ m <= Len(text) /\ m < size /\ (Len(text) < size => m = Len(text))
        /\ ~(Len(text) < size) => m = size - 1
    <2>1. PICK a \in Nat : a = Len(text)
      OBVIOUS
    <2>2. Min({a, size - 1}) = IF a <= size - 1 THEN a ELSE size - 1
      BY MinOf
    <2>3. QED
      BY <2>1, <2>2
  <1>2. Stored(text, size) = SubSeq(text, 1, m)
    BY DEF Stored
  <1> HIDE DEF m
  <1>3. /\ SubSeq(text, 1, m) \in Seq(STRING) /\ Len(SubSeq(text, 1, m)) = m
        /\ \A k \in 1..m : SubSeq(text, 1, m)[k] = text[k]
    BY <1>1
  <1>4. m = Len(text) => SubSeq(text, 1, m) = text
    OBVIOUS
  <1>5. QED
    BY <1>1, <1>2, <1>3, <1>4

(* What is kept of a member that may be missing.                           *)
LEMMA Kept ==
  ASSUME NEW text \in Text, NEW size \in Nat \ {0}, NEW kept,
         kept = IF text = Absent THEN <<>> ELSE Stored(text, size)
  PROVE  kept \in Seq(STRING) /\ CutOnlyAtEnd(kept, text, size)
  <1>1. CASE text = Absent
    BY <1>1 DEF CutOnlyAtEnd
  <1>2. CASE text # Absent
    <2>1. text \in Seq(STRING) /\ kept = Stored(text, size)
      BY <1>2 DEF Text
    <2>2. /\ kept \in Seq(STRING) /\ Len(kept) < size
          /\ Len(text) < size => kept = text
          /\ ~(Len(text) < size) => Len(kept) = size - 1
          /\ \A k \in DOMAIN kept : kept[k] = text[k]
      BY <2>1, StoredText
    <2>3. QED
      BY <1>2, <2>2 DEF CutOnlyAtEnd
  <1>3. QED
    BY <1>1, <1>2

(* The stop sequences are the first that were sent, each as far as its     *)
(* buffer goes.                                                            *)
LEMMA StopsSent ==
  ASSUME NEW b \in Bodies
  PROVE  /\ Stops(b) \in Seq(Seq(STRING))
         /\ Len(Stops(b)) = Min({Len(Entries(b)), STOP_MAX})
         /\ \A k \in DOMAIN Stops(b) : CutOnlyAtEnd(Stops(b)[k], Entries(b)[k], STOP_LEN)
  <1>1. b.stop \in {Absent} \union [array : BOOLEAN, items : Seq(Text)]
    BY BodiesAssumption DEF Body
  <1>2. Entries(b) \in Seq(Text)
    BY <1>1 DEF Entries
  <1> DEFINE m == Min({Len(Entries(b)), STOP_MAX})
             st(k) == IF Entries(b)[k] = Absent THEN <<>> ELSE Stored(Entries(b)[k], STOP_LEN)
  <1>3. m \in Nat /\ m <= Len(Entries(b))
    <2>1. PICK a \in Nat : a = Len(Entries(b))
      BY <1>2
    <2>2. Min({a, STOP_MAX}) = IF a <= STOP_MAX THEN a ELSE STOP_MAX
      BY Limits, MinOf
    <2>3. QED
      BY <2>1, <2>2, Limits
  <1>4. Stops(b) = [k \in 1..m |-> st(k)]
    BY DEF Stops
  <1>5. ASSUME NEW k \in 1..m
        PROVE  st(k) \in Seq(STRING) /\ CutOnlyAtEnd(st(k), Entries(b)[k], STOP_LEN)
    <2>1. Entries(b)[k] \in Text
      BY <1>2, <1>3
    <2>2. QED
      BY <2>1, Limits, Kept
  <1> HIDE DEF m, st
  <1>6. Stops(b) \in Seq(Seq(STRING)) /\ Len(Stops(b)) = m /\ DOMAIN Stops(b) = 1..m
    BY <1>3, <1>4, <1>5
  <1>7. \A k \in 1..m : Stops(b)[k] = st(k)
    BY <1>4
  <1>8. QED
    BY <1>5, <1>6, <1>7 DEF m

-----------------------------------------------------------------------------
(* The numbers of a request                                                *)

(* A sampling parameter the client gave ends up in its range, and is what  *)
(* was given if that is; otherwise it is the default.                      *)
LEMMA Resolved ==
  ASSUME NEW sent \in Number, NEW default, NEW lo \in Int, NEW hi \in Int, lo <= hi
  PROVE  LET p == OrDefault(Float(sent), default, lo, hi)
         IN  IF sent = Absent THEN p = default
             ELSE p \in lo..hi /\ (sent # Inf /\ sent \in lo..hi => p = sent)
  <1>1. CASE sent = Absent
    BY <1>1 DEF OrDefault, Float
  <1>2. CASE sent = Inf
    BY <1>2, Sentinels DEF OrDefault, Float, clamp_f
  <1>3. CASE sent \in Int
    <2>1. sent # Absent /\ sent # NaN /\ sent # Inf
      BY <1>3, Sentinels
    <2>2. OrDefault(Float(sent), default, lo, hi)
            = IF sent < lo THEN lo ELSE IF sent > hi THEN hi ELSE sent
      BY <2>1 DEF OrDefault, Float, clamp_f
    <2>3. OrDefault(Float(sent), default, lo, hi) \in lo..hi
      BY <1>3, <2>2
    <2>4. sent \in lo..hi => OrDefault(Float(sent), default, lo, hi) = sent
      BY <1>3, <2>2
    <2>5. QED
      BY <2>1, <2>3, <2>4
  <1>4. QED
    BY <1>1, <1>2, <1>3 DEF Number

(* A token limit is an int32_t, whatever was sent.                         *)
LEMMA TokensFit ==
  ASSUME NEW b \in Bodies, NEW t \in Int32s(b.max_tokens)
  PROVE  t \in -Half..(Half - 1) /\ (b.max_tokens = Absent => t = -1)
  <1>1. b.max_tokens \in {Absent, Inf} \union Int
    BY BodiesAssumption DEF Body, Number
  <1>2. CASE b.max_tokens = Absent
    <2>1. t = -1
      BY <1>2 DEF Int32s
    <2>2. QED
      BY <2>1, SizeAssumption
  <1>3. CASE b.max_tokens = Inf
    <2>1. t = -Half \/ t = Half - 1
      BY <1>3, Sentinels DEF Int32s
    <2>2. -Half \in -Half..(Half - 1) /\ Half - 1 \in -Half..(Half - 1)
      BY SizeAssumption
    <2>3. QED
      BY <1>3, <2>1, <2>2, Sentinels
  <1>4. CASE b.max_tokens \in Int
    <2>1. t = Truncate(b.max_tokens)
      BY <1>4, Sentinels DEF Int32s
    <2>2. Truncate(b.max_tokens) \in -Half..(Half - 1)
      BY <1>4, BodiesAssumption
    <2>3. QED
      BY <1>4, <2>1, <2>2, Sentinels
  <1>5. QED
    BY <1>1, <1>2, <1>3, <1>4

(* So does the worker's limit stay within the context.                     *)
LEMMA TokensResolved ==
  ASSUME IsConfig(cfg), config_validate(cfg), NEW r, r.max_tokens \in -Half..(Half - 1)
  PROVE  /\ resolve_max_tokens(r) \in 1..cfg.n_ctx
         /\ r.max_tokens = -1 => resolve_max_tokens(r) = cfg.max_tokens
  <1>1. cfg.n_ctx \in Int /\ cfg.max_tokens \in Int /\ r.max_tokens \in Int
    <2>1. -Half..(Half - 1) \subseteq Int
      BY SizeAssumption
    <2>2. "n_ctx" \in IntFields /\ "max_tokens" \in IntFields
      BY DEF IntFields
    <2>3. QED
      BY <2>1, <2>2 DEF IsConfig
  <1>2. cfg.n_ctx > 0 /\ cfg.max_tokens > 0 /\ cfg.max_tokens <= cfg.n_ctx
    BY DEF config_validate
  <1>3. PICK a \in Int : a = cfg.n_ctx
    BY <1>1
  <1>4. PICK m \in Int : m = cfg.max_tokens
    BY <1>1
  <1>5. PICK x \in Int : x = r.max_tokens
    BY <1>1
  <1>6. resolve_max_tokens(r)
          = IF x = -1 THEN m ELSE IF x < 1 THEN 1 ELSE IF x > a THEN a ELSE x
    BY <1>3, <1>4, <1>5 DEF resolve_max_tokens, clamp_i
  <1>7. QED
    BY <1>2, <1>3, <1>4, <1>5, <1>6

-----------------------------------------------------------------------------
(* The invariant                                                           *)

(* A zeroed request is a request.                                          *)
LEMMA NewReqType == NewReq \in RequestRecord
  <1>1. -1 \in -Half..(Half - 1)
    BY SizeAssumption
  <1>2. <<>> \in Seq(STRING) /\ <<>> \in Seq(Seq(STRING)) /\ NaN \in Given
        /\ Absent \in {Absent} \union Seq(Entry) /\ FALSE \in BOOLEAN
    BY DEF Given
  <1>3. QED
    BY <1>1, <1>2 DEF NewReq, RequestRecord

(* Every word main() reads is one libc can.                                *)
LEMMA ArgIsWord ==
  ASSUME argv \in Argvs
  PROVE  Len(argv) \in Nat /\ \A k \in 1..Len(argv) : argv[k] \in Words
  <1>1. argv \in Seq(STRING)
    BY WordsAssumption
  <1>2. Len(argv) \in Nat /\ DOMAIN argv = 1..Len(argv)
    BY <1>1
  <1>3. ASSUME NEW k \in 1..Len(argv)
        PROVE  argv[k] \in Words
    <2>1. argv[k] \in {argv[x] : x \in DOMAIN argv}
      BY <1>2
    <2>2. {argv[x] : x \in DOMAIN argv} \in {{a[x] : x \in DOMAIN a} : a \in Argvs}
      OBVIOUS
    <2>3. QED
      BY <2>1, <2>2 DEF Words, ArgWords
  <1>4. QED
    BY <1>2, <1>3

(* A line of a file has a value, which is a word.                          *)
LEMMA LineIsWord ==
  ASSUME NEW p \in DOMAIN Files
  PROVE  Len(Files[p]) \in Nat /\ \A k \in 1..Len(Files[p]) : Files[p][k].value \in Words
  <1>1. Files[p] \in Seq([key : STRING, value : STRING])
    BY WordsAssumption
  <1>2. Len(Files[p]) \in Nat /\ DOMAIN Files[p] = 1..Len(Files[p])
    BY <1>1
  <1>3. ASSUME NEW k \in 1..Len(Files[p])
        PROVE  Files[p][k].value \in Words
    <2>1. Files[p][k].value \in {Files[p][x].value : x \in DOMAIN Files[p]}
      BY <1>2
    <2>2. {Files[p][x].value : x \in DOMAIN Files[p]}
            \in {{Files[q][x].value : x \in DOMAIN Files[q]} : q \in DOMAIN Files}
      OBVIOUS
    <2>3. Files[p][k].value \in FileWords
      BY <2>1, <2>2 DEF FileWords
    <2>4. QED
      BY <2>3 DEF Words
  <1>4. QED
    BY <1>2, <1>3

(* The invariant holds when main() starts.                                 *)
LEMMA InitIInv == StartupInit => IInv
  <1> SUFFICES ASSUME StartupInit PROVE IInv
    OBVIOUS
  <1> USE DEF StartupInit
  <1>1. IsConfig(cfg)
    BY DefaultsFit DEF Init
  <1>2. Reading
    <2>0. argv \in Argvs
      BY DEF Init
    <2>1. Len(argv) \in Nat
      BY <2>0, ArgIsWord
    <2>2. i = 1
      BY DEF Init
    <2>3. i \in 1..(Len(argv) + 1)
      BY <2>1, <2>2
    <2>4. QED
      BY <2>2, <2>3 DEF Init, Reading
  <1>3. Validated /\ Advised
    BY DEF Init, Validated, Advised
  <1>4. Turn
    <2>1. 0 \in 0..MAX_MESSAGES
      BY Limits
    <2> HIDE DEF StartupInit
    <2>2. RequestInit
      BY DEF StartupInit
    <2>3. QED
      BY <2>1, <2>2, NewReqType DEF RequestInit, Turn
  <1>5. Blocks /\ Conversation /\ Members /\ Refused /\ ParamsInRange
    BY DEF RequestInit, Blocks, Conversation, Members, Refused, ParamsInRange, Parsed
  <1>6. QED
    BY <1>1, <1>2, <1>3, <1>4, <1>5 DEF IInv, ConfigInv, RequestInv

(* Storing a value in a field that is no integer.                          *)
LEMMA OtherField ==
  ASSUME NEW c, IsConfig(c), NEW w
  PROVE  IsConfig([c EXCEPT !.config_file = w])
  BY DEF IsConfig, IntFields, Fields

(* What a step of main() leaves.                                           *)
Moved ==
    /\ IsConfig(cfg)' /\ argv' = argv /\ pc # "serving" /\ Advised'
    /\ pc' \in {"open", "lines", "cli", "serving", "exited"}
    /\ pc' = "serving" => config_validate(cfg')
    /\ loaded' \in DOMAIN Files \union {""}
    /\ i' \in 1..(Len(argv) + 1) \/ (loaded' \in DOMAIN Files
                                     /\ i' \in 1..(Len(Files[loaded']) + 1))
    /\ pc' = "open" => i' = 1
    /\ pc' = "lines" => loaded' \in DOMAIN Files /\ i' \in 1..(Len(Files[loaded']) + 1)
    /\ pc' = "cli" => i' \in 1..(Len(argv) + 1)

(* Every step of main() before it serves leaves such a state.              *)
LEMMA ConfigMoves ==
  ASSUME ConfigInv, ConfigNext
  PROVE  Moved
  <1> USE DEF ConfigInv
  <1>a. argv \in Argvs /\ Len(argv) \in Nat /\ \A k \in 1..Len(argv) : argv[k] \in Words
    BY ArgIsWord DEF Reading
  <1>b. \A p \in DOMAIN Files : p # "" /\ Len(Files[p]) \in Nat
    BY PathAssumption, LineIsWord
  <1>c. i \in 1..(Len(argv) + 1) \/ (loaded \in DOMAIN Files
                                     /\ i \in 1..(Len(Files[loaded]) + 1))
    <2>1. loaded = "" => Len(FileLines) = 0
      BY DEF FileLines
    <2>2. loaded # "" => FileLines = Files[loaded]
      BY DEF FileLines
    <2>3. i \in 1..(Len(argv) + 1) \union 1..(Len(FileLines) + 1)
          /\ loaded \in DOMAIN Files \union {""}
      BY DEF Reading
    <2>4. CASE loaded = ""
      <3>1. 1..(Len(FileLines) + 1) \subseteq 1..(Len(argv) + 1)
        <4>1. PICK x \in Nat : x = Len(argv)
          BY <1>a
        <4>2. PICK y \in Nat : y = Len(FileLines) /\ y = 0
          BY <2>1, <2>4
        <4>3. 1..(y + 1) \subseteq 1..(x + 1)
          BY <4>2
        <4>4. QED
          BY <4>1, <4>2, <4>3
      <3>2. QED
        BY <2>3, <3>1
    <2>5. CASE loaded # ""
      BY <2>2, <2>3, <2>5
    <2>6. QED
      BY <2>4, <2>5
  <1>1. CASE EarlyExit
    <2>1. Advised'
      BY <1>1 DEF EarlyExit, Advised
    <2>2. QED
      BY <1>1, <2>1, <1>c DEF EarlyExit, Exit, Reading, IsConfig, Moved
  <1>2. CASE ExtractConfig
    <2>1. IsConfig(cfg)'
      <3>1. cfg' = [cfg EXCEPT !.config_file = FirstConfig]
        BY <1>2 DEF ExtractConfig
      <3>2. IsConfig([cfg EXCEPT !.config_file = FirstConfig])
        BY OtherField
      <3>3. QED
        BY <3>1, <3>2 DEF IsConfig
    <2>2. i' = 1
      BY <1>2 DEF ExtractConfig, Reading
    <2>3. i' \in 1..(Len(argv) + 1)
      BY <2>2, <1>a
    <2>4. pc' \in {"open", "cli"}
      BY <1>2 DEF ExtractConfig
    <2>5. QED
      BY <1>2, <2>1, <2>2, <2>3, <2>4 DEF ExtractConfig, Reading, Advised, Moved
  <1>3. CASE OpenFile
    <2>1. cfg.config_file \in DOMAIN Files /\ loaded' = cfg.config_file /\ i' = i /\ i = 1
      BY <1>3 DEF OpenFile, Reading
    <2>2. Len(Files[loaded']) \in Nat
      BY <2>1, <1>b
    <2>3. i' \in 1..(Len(Files[loaded']) + 1)
      BY <2>1, <2>2
    <2>4. QED
      BY <1>3, <2>1, <2>3 DEF OpenFile, Reading, IsConfig, Advised, Moved
  <1>4. CASE NoSuchFile
    BY <1>4, <1>c DEF NoSuchFile, Exit, Reading, IsConfig, Advised, Moved
  <1>5. CASE LoadLine
    <2>1. /\ pc = "lines" /\ loaded \in DOMAIN Files /\ loaded' = loaded
          /\ i \in 1..(Len(Files[loaded]) + 1) /\ i <= Len(Files[loaded]) /\ i' = i + 1
      BY <1>5 DEF LoadLine, Reading
    <2>2. Len(Files[loaded]) \in Nat
      BY <2>1, <1>b
    <2>3. i' \in 1..(Len(Files[loaded']) + 1) /\ i \in 1..Len(Files[loaded])
      BY <2>1, <2>2
    <2>4. Files[loaded][i].value \in Words
      BY <2>1, <2>3, LineIsWord
    <2>5. IsConfig(cfg)'
      <3>1. cfg' = set_config_field(cfg, Files[loaded][i].key, Files[loaded][i].value)
        BY <1>5 DEF LoadLine
      <3>2. cfg' = cfg \/ \E f \in IniKeys : cfg' = Set(cfg, f, Files[loaded][i].value)
        BY <3>1 DEF set_config_field
      <3>3. \A f \in IniKeys : IsConfig(Set(cfg, f, Files[loaded][i].value))
        BY <2>4, SetKeeps
      <3>4. IsConfig(cfg')
        BY <3>2, <3>3
      <3>5. QED
        BY <3>4 DEF IsConfig
    <2>6. QED
      BY <1>5, <2>1, <2>3, <2>5 DEF LoadLine, Reading, Advised, Moved
  <1>6. CASE EndOfFile
    <2>1. 1 \in 1..(Len(argv) + 1)
      BY <1>a
    <2>2. QED
      BY <1>6, <2>1 DEF EndOfFile, Reading, IsConfig, Advised, Moved
  <1>7. CASE Help
    BY <1>7, <1>c DEF Help, AtArg, Exit, Reading, IsConfig, Advised, Moved
  <1>8. CASE Daemonize
    <2>1. /\ pc = "cli" /\ i \in 1..(Len(argv) + 1) /\ i <= Len(argv) /\ i' = i + 1
      BY <1>8 DEF Daemonize, AtArg, Reading
    <2>2. i' \in 1..(Len(argv) + 1)
      BY <2>1, <1>a
    <2>3. IsConfig(cfg)'
      <3>1. cfg' = [cfg EXCEPT !["daemonize"] = 1]
        BY <1>8 DEF Daemonize
      <3>2. 1 \in -Half..(Half - 1)
        BY SizeAssumption
      <3> DEFINE W == -Half..(Half - 1)
      <3>3. (\A f \in IntFields : cfg[f] \in W) /\ 1 \in W
        BY <3>2 DEF IsConfig
      <3> HIDE DEF W
      <3>4. \A f \in IntFields : cfg'[f] \in W
        BY <3>1, <3>3 DEF IsConfig, Fields, Scalars
      <3>5. DOMAIN cfg' = Fields /\ cfg'["acl"] = cfg["acl"]
        BY <3>1 DEF IsConfig
      <3>6. QED
        BY <3>4, <3>5 DEF IsConfig, W
    <2>4. QED
      BY <1>8, <2>1, <2>2, <2>3 DEF Daemonize, Reading, Advised, Moved
  <1>9. CASE BadArg
    BY <1>9, <1>c DEF BadArg, AtArg, Exit, Reading, IsConfig, Advised, Moved
  <1>10. CASE SetOption
    <2>1. /\ pc = "cli" /\ i \in 1..(Len(argv) + 1) /\ i < Len(argv) /\ i' = i + 2
          /\ argv[i] \in ValueOptions
      BY <1>10 DEF SetOption, AtArg, Arg, Reading
    <2>2. i' \in 1..(Len(argv) + 1) /\ i + 1 \in 1..Len(argv)
      BY <2>1, <1>a
    <2>3. IsConfig(cfg)'
      <3>1. cfg' = Set(cfg, FieldOf(argv[i]), argv[i + 1])
        BY <1>10 DEF SetOption, Arg
      <3>2. FieldOf(argv[i]) \in IniKeys \union StrFields
        BY <2>1, FieldOfOption
      <3>3. argv[i + 1] \in Words
        BY <2>2, <1>a
      <3>4. IsConfig(Set(cfg, FieldOf(argv[i]), argv[i + 1]))
        BY <3>2, <3>3, SetKeeps
      <3>5. IsConfig(cfg')
        BY <3>1, <3>4
      <3>6. QED
        BY <3>5 DEF IsConfig
    <2>4. QED
      BY <1>10, <2>1, <2>2, <2>3 DEF SetOption, Reading, Advised, Moved
  <1>11. CASE Validate
    BY <1>11, <1>c DEF Validate, Reading, IsConfig, Advised, Moved
  <1>12. QED
    BY <1>1, <1>2, <1>3, <1>4, <1>5, <1>6, <1>7, <1>8, <1>9, <1>10, <1>11 DEF ConfigNext

(* Every step before the server runs preserves the configuration's part of *)
(* the invariant.                                                          *)
LEMMA ConfigStep ==
  ASSUME ConfigInv, ConfigNext
  PROVE  ConfigInv' /\ pc # "serving"
  <1>1. Moved
    BY ConfigMoves
  <1>2. \A p \in DOMAIN Files : p # "" /\ Len(Files[p]) \in Nat
    BY PathAssumption, LineIsWord
  <1>3. argv \in Argvs
    BY DEF ConfigInv, Reading
  <1>4. Len(argv) \in Nat
    BY <1>3, ArgIsWord
  <1>5. FileLines' = IF loaded' = "" THEN <<>> ELSE Files[loaded']
    BY DEF FileLines
  <1>6. i' \in 1..(Len(argv') + 1) \union 1..(Len(FileLines') + 1)
    BY <1>1, <1>5, <1>2, <1>4 DEF Moved
  <1>7. Reading'
    BY <1>1, <1>6, <1>3 DEF Moved, Reading
  <1>8. Validated'
    BY <1>1 DEF Moved, Validated, config_validate
  <1>9. QED
    BY <1>1, <1>7, <1>8 DEF Moved, ConfigInv

(* The parsers touch one member of the record at a time.                   *)
LEMMA WithMessages ==
  ASSUME NEW r \in RequestRecord, NEW m \in {Absent} \union Seq(Entry)
  PROVE  /\ [r EXCEPT !.messages = m] \in RequestRecord
         /\ [r EXCEPT !.messages = m].messages = m
  BY DEF RequestRecord

(* free_messages leaves a request without messages.                        *)
LEMMA Emptied ==
  ASSUME NEW r \in RequestRecord
  PROVE  Freed(r) \in RequestRecord /\ Freed(r).messages = Absent
  BY WithMessages DEF Freed

(* An append to what has been read.                                        *)
LEMMA Appended ==
  ASSUME NEW s \in Seq(Entry), NEW e \in Entry
  PROVE  /\ Append(s, e) \in Seq(Entry) /\ Len(Append(s, e)) = Len(s) + 1
         /\ \A k \in 1..Len(s) : Append(s, e)[k] = s[k]
         /\ Append(s, e)[Len(s) + 1] = e
  OBVIOUS

(* The members of a body.                                                  *)
LEMMA BodyMembers ==
  ASSUME NEW b \in Bodies
  PROVE  /\ b.kind \in {"chat", "completion"} /\ b.json \in BOOLEAN /\ b.stream \in BOOLEAN
         /\ b.messages \in {Absent} \union Seq(Message) /\ b.prompt \in Text
         /\ b.temperature \in Number /\ b.top_p \in Number /\ b.repeat_penalty \in Number
         /\ b.frequency_penalty \in Number /\ b.presence_penalty \in Number
         /\ b.max_tokens \in Number
  BY BodiesAssumption DEF Body

(* The messages array of a body is a list of messages.                     *)
LEMMA SentMessages ==
  ASSUME NEW b \in Bodies, b.messages # Absent
  PROVE  /\ b.messages \in Seq(Message) /\ Len(b.messages) \in Nat
         /\ DOMAIN b.messages = 1..Len(b.messages)
         /\ \A k \in 1..Len(b.messages) : b.messages[k] \in Message
  <1>1. b.messages \in Seq(Message)
    BY BodyMembers
  <1>2. QED
    BY <1>1

-----------------------------------------------------------------------------
(* One step of the request                                                 *)

(* Both blocks are there, or the request is about to be refused.           *)
LEMMA NewRequestStep ==
  ASSUME RequestInv, pc = "serving", cfg' = cfg, pc' = pc, NewRequest
  PROVE  RequestInv'
  <1> USE DEF RequestInv
  <1>1. /\ rpc = "idle" /\ body' \in Bodies /\ heap = {} /\ req = NewReq /\ n = 0
        /\ doubleFree = FALSE /\ n' = n /\ req' = req /\ status' = status
        /\ doubleFree' = doubleFree
    BY DEF NewRequest, Turn, Blocks
  <1>2. /\ heap' \subseteq {"job", "cd"} /\ oom' \in BOOLEAN
        /\ rpc' = IF heap' = {"job", "cd"} THEN "parse" ELSE "nomem"
    BY <1>1 DEF NewRequest
  <1>3. rpc' \in {"nomem", "parse"} /\ (rpc' = "parse" => heap' = {"job", "cd"})
    BY <1>2
  <1>4. req.messages = Absent
    BY <1>1 DEF NewReq
  <1>5. Turn'
    BY <1>1, <1>2, <1>3 DEF Turn
  <1>6. Blocks'
    BY <1>1, <1>2, <1>3, <1>4 DEF Blocks, Parsed
  <1>7. Conversation' /\ Members' /\ ParamsInRange'
    BY <1>3 DEF Conversation, Members, ParamsInRange, Parsed
  <1>8. Refused'
    BY <1>1, <1>3 DEF Refused
  <1>9. QED
    BY <1>5, <1>6, <1>7, <1>8

(* Whichever of the two blocks was allocated is freed.                     *)
LEMMA NoMemoryStep ==
  ASSUME RequestInv, pc = "serving", cfg' = cfg, pc' = pc, NoMemory
  PROVE  RequestInv'
  <1> USE DEF RequestInv
  <1>1. /\ rpc = "nomem" /\ rpc' = "answered" /\ status' = 500 /\ doubleFree = FALSE
        /\ heap \subseteq {"job", "cd"} /\ heap' = heap \ ({"job", "cd"} \intersect heap)
        /\ doubleFree' = (doubleFree \/ ~({"job", "cd"} \intersect heap \subseteq heap))
        /\ body' = body /\ n' = n /\ req' = req /\ oom' = oom
    BY DEF NoMemory, Free, Blocks
  <1>2. heap' = {} /\ doubleFree' = FALSE
    BY <1>1
  <1>3. Turn'
    BY <1>1 DEF Turn
  <1>4. Blocks' /\ Conversation' /\ Members' /\ ParamsInRange' /\ Refused'
    BY <1>1, <1>2 DEF Blocks, Conversation, Members, ParamsInRange, Refused, Parsed
  <1>5. QED
    BY <1>3, <1>4

(* The first message is about to be read, or the body was refused.         *)
LEMMA ParseBodyStep ==
  ASSUME RequestInv, pc = "serving", cfg' = cfg, pc' = pc, ParseBody
  PROVE  RequestInv'
  <1> USE DEF RequestInv
  <1>1. /\ rpc = "parse" /\ body \in Bodies /\ req = NewReq /\ n = 0 /\ doubleFree = FALSE
        /\ heap = {"job", "cd"} /\ req.messages = Absent
        /\ heap' = heap \union (IF body.json THEN {"root"} ELSE {})
        /\ rpc' = IF ~body.json THEN "error"
                  ELSE IF body.kind = "chat" THEN "messages" ELSE "prompt"
        /\ body' = body /\ n' = n /\ req' = req /\ status' = status /\ oom' = oom
        /\ doubleFree' = doubleFree
    BY DEF ParseBody, Turn, Blocks
  <1>2. body.kind \in {"chat", "completion"} /\ body.json \in BOOLEAN
    BY <1>1, BodyMembers
  <1>3. rpc' \in {"error", "messages", "prompt"}
    BY <1>1
  <1>4. Turn'
    BY <1>1, <1>2, <1>3 DEF Turn
  <1>5. Blocks'
    BY <1>1, <1>2, <1>3 DEF Blocks, Parsed
  <1>6. Conversation' /\ Members' /\ ParamsInRange'
    BY <1>3 DEF Conversation, Members, ParamsInRange, Parsed
  <1>7. Refused'
    BY <1>1, <1>2, <1>3 DEF Refused, Acceptable
  <1>8. QED
    BY <1>4, <1>5, <1>6, <1>7

(* Missing, empty or too many messages, or no memory for them: a refusal.  *)
LEMMA NoMessagesStep ==
  ASSUME RequestInv, pc = "serving", cfg' = cfg, pc' = pc, NoMessages
  PROVE  RequestInv'
  <1> USE DEF RequestInv
  <1>1. /\ rpc = "messages" /\ rpc' = "error" /\ body \in Bodies /\ body.kind = "chat"
        /\ heap = {"job", "cd", "root"} /\ heap' = heap \ {"root"} /\ req.messages = Absent
        /\ doubleFree' = (doubleFree \/ ~({"root"} \subseteq heap)) /\ doubleFree = FALSE
        /\ body' = body /\ n' = n /\ req' = req /\ params' = params /\ status' = status
    BY DEF NoMessages, GiveUp, Free, Turn, Blocks
  <1>2. oom' \in BOOLEAN
    BY DEF NoMessages, Turn
  <1>3. oom' \/ ~Acceptable(body)
    <2>1. CASE body.messages = Absent
      BY <1>1, <2>1 DEF Acceptable
    <2>2. CASE body.messages # Absent
      <3>1. oom' \/ ~CountInRange(Len(body.messages))
        BY <2>2 DEF NoMessages
      <3>2. Len(body.messages) \in Nat
        BY <1>1, <2>2, SentMessages
      <3>3. Len(body.messages) \in 1..MAX_MESSAGES => CountInRange(Len(body.messages))
        BY <3>2, Limits DEF CountInRange
      <3>4. QED
        BY <1>1, <3>1, <3>3 DEF Acceptable
    <2>3. QED
      BY <2>1, <2>2
  <1>4. Turn'
    BY <1>1, <1>2 DEF Turn
  <1>5. Blocks'
    BY <1>1 DEF Blocks, Parsed
  <1>6. Conversation' /\ Members' /\ ParamsInRange'
    BY <1>1 DEF Conversation, Members, ParamsInRange, Parsed
  <1>7. Refused'
    <2>1. Acceptable(body)' = Acceptable(body)
      BY <1>1 DEF Acceptable
    <2>2. QED
      BY <1>1, <1>3, <2>1 DEF Refused
  <1>8. QED
    BY <1>4, <1>5, <1>6, <1>7

(* The array of messages is allocated.                                     *)
LEMMA AllocMessagesStep ==
  ASSUME RequestInv, pc = "serving", cfg' = cfg, pc' = pc, AllocMessages
  PROVE  RequestInv'
  <1> USE DEF RequestInv
  <1>1. /\ rpc = "messages" /\ rpc' = "message" /\ body \in Bodies /\ body.kind = "chat"
        /\ body.json /\ body.messages # Absent /\ CountInRange(Len(body.messages))
        /\ heap = {"job", "cd", "root"} /\ heap' = heap \union {"messages"}
        /\ req \in RequestRecord /\ req' = [req EXCEPT !.messages = <<>>] /\ n = 0
        /\ doubleFree = FALSE /\ oom \in BOOLEAN
        /\ body' = body /\ n' = n /\ params' = params /\ status' = status /\ oom' = oom
        /\ doubleFree' = doubleFree
    BY DEF AllocMessages, Turn, Blocks
  <1>2. req' \in RequestRecord /\ req'.messages = <<>>
    <2>1. <<>> \in Seq(Entry)
      OBVIOUS
    <2>2. QED
      BY <1>1, <2>1, WithMessages
  <1>3. <<>> # Absent
    <2>1. <<>> \in Seq(Entry)
      OBVIOUS
    <2>2. QED
      BY <2>1, Sentinels
  <1>4. Len(body.messages) \in 1..MAX_MESSAGES
    <2>1. Len(body.messages) \in Nat
      BY <1>1, SentMessages
    <2>2. QED
      BY <1>1, <2>1, Limits DEF CountInRange
  <1>5. Turn'
    BY <1>1, <1>2 DEF Turn
  <1>6. Blocks'
    BY <1>1, <1>2, <1>3 DEF Blocks, Parsed
  <1>7. Conversation'
    <2>1. Len(req'.messages) = 0 /\ n' = 0 /\ 1..n' = {}
      BY <1>1, <1>2
    <2>2. 0 <= Len(body.messages)
      BY <1>4, Limits
    <2>3. QED
      BY <1>1, <1>2, <1>3, <1>4, <2>1, <2>2 DEF Conversation, Parsed
  <1>8. Members' /\ ParamsInRange'
    BY <1>1 DEF Members, ParamsInRange, Parsed
  <1>9. Refused'
    BY <1>1 DEF Refused
  <1>10. QED
    BY <1>5, <1>6, <1>7, <1>8, <1>9

(* One message is read into the array, its content cut to CONTENT_MAX.     *)
LEMMA ReadMessageStep ==
  ASSUME RequestInv, pc = "serving", cfg' = cfg, pc' = pc, ReadMessage
  PROVE  RequestInv'
  <1> USE DEF RequestInv
  <1> DEFINE msg == body.messages[n + 1]
             new == [role |-> msg.role,
                     content |-> IF msg.content = Absent THEN <<>>
                                 ELSE Stored(msg.content, CONTENT_MAX)]
  <1>1. /\ rpc = "message" /\ rpc' = rpc /\ body \in Bodies /\ body.kind = "chat" /\ body.json
        /\ n < Len(body.messages) /\ n' = n + 1 /\ n \in 0..MAX_MESSAGES
        /\ msg.role \in Roles /\ req \in RequestRecord
        /\ req' = [req EXCEPT !.messages = Append(req.messages, new)]
        /\ body' = body /\ params' = params /\ heap' = heap /\ status' = status /\ oom' = oom
        /\ doubleFree' = doubleFree
    BY DEF ReadMessage, Turn
  <1>2. /\ body.messages # Absent /\ Len(body.messages) \in 1..MAX_MESSAGES
        /\ req.messages # Absent /\ Len(req.messages) = n
        /\ \A k \in 1..n :
             LET sent == body.messages[k]
             IN  /\ sent.role \in Roles /\ req.messages[k].role = sent.role
                 /\ req.messages[k].content =
                      IF sent.content = Absent THEN <<>> ELSE Stored(sent.content, CONTENT_MAX)
    BY <1>1 DEF Conversation
  <1>3. n \in Nat /\ n + 1 \in 1..Len(body.messages) /\ n + 1 \in 0..MAX_MESSAGES
        /\ n + 1 <= Len(body.messages)
    BY <1>1, <1>2, Limits
  <1>4. msg \in Message
    BY <1>1, <1>2, <1>3, SentMessages
  <1>5. new \in Entry
    <2>1. CASE msg.content = Absent
      <3>1. new.content = <<>>
        BY <2>1
      <3>2. QED
        BY <1>4, <2>1 DEF Message, Entry
    <2>2. CASE msg.content # Absent
      <3>1. msg.content \in Seq(STRING) /\ msg.role \in {Absent} \union STRING
        BY <1>4, <2>2 DEF Message, Text
      <3>2. Stored(msg.content, CONTENT_MAX) \in Seq(STRING)
        BY <3>1, Limits, StoredText
      <3>3. QED
        BY <2>2, <3>1, <3>2 DEF Entry
    <2>3. QED
      BY <2>1, <2>2
  <1>6. req.messages \in Seq(Entry)
    BY <1>1, <1>2 DEF RequestRecord
  <1>7. /\ Append(req.messages, new) \in Seq(Entry)
        /\ Len(Append(req.messages, new)) = n + 1
        /\ \A k \in 1..n : Append(req.messages, new)[k] = req.messages[k]
        /\ Append(req.messages, new)[n + 1] = new
    <2> HIDE DEF new
    <2>1. QED
      BY <1>2, <1>5, <1>6, Appended
  <1> HIDE DEF new
  <1>8. req' \in RequestRecord /\ req'.messages = Append(req.messages, new)
    BY <1>1, <1>7, WithMessages
  <1>9. req'.messages # Absent
    BY <1>7, <1>8, Sentinels
  <1>10. Turn'
    BY <1>1, <1>3, <1>8 DEF Turn
  <1>11. Blocks'
    BY <1>1, <1>9 DEF Blocks, Parsed
  <1>12. Conversation'
    <2>1. ASSUME NEW k \in 1..(n + 1)
          PROVE  LET sent == body.messages[k]
                 IN  /\ sent.role \in Roles /\ req'.messages[k].role = sent.role
                     /\ req'.messages[k].content =
                          IF sent.content = Absent THEN <<>>
                          ELSE Stored(sent.content, CONTENT_MAX)
      <3>1. CASE k \in 1..n
        <4>1. req'.messages[k] = req.messages[k]
          BY <1>7, <1>8, <3>1
        <4>2. QED
          BY <1>2, <3>1, <4>1
      <3>2. CASE k = n + 1
        <4>1. req'.messages[k] = new
          BY <1>7, <1>8, <3>2
        <4>2. new.role = body.messages[k].role
              /\ new.content = IF body.messages[k].content = Absent THEN <<>>
                               ELSE Stored(body.messages[k].content, CONTENT_MAX)
          BY <3>2 DEF new
        <4>3. QED
          BY <1>1, <3>2, <4>1, <4>2
      <3>3. QED
        BY <1>3, <3>1, <3>2
    <2>2. Len(req'.messages) = n'
      BY <1>1, <1>7, <1>8
    <2>3. n' <= Len(body'.messages)
      BY <1>1, <1>3
    <2>4. QED
      BY <1>1, <1>2, <1>9, <2>1, <2>2, <2>3 DEF Conversation, Parsed
  <1>13. Members' /\ ParamsInRange'
    BY <1>1 DEF Members, ParamsInRange, Parsed
  <1>14. Refused'
    BY <1>1 DEF Refused
  <1>15. QED
    BY <1>10, <1>11, <1>12, <1>13, <1>14

(* An unknown role frees what was read and refuses the request.            *)
LEMMA BadRoleStep ==
  ASSUME RequestInv, pc = "serving", cfg' = cfg, pc' = pc, BadRole
  PROVE  RequestInv'
  <1> USE DEF RequestInv
  <1>1. /\ rpc = "message" /\ rpc' = "error" /\ body \in Bodies /\ body.kind = "chat"
        /\ n < Len(body.messages) /\ n \in 0..MAX_MESSAGES /\ body.messages # Absent
        /\ body.messages[n + 1].role \notin Roles
        /\ heap = {"job", "cd", "root", "messages"} /\ req.messages # Absent
        /\ heap' = heap \ (MessagesOf(req) \union {"root"})
        /\ doubleFree' = (doubleFree \/ ~(MessagesOf(req) \union {"root"} \subseteq heap))
        /\ doubleFree = FALSE /\ req \in RequestRecord /\ req' = Freed(req)
        /\ body' = body /\ n' = n /\ params' = params /\ status' = status /\ oom' = oom
        /\ oom \in BOOLEAN
    BY DEF BadRole, Free, Turn, Blocks, Conversation
  <1>2. MessagesOf(req) = {"messages"}
    BY <1>1 DEF MessagesOf
  <1>3. req' \in RequestRecord /\ req'.messages = Absent
    BY <1>1, Emptied
  <1>4. ~Acceptable(body)
    <2>1. Len(body.messages) \in Nat /\ DOMAIN body.messages = 1..Len(body.messages)
      BY <1>1, SentMessages
    <2>2. n + 1 \in DOMAIN body.messages
      BY <1>1, <2>1, Limits
    <2>3. QED
      BY <1>1, <2>2 DEF Acceptable
  <1>5. Turn'
    BY <1>1, <1>3 DEF Turn
  <1>6. Blocks'
    BY <1>1, <1>2, <1>3 DEF Blocks, Parsed
  <1>7. Conversation' /\ Members' /\ ParamsInRange'
    BY <1>1 DEF Conversation, Members, ParamsInRange, Parsed
  <1>8. Refused'
    <2>1. Acceptable(body)' = Acceptable(body)
      BY <1>1 DEF Acceptable
    <2>2. QED
      BY <1>1, <1>4, <2>1 DEF Refused
  <1>9. QED
    BY <1>5, <1>6, <1>7, <1>8

(* A prompt is stored, cut to CONTENT_MAX; without one the request is      *)
(* refused.                                                                *)
LEMMA ReadPromptStep ==
  ASSUME RequestInv, pc = "serving", cfg' = cfg, pc' = pc, ReadPrompt
  PROVE  RequestInv'
  <1> USE DEF RequestInv
  <1>1. /\ rpc = "prompt" /\ body \in Bodies /\ body.kind = "completion" /\ body.json
        /\ heap = {"job", "cd", "root"} /\ req.messages = Absent /\ req \in RequestRecord
        /\ doubleFree = FALSE /\ oom \in BOOLEAN /\ n \in 0..MAX_MESSAGES
        /\ body' = body /\ n' = n /\ params' = params /\ status' = status /\ oom' = oom
    BY DEF ReadPrompt, Turn, Blocks
  <1>2. CASE body.prompt # Absent
    <2>1. /\ rpc' = "options" /\ heap' = heap /\ doubleFree' = doubleFree
          /\ req' = [req EXCEPT !.prompt = Stored(body.prompt, CONTENT_MAX)]
      BY <1>2 DEF ReadPrompt
    <2>2. Stored(body.prompt, CONTENT_MAX) \in Seq(STRING)
      <3>1. body.prompt \in Seq(STRING)
        BY <1>1, <1>2, BodyMembers DEF Text
      <3>2. QED
        BY <3>1, Limits, StoredText
    <2>3. req' \in RequestRecord /\ req'.messages = Absent
          /\ req'.prompt = Stored(body.prompt, CONTENT_MAX)
      BY <1>1, <2>1, <2>2 DEF RequestRecord
    <2>4. Turn'
      BY <1>1, <2>1, <2>3 DEF Turn
    <2>5. Blocks'
      BY <1>1, <2>1, <2>3 DEF Blocks, Parsed
    <2>6. Conversation' /\ Members' /\ ParamsInRange'
      BY <1>1, <1>2, <2>1, <2>3 DEF Conversation, Members, ParamsInRange, Parsed
    <2>7. Refused'
      BY <1>1, <2>1 DEF Refused
    <2>8. QED
      BY <2>4, <2>5, <2>6, <2>7
  <1>3. CASE body.prompt = Absent
    <2>1. /\ rpc' = "error" /\ req' = req /\ heap' = heap \ {"root"}
          /\ doubleFree' = (doubleFree \/ ~({"root"} \subseteq heap))
      BY <1>3 DEF ReadPrompt, GiveUp, Free
    <2>2. Turn'
      BY <1>1, <2>1 DEF Turn
    <2>3. Blocks'
      BY <1>1, <2>1 DEF Blocks, Parsed
    <2>4. Conversation' /\ Members' /\ ParamsInRange'
      BY <2>1 DEF Conversation, Members, ParamsInRange, Parsed
    <2>5. Refused'
      <3>1. ~Acceptable(body)'
        BY <1>1, <1>3 DEF Acceptable
      <3>2. QED
        BY <1>1, <2>1, <3>1 DEF Refused
    <2>6. QED
      BY <2>2, <2>3, <2>4, <2>5
  <1>4. QED
    BY <1>2, <1>3

(* The numbers and stop sequences of a body are read, the numbers clamped. *)
LEMMA ReadOptionsStep ==
  ASSUME RequestInv, pc = "serving", cfg' = cfg, pc' = pc, ReadOptions
  PROVE  RequestInv'
  <1> USE DEF RequestInv
  <1>1. /\ rpc = "options" \/ (rpc = "message" /\ n = Len(body.messages))
        /\ rpc' = "resolve" /\ body \in Bodies /\ body.json
        /\ rpc = "options" => body.kind = "completion" /\ req.messages = Absent
                              /\ heap = {"job", "cd", "root"}
        /\ rpc = "message" => body.kind = "chat" /\ req.messages # Absent
                              /\ heap = {"job", "cd", "root", "messages"}
        /\ req \in RequestRecord /\ n \in 0..MAX_MESSAGES
        /\ heap' = heap \ {"root"}
        /\ doubleFree' = (doubleFree \/ ~({"root"} \subseteq heap)) /\ doubleFree = FALSE
        /\ body' = body /\ n' = n /\ params' = params /\ status' = status /\ oom' = oom
        /\ oom \in BOOLEAN
    BY DEF ReadOptions, Free, Turn, Blocks
  <1>2. PICK max_tokens \in Int32s(body.max_tokens) :
          req' = [req EXCEPT
                    !.temperature = Float(body.temperature), !.top_p = Float(body.top_p),
                    !.repeat_penalty = Float(body.repeat_penalty),
                    !.frequency_penalty =
                       IF body.kind = "chat" THEN Float(body.frequency_penalty) ELSE NaN,
                    !.presence_penalty =
                       IF body.kind = "chat" THEN Float(body.presence_penalty) ELSE NaN,
                    !.max_tokens = max_tokens, !.stop = Stops(body), !.stream = body.stream]
    BY DEF ReadOptions
  <1>3. /\ Float(body.temperature) \in Given /\ Float(body.top_p) \in Given
        /\ Float(body.repeat_penalty) \in Given /\ Float(body.frequency_penalty) \in Given
        /\ Float(body.presence_penalty) \in Given /\ NaN \in Given
    BY <1>1, BodyMembers DEF Float, Given
  <1>4. max_tokens \in -Half..(Half - 1) /\ Stops(body) \in Seq(Seq(STRING))
        /\ body.stream \in BOOLEAN
    BY <1>1, TokensFit, StopsSent, BodyMembers
  <1>5. /\ req' \in RequestRecord /\ req'.messages = req.messages /\ req'.prompt = req.prompt
        /\ req'.stop = Stops(body) /\ req'.max_tokens = max_tokens
        /\ req'.temperature = Float(body.temperature) /\ req'.top_p = Float(body.top_p)
        /\ req'.repeat_penalty = Float(body.repeat_penalty)
        /\ req'.frequency_penalty
             = IF body.kind = "chat" THEN Float(body.frequency_penalty) ELSE NaN
        /\ req'.presence_penalty
             = IF body.kind = "chat" THEN Float(body.presence_penalty) ELSE NaN
    <2> DEFINE W == -Half..(Half - 1)
    <2>1. max_tokens \in W /\ req \in RequestRecord
      BY <1>1, <1>4
    <2> HIDE DEF W
    <2>2. RequestRecord =
            [messages : {Absent} \union Seq(Entry), prompt : Seq(STRING),
             temperature : Given, top_p : Given, frequency_penalty : Given,
             presence_penalty : Given, repeat_penalty : Given,
             max_tokens : W, stop : Seq(Seq(STRING)), stream : BOOLEAN]
      BY DEF RequestRecord, W
    <2>3. QED
      BY <1>2, <1>3, <1>4, <2>1, <2>2
  <1>6. Turn'
    BY <1>1, <1>5 DEF Turn
  <1>7. Blocks'
    BY <1>1, <1>5 DEF Blocks, Parsed, MessagesOf
  <1>8. Conversation'
    BY <1>1, <1>5 DEF Conversation, Parsed
  <1>9. Members'
    <2>1. Stops(body)' = Stops(body)
      BY <1>1 DEF Stops, Entries
    <2>2. QED
      BY <1>1, <1>5, <2>1 DEF Members
  <1>10. Refused' /\ ParamsInRange'
    BY <1>1 DEF Refused, ParamsInRange
  <1>11. QED
    BY <1>6, <1>7, <1>8, <1>9, <1>10

(* Every parameter comes from the request if the client gave one, else     *)
(* from a configuration that was found valid.                              *)
LEMMA ResolveStep ==
  ASSUME RequestInv, IsConfig(cfg), config_validate(cfg), pc = "serving",
         cfg' = cfg, pc' = pc, Resolve
  PROVE  RequestInv'
  <1> USE DEF RequestInv
  <1>1. /\ rpc = "resolve" /\ rpc' = "submit" /\ body \in Bodies
        /\ body' = body /\ n' = n /\ req' = req /\ heap' = heap /\ status' = status /\ oom' = oom
        /\ doubleFree' = doubleFree /\ oom \in BOOLEAN
    BY DEF Resolve, Turn
  <1>2. Turn'
    BY <1>1 DEF Turn
  <1>3. Blocks' /\ Conversation'
    BY <1>1 DEF Blocks, Conversation, Parsed
  <1>4. Members'
    <2>1. Stops(body)' = Stops(body)
      BY <1>1 DEF Stops, Entries
    <2>2. QED
      BY <1>1, <2>1 DEF Members, Parsed
  <1>5. Refused'
    BY <1>1 DEF Refused
  <1>6. ParamsInRange'
    <2> DEFINE chat(v) == IF body.kind = "chat" THEN v ELSE Absent
               sound(p, sent, default, lo, hi) ==
                 IF sent = Absent THEN p = default
                 ELSE p \in lo..hi /\ (sent # Inf /\ sent \in lo..hi => p = sent)
    <2>1. /\ req.temperature = Float(body.temperature) /\ req.top_p = Float(body.top_p)
          /\ req.repeat_penalty = Float(body.repeat_penalty)
          /\ req.frequency_penalty = Float(chat(body.frequency_penalty))
          /\ req.presence_penalty = Float(chat(body.presence_penalty))
          /\ req.max_tokens \in Int32s(body.max_tokens)
      BY <1>1 DEF Members, Parsed, Float
    <2>2. /\ body.temperature \in Number /\ body.top_p \in Number /\ body.repeat_penalty \in Number
          /\ chat(body.frequency_penalty) \in Number /\ chat(body.presence_penalty) \in Number
      BY <1>1, BodyMembers DEF Number
    <2> HIDE DEF chat
    <2>3. /\ params'.temperature = OrDefault(req.temperature, cfg.temperature, 0, 200)
          /\ params'.top_p = OrDefault(req.top_p, cfg.top_p, 1, 100)
          /\ params'.repeat_penalty = OrDefault(req.repeat_penalty, cfg.repeat_penalty, 100, 200)
          /\ params'.frequency_penalty = OrDefault(req.frequency_penalty, 0, 0, 200)
          /\ params'.presence_penalty = OrDefault(req.presence_penalty, 0, 0, 200)
          /\ params'.max_tokens = resolve_max_tokens(req)
      BY DEF Resolve
    <2>4. /\ params'.max_tokens \in 1..cfg.n_ctx
          /\ body.max_tokens = Absent => params'.max_tokens = cfg.max_tokens
      <3>1. req.max_tokens \in -Half..(Half - 1)
            /\ (body.max_tokens = Absent => req.max_tokens = -1)
        BY <1>1, <2>1, TokensFit
      <3>2. QED
        BY <2>3, <3>1, TokensResolved
    <2>5. sound(params'.temperature, body.temperature, cfg.temperature, 0, 200)
      BY <2>1, <2>2, <2>3, Resolved
    <2>6. sound(params'.top_p, body.top_p, cfg.top_p, 1, 100)
      BY <2>1, <2>2, <2>3, Resolved
    <2>7. sound(params'.repeat_penalty, body.repeat_penalty, cfg.repeat_penalty, 100, 200)
      BY <2>1, <2>2, <2>3, Resolved
    <2>8. sound(params'.frequency_penalty, chat(body.frequency_penalty), 0, 0, 200)
      BY <2>1, <2>2, <2>3, Resolved
    <2>9. sound(params'.presence_penalty, chat(body.presence_penalty), 0, 0, 200)
      BY <2>1, <2>2, <2>3, Resolved
    <2>10. QED
      BY <1>1, <2>4, <2>5, <2>6, <2>7, <2>8, <2>9 DEF ParamsInRange, chat
  <1>7. QED
    BY <1>2, <1>3, <1>4, <1>5, <1>6

(* Whoever frees the job frees all that is left of it.                     *)
LEMMA JobFreed ==
  ASSUME Turn, Blocks, Parsed \/ rpc = "error", FreeJob, body' = body
  PROVE  /\ rpc' = "answered" /\ heap' = {} /\ doubleFree' = FALSE
         /\ req' \in RequestRecord
  <1>1. heap = {"job", "cd"} \union MessagesOf(req) /\ doubleFree = FALSE
    BY DEF Blocks, MessagesOf, Parsed
  <1>2. body \in Bodies
    BY DEF Turn, Parsed
  <1>3. body.kind = "chat" \/ MessagesOf(req) = {}
    <2>1. body.kind \in {"chat", "completion"}
      BY <1>2, BodyMembers
    <2>2. QED
      BY <2>1 DEF Blocks, Parsed, MessagesOf
  <1>4. req' \in RequestRecord
    BY Emptied DEF FreeJob, Turn
  <1>5. QED
    BY <1>1, <1>3, <1>4 DEF FreeJob, Free

(* A job that is answered or refused is freed, with the messages of a      *)
(* chat.                                                                   *)
LEMMA AnsweredStep ==
  ASSUME RequestInv, pc = "serving", cfg' = cfg, pc' = pc,
         Parsed \/ rpc = "error", FreeJob, body' = body, n' = n, params' = params, oom' = oom,
         status' = status \/ status' = 503 \/ (status' = 400 /\ rpc = "error")
  PROVE  RequestInv'
  <1> USE DEF RequestInv
  <1>1. /\ rpc' = "answered" /\ heap' = {} /\ doubleFree' = FALSE /\ req' \in RequestRecord
    BY JobFreed
  <1>2. Turn'
    BY <1>1 DEF Turn, Parsed
  <1>3. Blocks' /\ Conversation' /\ Members' /\ ParamsInRange'
    BY <1>1 DEF Blocks, Conversation, Members, ParamsInRange, Parsed
  <1>4. Refused'
    <2>1. Acceptable(body)' = Acceptable(body)
      BY DEF Acceptable
    <2>2. QED
      BY <1>1, <2>1 DEF Refused, Parsed
  <1>5. QED
    BY <1>2, <1>3, <1>4

(* worker_submit takes the job, or the job is freed and the request        *)
(* answered.                                                               *)
LEMMA SubmitStep ==
  ASSUME RequestInv, pc = "serving", cfg' = cfg, pc' = pc, Submit
  PROVE  RequestInv'
  <1>1. /\ rpc = "submit" /\ body' = body /\ n' = n /\ params' = params /\ oom' = oom
    BY DEF Submit
  <1>2. CASE rpc' = "queued" /\ req' = req /\ heap' = heap /\ status' = status
             /\ doubleFree' = doubleFree
    <2> USE DEF RequestInv
    <2>1. Turn'
      BY <1>1, <1>2 DEF Turn
    <2>2. Blocks' /\ Conversation'
      BY <1>1, <1>2 DEF Blocks, Conversation, Parsed
    <2>3. Members'
      <3>1. Stops(body)' = Stops(body)
        BY <1>1 DEF Stops, Entries
      <3>2. QED
        BY <1>1, <1>2, <3>1 DEF Members, Parsed
    <2>4. Refused'
      BY <1>1, <1>2 DEF Refused
    <2>5. ParamsInRange'
      BY <1>1, <1>2 DEF ParamsInRange
    <2>6. QED
      BY <2>1, <2>2, <2>3, <2>4, <2>5
  <1>3. CASE FreeJob /\ status' = 503
    BY <1>1, <1>3, AnsweredStep DEF Parsed
  <1>4. QED
    BY <1>2, <1>3 DEF Submit

(* A client that leaves takes its connection data along.                   *)
LEMMA CloseStep ==
  ASSUME RequestInv, pc = "serving", cfg' = cfg, pc' = pc, Close
  PROVE  RequestInv'
  <1> USE DEF RequestInv
  <1>1. /\ rpc = "queued" /\ rpc' \in {"orphan", "lost"} /\ doubleFree = FALSE
        /\ heap = {"job", "cd"} \union MessagesOf(req) /\ heap' = heap \ {"cd"}
        /\ doubleFree' = (doubleFree \/ ~({"cd"} \subseteq heap))
        /\ body' = body /\ n' = n /\ req' = req /\ status' = status /\ oom' = oom
        /\ body.kind = "completion" => req.messages = Absent
    BY DEF Close, Free, Blocks, Parsed
  <1>2. "cd" \notin MessagesOf(req) /\ MessagesOf(req)' = MessagesOf(req)
    BY <1>1 DEF MessagesOf
  <1>3. heap' = {"job"} \union MessagesOf(req)' /\ doubleFree' = FALSE
    BY <1>1, <1>2
  <1>4. Turn'
    BY <1>1 DEF Turn
  <1>5. Blocks'
    BY <1>1, <1>3 DEF Blocks, Parsed
  <1>6. Conversation' /\ Members' /\ ParamsInRange' /\ Refused'
    BY <1>1 DEF Conversation, Members, ParamsInRange, Refused, Parsed
  <1>7. QED
    BY <1>4, <1>5, <1>6

(* The worker frees all that an orphan has.                                *)
LEMMA FreeOrphanStep ==
  ASSUME RequestInv, pc = "serving", cfg' = cfg, pc' = pc, FreeOrphan
  PROVE  RequestInv'
  <1> USE DEF RequestInv
  <1>1. /\ rpc = "orphan" /\ rpc' = "answered" /\ doubleFree = FALSE
        /\ heap = {"job"} \union MessagesOf(req) /\ body \in Bodies /\ req \in RequestRecord
        /\ body.kind = "completion" => req.messages = Absent
        /\ body' = body /\ n' = n /\ status' = status /\ oom' = oom
    BY DEF FreeOrphan, Turn, Blocks
  <1>2. body.kind = "chat" \/ MessagesOf(req) = {}
    <2>1. body.kind \in {"chat", "completion"}
      BY <1>1, BodyMembers
    <2>2. QED
      BY <1>1, <2>1 DEF MessagesOf
  <1>3. heap' = {} /\ doubleFree' = FALSE
    BY <1>1, <1>2 DEF FreeOrphan, Free
  <1>4. req' \in RequestRecord
    BY <1>1, Emptied DEF FreeOrphan
  <1>5. Turn'
    BY <1>1, <1>4 DEF Turn
  <1>6. Blocks' /\ Conversation' /\ Members' /\ ParamsInRange' /\ Refused'
    BY <1>1, <1>3 DEF Blocks, Conversation, Members, ParamsInRange, Refused, Parsed
  <1>7. QED
    BY <1>5, <1>6

(* The process is through with a request.                                  *)
LEMMA ForgetStep ==
  ASSUME RequestInv, pc = "serving", cfg' = cfg, pc' = pc, Forget
  PROVE  RequestInv'
  <1> USE DEF RequestInv
  <1>1. /\ rpc' = "idle" /\ body' = NoBody /\ n' = 0 /\ req' = NewReq
        /\ status' = 0 /\ oom' = FALSE /\ heap' = {} /\ doubleFree' = FALSE
    BY DEF Forget, Blocks
  <1>2. Turn'
    <2>1. 0 \in 0..MAX_MESSAGES
      BY Limits
    <2>2. QED
      BY <1>1, <2>1, NewReqType DEF Turn
  <1>3. QED
    BY <1>1, <1>2 DEF Blocks, Conversation, Members, Refused, ParamsInRange, Parsed

-----------------------------------------------------------------------------
(* Any step                                                                *)

(* Every step of a request preserves the invariant: the configuration is   *)
(* left alone.                                                             *)
LEMMA ServeStep ==
  ASSUME IInv, Serve
  PROVE  IInv'
  <1> USE DEF IInv
  <1>1. /\ pc = "serving" /\ RequestNext /\ argv' = argv /\ pc' = pc /\ i' = i /\ cfg' = cfg
        /\ loaded' = loaded /\ advice' = advice
    BY DEF Serve, configVars
  <1>2. ConfigInv'
    BY <1>1 DEF ConfigInv, IsConfig, Reading, FileLines, Validated, config_validate, Advised
  <1>3. IsConfig(cfg) /\ config_validate(cfg)
    BY <1>1 DEF ConfigInv, Validated
  <1>4. CASE NewRequest
    BY <1>1, <1>4, NewRequestStep, <1>2
  <1>5. CASE NoMessages
    BY <1>1, <1>5, NoMessagesStep, <1>2
  <1>6. CASE AllocMessages
    BY <1>1, <1>6, AllocMessagesStep, <1>2
  <1>7. CASE ReadMessage
    BY <1>1, <1>7, ReadMessageStep, <1>2
  <1>8. CASE BadRole
    BY <1>1, <1>8, BadRoleStep, <1>2
  <1>9. CASE ReadPrompt
    BY <1>1, <1>9, ReadPromptStep, <1>2
  <1>10. CASE ReadOptions
    BY <1>1, <1>10, ReadOptionsStep, <1>2
  <1>11. CASE Resolve
    BY <1>1, <1>3, <1>11, ResolveStep, <1>2
  <1>12. CASE Refuse
    <2>1. /\ rpc = "error" /\ FreeJob /\ status' = 400 /\ body' = body /\ n' = n
          /\ params' = params /\ oom' = oom
      BY <1>12 DEF Refuse
    <2>2. QED
      BY <1>1, <1>2, <2>1, AnsweredStep
  <1>13. CASE Submit
    BY <1>1, <1>13, SubmitStep, <1>2
  <1>14. CASE Finish
    <2>1. /\ Parsed /\ FreeJob /\ status' = status /\ body' = body /\ n' = n
          /\ params' = params /\ oom' = oom
      BY <1>14 DEF Finish, Parsed
    <2>2. QED
      BY <1>1, <1>2, <2>1, AnsweredStep
  <1>15. CASE Forget
    BY <1>1, <1>15, ForgetStep, <1>2
  <1>16. CASE NoMemory
    BY <1>1, <1>16, NoMemoryStep, <1>2
  <1>17. CASE ParseBody
    BY <1>1, <1>17, ParseBodyStep, <1>2
  <1>18. CASE Close
    BY <1>1, <1>18, CloseStep, <1>2
  <1>19. CASE FreeOrphan
    BY <1>1, <1>19, FreeOrphanStep, <1>2
  <1>20. QED
    BY <1>1, <1>4, <1>5, <1>6, <1>7, <1>8, <1>9, <1>10, <1>11, <1>12, <1>13, <1>14, <1>15,
       <1>16, <1>17, <1>18, <1>19 DEF RequestNext

(* The configuration never changes while a request is read, and a process  *)
(* that is configured has none.                                            *)
LEMMA ConfigureStep ==
  ASSUME IInv, Configure
  PROVE  IInv'
  <1> USE DEF IInv
  <1>1. ConfigInv' /\ pc # "serving"
    BY ConfigStep DEF Configure
  <1>2. /\ rpc' = rpc /\ body' = body /\ n' = n /\ req' = req /\ params' = params
        /\ heap' = heap /\ status' = status /\ oom' = oom /\ doubleFree' = doubleFree
    BY DEF Configure, requestVars
  <1>3. rpc = "idle"
    BY <1>1 DEF RequestInv, Turn
  <1>4. RequestInv'
    BY <1>2, <1>3
       DEF RequestInv, Turn, Blocks, Conversation, Members, Refused, ParamsInRange, Parsed
  <1>5. QED
    BY <1>1, <1>4

(* A stutter preserves the invariant.                                      *)
LEMMA StutterStep ==
  ASSUME IInv, UNCHANGED vars
  PROVE  IInv'
  <1> USE DEF IInv, vars, configVars, requestVars
  <1>1. ConfigInv'
    BY DEF ConfigInv, IsConfig, Reading, FileLines, Validated, config_validate, Advised
  <1>2. Turn' /\ Blocks' /\ Conversation'
    BY DEF RequestInv, Turn, Blocks, Conversation, Parsed
  <1>3. Members'
    BY DEF RequestInv, Members, Parsed, Stops, Entries
  <1>4. Refused'
    BY DEF RequestInv, Refused, Acceptable
  <1>5. ParamsInRange'
    BY DEF RequestInv, ParamsInRange
  <1>6. QED
    BY <1>1, <1>2, <1>3, <1>4, <1>5 DEF RequestInv

(* The invariant holds in every reachable state.                           *)
LEMMA Invariance == Spec => []IInv
  <1>1. IInv /\ [StartupNext]_vars => IInv'
    BY ConfigureStep, ServeStep, StutterStep DEF StartupNext, Exited
  <1>2. QED
    BY InitIInv, <1>1, PTL DEF Spec

-----------------------------------------------------------------------------
(* Precedence: sets of positions                                           *)

(* Any set of naturals has a least, and if it is bounded a greatest one.   *)
LEMMA Least ==
  ASSUME NEW S \in SUBSET Nat, S # {}
  PROVE  \E m \in S : \A j \in S : m <= j
  <1> DEFINE R == {ss \in Nat \X Nat : ss[1] < ss[2]}
  <1>1. IsWellFoundedOn(R, Nat)
    BY NatLessThanWellFounded DEF OpToRel
  <1>2. \A x, y \in S : y < x => <<y, x>> \in R
    OBVIOUS
  <1> HIDE DEF R
  <1>3. S \subseteq Nat
    OBVIOUS
  <1>4. PICK x \in S : \A y \in S : ~ (<<y, x>> \in R)
    BY <1>1, <1>3, WFMin, Zenon
  <1>5. \A y \in S : ~ (y < x)
    BY <1>2, <1>4, Zenon
  <1>6. \A y \in S : x <= y
    BY <1>5
  <1>7. QED
    BY <1>6

(* A nonempty set of numbers up to b has a greatest element.               *)
LEMMA Greatest ==
  ASSUME NEW b \in Nat, NEW S \in SUBSET (0..b), S # {}
  PROVE  \E m \in S : \A j \in S : j <= m
  <1> DEFINE U == {u \in Nat : \A j \in S : j <= u}
  <1>1. b \in U
    OBVIOUS
  <1>2. PICK u \in U : \A x \in U : u <= x
    BY <1>1, Least
  <1>3. u \in S
    <2>1. SUFFICES ASSUME u \notin S PROVE FALSE
      OBVIOUS
    <2>2. \A j \in S : j <= u - 1
      BY <2>1
    <2>3. u - 1 \in U
      <3>1. PICK j \in S : TRUE
        OBVIOUS
      <3>2. j \in Nat /\ u \in Nat /\ j <= u - 1
        BY <2>2
      <3>3. u - 1 \in Nat
        BY <3>2
      <3>4. QED
        BY <2>2, <3>3
    <2>4. QED
      BY <1>2, <2>3
  <1>4. QED
    BY <1>3

(* Min of a set is its lower bound in the set.                             *)
LEMMA MinIsLeast ==
  ASSUME NEW S \in SUBSET Int, NEW m \in S, \A j \in S : m <= j
  PROVE  Min(S) = m
  <1>1. Min(S) \in S /\ \A y \in S : Min(S) <= y
    BY DEF Min
  <1>2. PICK x \in S : x = Min(S)
    BY <1>1
  <1>3. x \in Int /\ m \in Int /\ x <= m /\ m <= x
    BY <1>1, <1>2
  <1>4. QED
    BY <1>2, <1>3

(* Max of a set is its upper bound in the set.                             *)
LEMMA MaxIsGreatest ==
  ASSUME NEW S \in SUBSET Int, NEW m \in S, \A j \in S : j <= m
  PROVE  Max(S) = m
  <1>1. Max(S) \in S /\ \A y \in S : Max(S) >= y
    BY DEF Max
  <1>2. PICK x \in S : x = Max(S)
    BY <1>1
  <1>3. x \in Int /\ m \in Int /\ x >= m /\ m >= x
    BY <1>1, <1>2
  <1>4. QED
    BY <1>2, <1>3

(* Some set of positions of options exists, whatever the words are.        *)
LEMMA PositionsExist ==
  ASSUME NEW a \in Argvs
  PROVE  Positions(a) # {}
  <1> DEFINE Marks(P, m) == /\ P \subseteq 1..m
                          /\ \A k \in 1..m :
                               k \in P <=> ~(k - 1 \in P /\ a[k - 1] \in ValueOptions)
             Bad == {m \in Nat : \A P \in SUBSET (1..m) : ~Marks(P, m)}
  <1>1. Bad = {}
    <2>1. SUFFICES ASSUME Bad # {} PROVE FALSE
      OBVIOUS
    <2>2. PICK m \in Bad : \A j \in Bad : m <= j
      BY <2>1, Least
    <2>3. m # 0
      <3>1. Marks({}, 0)
        OBVIOUS
      <3>2. QED
        BY <3>1
    <2>4. m - 1 \in Nat /\ m - 1 \notin Bad
      <3>1. m \in Nat /\ m - 1 \in Nat /\ ~(m <= m - 1)
        BY <2>2, <2>3
      <3> HIDE DEF Bad
      <3>2. QED
        BY <2>2, <3>1
    <2>5. PICK P \in SUBSET (1..(m - 1)) : Marks(P, m - 1)
      BY <2>4
    <2> DEFINE Q == IF m - 1 \in P /\ a[m - 1] \in ValueOptions THEN P ELSE P \union {m}
    <2>6. Q \in SUBSET (1..m) /\ m \notin P /\ \A k \in 1..(m - 1) : k \in Q <=> k \in P
      BY <2>3, <2>4, <2>5
    <2>7. m \in Q <=> ~(m - 1 \in P /\ a[m - 1] \in ValueOptions)
      BY <2>6
    <2>8. \A k \in 1..m : k - 1 \in Q <=> k - 1 \in P
      BY <2>5, <2>6
    <2> HIDE DEF Q
    <2>9. Marks(Q, m)
      <3>1. ASSUME NEW k \in 1..m
            PROVE  k \in Q <=> ~(k - 1 \in Q /\ a[k - 1] \in ValueOptions)
        <4>1. CASE k = m
          BY <2>7, <2>8, <4>1
        <4>2. CASE k # m
          <5>1. k \in 1..(m - 1)
            BY <4>2
          <5>2. QED
            BY <2>5, <2>6, <2>8, <5>1
        <4>3. QED
          BY <4>1, <4>2
      <3>2. QED
        BY <2>6, <3>1
    <2>10. QED
      BY <2>6, <2>9
  <1>2. a \in Seq(STRING)
    BY WordsAssumption
  <1>3. DOMAIN a = 1..Len(a) /\ Len(a) \in Nat
    BY <1>2
  <1>4. PICK P \in SUBSET (1..Len(a)) : Marks(P, Len(a))
    BY <1>1, <1>3
  <1>5. P \in Positions(a)
    BY <1>3, <1>4 DEF Positions
  <1>6. QED
    BY <1>5

(* Where the options of a command line stand: a word is one unless it is   *)
(* the value of the one before it.                                         *)
LEMMA PositionIs ==
  ASSUME NEW a \in Argvs, NEW P \in Positions(a)
  PROVE  /\ Len(a) \in Nat /\ DOMAIN a = 1..Len(a) /\ P \subseteq 1..Len(a)
         /\ \A k \in 1..Len(a) : k \in P <=> ~(k - 1 \in P /\ a[k - 1] \in ValueOptions)
  <1>1. a \in Seq(STRING)
    BY WordsAssumption
  <1>2. DOMAIN a = 1..Len(a) /\ Len(a) \in Nat
    BY <1>1
  <1>3. QED
    BY <1>2 DEF Positions

(* The fields of options.                                                  *)
LEMMA FieldOfConfig ==
  ASSUME NEW a \in ValueOptions
  PROVE  FieldOf(a) # "daemonize" /\ (FieldOf(a) = "config_file" <=> a = "--config")
  <1>1. <<a, FieldOf(a)>> \in Options
    BY FieldOfOption
  <1>2. \A o \in Options : o[2] # "daemonize" /\ (o[2] = "config_file" <=> o[1] = "--config")
    BY DEF Options
  <1>3. QED
    BY <1>1, <1>2

(* The first word is an option.                                            *)
LEMMA FirstOption ==
  ASSUME NEW a \in Argvs, NEW P \in Positions(a)
  PROVE  Parsing(a, P, 1) /\ \A f : Before(a, P, f, 1) = {}
  <1>1. \A k \in P : k \in Nat /\ ~(k < 1)
    BY PositionIs
  <1>2. 1 <= Len(a) => 1 \in P
    <2>1. 0 \notin P
      BY PositionIs
    <2>2. QED
      BY <2>1, PositionIs
  <1>3. QED
    BY <1>1, <1>2 DEF Parsing, Before

(* After an option with its value comes an option, and nothing but it has  *)
(* been added to what is set.                                              *)
LEMMA NextOption ==
  ASSUME NEW a \in Argvs, NEW P \in Positions(a), NEW p \in 1..Len(a), Parsing(a, P, p),
         a[p] \in ValueOptions, p < Len(a)
  PROVE  /\ Parsing(a, P, p + 2)
         /\ \A f : Before(a, P, f, p + 2) = Before(a, P, f, p)
                                             \union (IF f = FieldOf(a[p]) THEN {p} ELSE {})
         /\ \A k \in P : k < p + 2 => k < p \/ k = p
  <1>1. /\ p \in P /\ Len(a) \in Nat /\ p \in Nat
        /\ \A k \in P : k \in Nat /\ k <= Len(a)
    BY PositionIs DEF Parsing
  <1>2. p + 1 \notin P
    <2>1. p + 1 \in 1..Len(a) /\ (p + 1) - 1 = p
      BY <1>1
    <2>2. QED
      BY <1>1, <2>1, PositionIs
  <1>3. p + 2 <= Len(a) => p + 2 \in P
    <2>1. p + 2 <= Len(a) => p + 2 \in 1..Len(a) /\ (p + 2) - 1 = p + 1
      BY <1>1
    <2>2. QED
      BY <1>2, <2>1, PositionIs
  <1>4. \A k \in P : k < p + 2 <=> k < p \/ k = p
    BY <1>1, <1>2
  <1>5. Parsing(a, P, p + 2)
    <2>1. ASSUME NEW k \in P, k < p + 2
          PROVE  /\ a[k] \in ValueOptions \union {"--daemonize"}
                 /\ a[k] \in ValueOptions => k + 1 < p + 2
      <3>1. CASE k < p
        <4>1. a[k] \in ValueOptions => k + 1 < p
          BY <3>1 DEF Parsing
        <4>2. QED
          BY <1>1, <3>1, <4>1 DEF Parsing
      <3>2. CASE k = p
        BY <1>1, <3>2
      <3>3. QED
        BY <1>4, <2>1, <3>1, <3>2
    <2>2. QED
      BY <1>3, <2>1 DEF Parsing
  <1>6. \A f : Before(a, P, f, p + 2) = Before(a, P, f, p)
                                        \union (IF f = FieldOf(a[p]) THEN {p} ELSE {})
    BY <1>1, <1>4 DEF Before
  <1>7. QED
    BY <1>4, <1>5, <1>6

(* Stepping over a flag: the next word is an option or the end.            *)
LEMMA NextFlag ==
  ASSUME NEW a \in Argvs, NEW P \in Positions(a), NEW p \in 1..Len(a), Parsing(a, P, p),
         a[p] = "--daemonize"
  PROVE  /\ Parsing(a, P, p + 1)
         /\ \A f : Before(a, P, f, p + 1) = Before(a, P, f, p)
  <1>1. /\ p \in P /\ Len(a) \in Nat /\ p \in Nat
        /\ \A k \in P : k \in Nat /\ k <= Len(a)
    BY PositionIs DEF Parsing
  <1>2. a[p] \notin ValueOptions
    BY DEF ValueOptions, Options
  <1>3. p + 1 <= Len(a) => p + 1 \in P
    <2>1. p + 1 <= Len(a) => p + 1 \in 1..Len(a) /\ (p + 1) - 1 = p
      BY <1>1
    <2>2. QED
      BY <1>2, <2>1, PositionIs
  <1>4. \A k \in P : k < p + 1 <=> k < p \/ k = p
    BY <1>1
  <1>5. Parsing(a, P, p + 1)
    <2>1. ASSUME NEW k \in P, k < p + 1
          PROVE  /\ a[k] \in ValueOptions \union {"--daemonize"}
                 /\ a[k] \in ValueOptions => k + 1 < p + 1
      <3>1. CASE k < p
        <4>1. a[k] \in ValueOptions => k + 1 < p
          BY <3>1 DEF Parsing
        <4>2. QED
          BY <1>1, <3>1, <4>1 DEF Parsing
      <3>2. CASE k = p
        BY <1>2, <3>2
      <3>3. QED
        BY <1>4, <2>1, <3>1, <3>2
    <2>2. QED
      BY <1>3, <2>1 DEF Parsing
  <1>6. \A f : Before(a, P, f, p + 1) = Before(a, P, f, p)
    BY <1>2, <1>4 DEF Before
  <1>7. QED
    BY <1>5, <1>6

(* The same of the lines of a file.                                        *)
LEMMA NextLine ==
  ASSUME NEW path \in DOMAIN Files, NEW p \in 1..Len(Files[path])
  PROVE  \A f : Above(path, f, p + 1) = Above(path, f, p)
                                          \union (IF f = Files[path][p].key THEN {p} ELSE {})
  <1>1. Files[path] \in Seq([key : STRING, value : STRING])
    BY WordsAssumption
  <1>2. DOMAIN Files[path] = 1..Len(Files[path]) /\ Len(Files[path]) \in Nat
    BY <1>1
  <1>3. \A k \in DOMAIN Files[path] : k < p + 1 <=> k < p \/ k = p
    BY <1>2
  <1>4. p \in DOMAIN Files[path]
    BY <1>2
  <1>5. QED
    BY <1>3, <1>4 DEF Above

(* What was added last is the greatest.                                    *)
LEMMA AddedIsMax ==
  ASSUME NEW S \in SUBSET Int, NEW p \in Int, \A k \in S : k < p
  PROVE  Max(S \union {p}) = p
  <1>1. \A k \in S \union {p} : k <= p
    OBVIOUS
  <1>2. QED
    BY <1>1, MaxIsGreatest

-----------------------------------------------------------------------------
(* Precedence: every step                                                  *)

(* The file the first pass of main() chooses, written with FirstOf.       *)
LEMMA FirstIs == FirstConfig = FirstOf(argv)
  BY DEF FirstConfig, FirstOf, Configs

(* A scalar is set to what its word means, and no other scalar changes.    *)
LEMMA SetEffect ==
  ASSUME NEW c, IsConfig(c), NEW f \in IniKeys \union StrFields, NEW w, NEW g \in Scalars
  PROVE  Set(c, f, w)[g] = IF g = f THEN Converted(f, w) ELSE c[g]
  <1>1. g \in Fields /\ g # "acl" /\ g # "allow_ip" /\ DOMAIN c = Fields
    BY DEF IsConfig, Fields, Scalars, IntFields, FloatFields, StrFields
  <1>2. CASE f = "allow_ip"
    <2>1. Set(c, f, w) = [c EXCEPT !["acl"] = AppendAcl(c["acl"], Addresses(w))]
      BY <1>2 DEF Set
    <2>2. QED
      BY <1>1, <1>2, <2>1
  <1>3. CASE f # "allow_ip"
    <2>1. Set(c, f, w) = [c EXCEPT ![f] = Converted(f, w)]
      BY <1>3 DEF Set
    <2>2. QED
      BY <1>1, <2>1
  <1>4. QED
    BY <1>2, <1>3

(* Before the first option nothing has been said.                          *)
LEMMA NothingSaid ==
  ASSUME NEW a \in Argvs, NEW P \in Positions(a), NEW c, NEW path,
         \A f \in Scalars \ {"daemonize"} : c[f] = Base(a, path, f)
  PROVE  SoFar(a, P, 1, c, path)
  <1>1. Parsing(a, P, 1) /\ \A f : Before(a, P, f, 1) = {}
    BY FirstOption
  <1>2. \A k \in P : ~(k < 1)
    BY PositionIs
  <1>3. QED
    BY <1>1, <1>2 DEF SoFar, Settled

(* An option with its value sets its field as the definition of a command  *)
(* line says.                                                              *)
LEMMA OptionSaid ==
  ASSUME NEW a \in Argvs, NEW P \in Positions(a), NEW p \in 1..Len(a), NEW c, IsConfig(c),
         NEW path, SoFar(a, P, p, c, path), a[p] \in ValueOptions, p < Len(a)
  PROVE  SoFar(a, P, p + 2, Set(c, FieldOf(a[p]), a[p + 1]), path)
  <1> DEFINE g == FieldOf(a[p])
             d == Set(c, g, a[p + 1])
  <1>1. /\ Parsing(a, P, p + 2)
        /\ \A f : Before(a, P, f, p + 2) = Before(a, P, f, p)
                                            \union (IF f = g THEN {p} ELSE {})
        /\ \A k \in P : k < p + 2 => k < p \/ k = p
    BY NextOption DEF SoFar
  <1>2. g \in IniKeys \union StrFields /\ g # "daemonize" /\ a[p] # "--daemonize"
    <2>1. "--daemonize" \notin ValueOptions
      BY DEF ValueOptions, Options
    <2>2. QED
      BY <2>1, FieldOfOption, FieldOfConfig
  <1> HIDE DEF g
  <1>3. \A f \in Scalars : d[f] = IF f = g THEN Converted(g, a[p + 1]) ELSE c[f]
    BY <1>2, SetEffect
  <1> HIDE DEF d
  <1>4. ASSUME NEW f \in Scalars \ {"daemonize"}
        PROVE  d[f] = IF Before(a, P, f, p + 2) = {} THEN Base(a, path, f)
                      ELSE Converted(f, a[Max(Before(a, P, f, p + 2)) + 1])
    <2>1. CASE f = g
      <3>1. Before(a, P, f, p) \in SUBSET Int /\ \A k \in Before(a, P, f, p) : k < p
        BY PositionIs DEF Before
      <3>2. Max(Before(a, P, f, p) \union {p}) = p
        <4>1. p \in Int
          OBVIOUS
        <4>2. PICK S \in SUBSET Int : S = Before(a, P, f, p)
          BY <3>1
        <4>3. Max(S \union {p}) = p
          BY <3>1, <4>1, <4>2, AddedIsMax
        <4>4. QED
          BY <4>2, <4>3
      <3>3. Before(a, P, f, p + 2) = Before(a, P, f, p) \union {p}
        BY <1>1, <2>1
      <3>4. QED
        BY <1>3, <2>1, <3>2, <3>3
    <2>2. CASE f # g
      <3>1. Before(a, P, f, p + 2) = Before(a, P, f, p)
        BY <1>1, <2>2
      <3>2. QED
        BY <1>3, <2>2, <3>1 DEF SoFar, Settled
    <2>3. QED
      BY <2>1, <2>2
  <1>5. (\E k \in P : k < p + 2 /\ a[k] = "--daemonize") => d["daemonize"] = 1
    <2>1. (\E k \in P : k < p + 2 /\ a[k] = "--daemonize")
            => \E k \in P : k < p /\ a[k] = "--daemonize"
      BY <1>1, <1>2
    <2>2. d["daemonize"] = c["daemonize"]
      BY <1>2, <1>3 DEF Scalars, IntFields
    <2>3. QED
      BY <2>1, <2>2 DEF SoFar, Settled
  <1>6. SoFar(a, P, p + 2, d, path)
    BY <1>1, <1>4, <1>5 DEF SoFar, Settled
  <1>7. QED
    BY <1>6 DEF d, g

(* So does --daemonize.                                                    *)
LEMMA FlagSaid ==
  ASSUME NEW a \in Argvs, NEW P \in Positions(a), NEW p \in 1..Len(a), NEW c, IsConfig(c),
         NEW path, SoFar(a, P, p, c, path), a[p] = "--daemonize"
  PROVE  SoFar(a, P, p + 1, [c EXCEPT !["daemonize"] = 1], path)
  <1>1. Parsing(a, P, p + 1) /\ \A f : Before(a, P, f, p + 1) = Before(a, P, f, p)
    BY NextFlag DEF SoFar
  <1> DEFINE d == [c EXCEPT !["daemonize"] = 1]
  <1>2. d["daemonize"] = 1 /\ \A f \in Scalars \ {"daemonize"} : d[f] = c[f]
    BY DEF IsConfig, Fields, Scalars, IntFields
  <1> HIDE DEF d
  <1>3. SoFar(a, P, p + 1, d, path)
    BY <1>1, <1>2 DEF SoFar, Settled
  <1>4. QED
    BY <1>3 DEF d

(* A line of the file overrides the lines above it.                        *)
LEMMA LineSaid ==
  ASSUME NEW path \in DOMAIN Files, NEW p \in 1..Len(Files[path]), NEW c, IsConfig(c),
         NEW f \in Scalars \ {"config_file"}, c[f] = FromFile(path, f, p)
  PROVE  set_config_field(c, Files[path][p].key, Files[path][p].value)[f]
           = FromFile(path, f, p + 1)
  <1> DEFINE key   == Files[path][p].key
             value == Files[path][p].value
             d     == set_config_field(c, key, value)
  <1>1. Above(path, f, p + 1) = Above(path, f, p) \union (IF f = key THEN {p} ELSE {})
    BY NextLine
  <1>2. path # "" /\ f \in IniKeys
    BY PathAssumption DEF IniKeys
  <1> HIDE DEF key, value
  <1>3. CASE f = key
    <2>1. Above(path, f, p) \in SUBSET Int /\ \A k \in Above(path, f, p) : k < p
      <3>1. Files[path] \in Seq([key : STRING, value : STRING])
        BY WordsAssumption
      <3>2. QED
        BY <3>1 DEF Above
    <2>2. Max(Above(path, f, p + 1)) = p /\ Above(path, f, p + 1) # {}
      <3>1. PICK S \in SUBSET Int : S = Above(path, f, p)
        BY <2>1
      <3>2. p \in Int
        OBVIOUS
      <3>3. Max(S \union {p}) = p
        BY <2>1, <3>1, <3>2, AddedIsMax
      <3>4. Above(path, f, p + 1) = S \union {p}
        BY <1>1, <1>3, <3>1
      <3>5. QED
        BY <3>3, <3>4
    <2>3. d = Set(c, f, value)
      BY <1>2, <1>3 DEF set_config_field
    <2>4. Set(c, f, value)[f] = Converted(f, value)
      BY <1>2, SetEffect
    <2>5. FromFile(path, f, p + 1) = Converted(f, value)
      BY <1>2, <2>2 DEF FromFile, value
    <2>6. QED
      BY <2>3, <2>4, <2>5 DEF key, value
  <1>4. CASE f # key
    <2>1. Above(path, f, p + 1) = Above(path, f, p)
      BY <1>1, <1>4
    <2>2. d[f] = c[f]
      <3>1. CASE key \in IniKeys
        <4>1. d = Set(c, key, value)
          BY <3>1 DEF set_config_field
        <4>2. Set(c, key, value)[f] = c[f]
          BY <1>4, <3>1, SetEffect
        <4>3. QED
          BY <4>1, <4>2
      <3>2. CASE key \notin IniKeys
        BY <3>2 DEF set_config_field
      <3>3. QED
        BY <3>1, <3>2
    <2>3. FromFile(path, f, p + 1) = FromFile(path, f, p)
      BY <2>1 DEF FromFile
    <2>4. QED
      BY <2>2, <2>3 DEF key, value
  <1>5. QED
    BY <1>3, <1>4

(* Every step of main() keeps the configuration to what the sources read   *)
(* so far say.                                                             *)
LEMMA SourcesStep ==
  ASSUME ConfigInv, Sources, ConfigNext
  PROVE  Sources'
  <1>1. IsConfig(cfg) /\ Reading /\ argv \in Argvs /\ argv' = argv
    BY ConfigMoves DEF ConfigInv, Reading, Moved
  <1>2. Len(argv) \in Nat /\ DOMAIN config_defaults = Fields
    BY <1>1, ArgIsWord, DefaultsFit DEF IsConfig
  <1>3. CASE pc' = "exited"
    BY <1>3 DEF Sources
  <1>4. CASE ExtractConfig
    <2>1. /\ cfg' = [config_defaults EXCEPT !["config_file"] = FirstOf(argv)]
          /\ loaded' = "" /\ i' = 1 /\ pc' = IF FirstOf(argv) = "" THEN "cli" ELSE "open"
      BY <1>4, FirstIs DEF ExtractConfig, Sources, Reading, ConfigInv
    <2>2. CASE FirstOf(argv) # ""
      BY <1>1, <2>1, <2>2 DEF Sources
    <2>3. CASE FirstOf(argv) = ""
      <3>1. \A f \in Scalars : cfg'[f] = Base(argv, "", f)
        BY <1>2, <2>1 DEF Base, FromFile, Fields
      <3>2. \A P \in Positions(argv) : SoFar(argv, P, 1, cfg', "")
        BY <1>1, <3>1, NothingSaid
      <3>3. QED
        BY <1>1, <2>1, <2>3, <3>2 DEF Sources
    <2>4. QED
      BY <2>2, <2>3
  <1>5. CASE OpenFile
    <2>1. /\ cfg = [config_defaults EXCEPT !["config_file"] = FirstOf(argv)]
          /\ cfg["config_file"] \in DOMAIN Files /\ loaded' = cfg["config_file"]
          /\ cfg' = cfg /\ i' = 1 /\ pc' = "lines"
      BY <1>1, <1>5 DEF OpenFile, Sources, Reading
    <2>2. PICK path \in DOMAIN Files : path = FirstOf(argv)
      BY <1>2, <2>1 DEF Fields, Scalars, StrFields
    <2>3. cfg["config_file"] = path /\ loaded' = path
      BY <1>2, <2>1, <2>2 DEF Fields, Scalars, StrFields
    <2>4. \A f : Above(path, f, 1) = {}
      <3>1. Files[path] \in Seq([key : STRING, value : STRING])
        BY WordsAssumption
      <3>2. \A k \in DOMAIN Files[path] : ~(k < 1)
        BY <3>1
      <3>3. QED
        BY <3>2 DEF Above
    <2>5. \A f \in Scalars \ {"config_file"} : cfg[f] = FromFile(path, f, 1)
      BY <1>2, <2>1, <2>4 DEF FromFile, Fields
    <2>6. QED
      BY <1>1, <2>1, <2>2, <2>3, <2>5 DEF Sources
  <1>6. CASE LoadLine
    <2>1. /\ pc = "lines" /\ pc' = "lines" /\ loaded' = loaded /\ i' = i + 1
          /\ loaded \in DOMAIN Files /\ i \in 1..(Len(Files[loaded]) + 1)
          /\ i <= Len(Files[loaded])
          /\ cfg' = set_config_field(cfg, Files[loaded][i].key, Files[loaded][i].value)
      BY <1>1, <1>6 DEF LoadLine, Reading
    <2>2. i \in 1..Len(Files[loaded])
      BY <2>1, LineIsWord
    <2>3. \A f \in Scalars \ {"config_file"} : cfg[f] = FromFile(loaded, f, i)
      BY <2>1 DEF Sources
    <2>4. \A f \in Scalars \ {"config_file"} : cfg'[f] = FromFile(loaded, f, i + 1)
      BY <1>1, <2>1, <2>2, <2>3, LineSaid
    <2>5. cfg'["config_file"] = cfg["config_file"]
      <3>1. cfg' = cfg \/ \E f \in IniKeys : cfg' = Set(cfg, f, Files[loaded][i].value)
        BY <2>1 DEF set_config_field
      <3>2. \A f \in IniKeys : f # "config_file"
        BY DEF IniKeys
      <3>3. "config_file" \in Scalars
        BY DEF Scalars, StrFields
      <3>4. \A f \in IniKeys : Set(cfg, f, Files[loaded][i].value)["config_file"]
                                 = cfg["config_file"]
        BY <1>1, <3>2, <3>3, SetEffect
      <3>5. QED
        BY <3>1, <3>4
    <2>6. QED
      BY <1>1, <2>1, <2>4, <2>5 DEF Sources
  <1>7. CASE EndOfFile
    <2>1. /\ pc = "lines" /\ pc' = "cli" /\ loaded' = loaded /\ i' = 1 /\ cfg' = cfg
          /\ loaded \in DOMAIN Files /\ i \in 1..(Len(Files[loaded]) + 1)
          /\ i > Len(Files[loaded])
      BY <1>1, <1>7 DEF EndOfFile, Reading
    <2>2. i = Len(Files[loaded]) + 1
      BY <2>1, LineIsWord
    <2>3. /\ loaded = FirstOf(argv) /\ cfg["config_file"] = FirstOf(argv)
          /\ \A f \in Scalars \ {"config_file"} : cfg[f] = FromFile(loaded, f, i)
      BY <2>1 DEF Sources
    <2>4. \A f \in Scalars : cfg[f] = Base(argv, loaded, f)
      BY <2>2, <2>3 DEF Base
    <2>5. \A P \in Positions(argv) : SoFar(argv, P, 1, cfg, loaded)
      BY <1>1, <2>4, NothingSaid
    <2>6. QED
      BY <1>1, <2>1, <2>3, <2>5 DEF Sources
  <1>8. CASE Daemonize
    <2>1. /\ pc = "cli" /\ pc' = "cli" /\ loaded' = loaded /\ i' = i + 1
          /\ i \in 1..(Len(argv) + 1) /\ i <= Len(argv) /\ argv[i] = "--daemonize"
          /\ cfg' = [cfg EXCEPT !["daemonize"] = 1]
      BY <1>1, <1>8 DEF Daemonize, AtArg, Arg, Reading
    <2>2. i \in 1..Len(argv)
      BY <1>2, <2>1
    <2>3. \A P \in Positions(argv) : SoFar(argv, P, i, cfg, loaded)
      BY <2>1 DEF Sources
    <2>4. \A P \in Positions(argv) : SoFar(argv, P, i + 1, cfg', loaded)
      BY <1>1, <2>1, <2>2, <2>3, FlagSaid
    <2>5. QED
      BY <1>1, <2>1, <2>4 DEF Sources
  <1>9. CASE SetOption
    <2>1. /\ pc = "cli" /\ pc' = "cli" /\ loaded' = loaded /\ i' = i + 2
          /\ i \in 1..(Len(argv) + 1) /\ i < Len(argv) /\ argv[i] \in ValueOptions
          /\ cfg' = Set(cfg, FieldOf(argv[i]), argv[i + 1])
      BY <1>1, <1>9 DEF SetOption, AtArg, Arg, Reading
    <2>2. i \in 1..Len(argv)
      BY <1>2, <2>1
    <2>3. \A P \in Positions(argv) : SoFar(argv, P, i, cfg, loaded)
      BY <2>1 DEF Sources
    <2>4. \A P \in Positions(argv) : SoFar(argv, P, i + 2, cfg', loaded)
      BY <1>1, <2>1, <2>2, <2>3, OptionSaid
    <2>5. QED
      BY <1>1, <2>1, <2>4 DEF Sources
  <1>10. CASE Validate
    <2>1. /\ pc = "cli" /\ pc' \in {"serving", "exited"} /\ loaded' = loaded /\ cfg' = cfg
          /\ i \in 1..(Len(argv) + 1) /\ i > Len(argv)
      BY <1>1, <1>10 DEF Validate, Reading
    <2>2. i = Len(argv) + 1
      BY <1>2, <2>1
    <2>3. \A P \in Positions(argv) : SoFar(argv, P, Len(argv) + 1, cfg, loaded)
      BY <2>1, <2>2 DEF Sources
    <2>4. QED
      BY <1>1, <2>1, <2>3 DEF Sources
  <1>11. EarlyExit \/ NoSuchFile \/ Help \/ BadArg => pc' = "exited"
    BY DEF EarlyExit, NoSuchFile, Help, BadArg, Exit
  <1>12. QED
    BY <1>3, <1>4, <1>5, <1>6, <1>7, <1>8, <1>9, <1>10, <1>11 DEF ConfigNext

(* It is so in every reachable state.                                      *)
LEMMA SourcesHold == Spec => []Sources
  <1>1. StartupInit => Sources
    BY DEF StartupInit, Init, Sources
  <1>2. IInv /\ Sources /\ [StartupNext]_vars => Sources'
    <2>1. SUFFICES ASSUME IInv, Sources, [StartupNext]_vars PROVE Sources'
      OBVIOUS
    <2>2. CASE Configure
      BY <2>1, <2>2, SourcesStep DEF Configure, IInv
    <2>3. CASE UNCHANGED configVars
      BY <2>1, <2>3 DEF configVars, Sources
    <2>4. QED
      BY <2>1, <2>2, <2>3 DEF StartupNext, Serve, Exited, vars
  <1>3. QED
    BY Invariance, <1>1, <1>2, PTL DEF Spec

-----------------------------------------------------------------------------
(* The access list                                                         *)

(* Contributions are gathered one after the other.                         *)
LEMMA FlattenIs ==
  ASSUME NEW s, Len(s) \in Nat
  PROVE  Flatten(s) = [k \in 1..Len(s) |-> IF k = 1 THEN s[k] ELSE Flatten(s)[k - 1] \o s[k]]
  <1> DEFINE Flat(f, m) == f = [k \in 1..m |-> IF k = 1 THEN s[k] ELSE f[k - 1] \o s[k]]
             Bad == {m \in Nat : \A f : ~Flat(f, m)}
  <1>1. Bad = {}
    <2>1. SUFFICES ASSUME Bad # {} PROVE FALSE
      OBVIOUS
    <2>2. PICK m \in Bad : \A j \in Bad : m <= j
      BY <2>1, Least
    <2>3. m # 0
      <3>1. PICK f : f = [k \in 1..0 |-> s[k]]
        OBVIOUS
      <3>2. Flat(f, 0)
        BY <3>1
      <3>3. QED
        BY <3>2
    <2>4. m - 1 \in Nat /\ m - 1 \notin Bad
      <3>1. m \in Nat /\ m - 1 \in Nat /\ ~(m <= m - 1)
        BY <2>2, <2>3
      <3> HIDE DEF Bad
      <3>2. QED
        BY <2>2, <3>1
    <2>5. PICK f : Flat(f, m - 1)
      BY <2>4
    <2>6. PICK g : g = [k \in 1..m |-> IF k = m
                                      THEN IF m = 1 THEN s[m] ELSE f[m - 1] \o s[m]
                                      ELSE f[k]]
      OBVIOUS
    <2>7. ASSUME NEW k \in 1..m
          PROVE  g[k] = IF k = 1 THEN s[k] ELSE g[k - 1] \o s[k]
      <3>1. CASE k = m
        BY <2>3, <2>4, <2>6, <3>1
      <3>2. CASE k # m
        <4>1. k \in 1..(m - 1) /\ (k # 1 => k - 1 \in 1..m /\ k - 1 # m)
          BY <3>2
        <4>2. f[k] = IF k = 1 THEN s[k] ELSE f[k - 1] \o s[k]
          BY <2>5, <4>1
        <4>3. QED
          BY <2>6, <3>2, <4>1, <4>2
      <3>3. QED
        BY <3>1, <3>2
    <2>8. Flat(g, m)
      BY <2>6, <2>7
    <2>9. QED
      BY <2>8
  <1> HIDE DEF Flat
  <1>2. PICK f : Flat(f, Len(s))
    BY <1>1, Zenon
  <1> USE DEF Flat
  <1>3. Flatten(s) = CHOOSE h : Flat(h, Len(s))
    BY DEF Flatten
  <1> HIDE DEF Flat
  <1>4. Flat(Flatten(s), Len(s))
    BY <1>2, <1>3
  <1>5. QED
    BY <1>4 DEF Flat

(* One more contribution.                                                  *)
LEMMA GatherOne ==
  ASSUME NEW s, Len(s) \in Nat, NEW k \in 1..Len(s),
         Gathered(s, k - 1) \in Seq(STRING), s[k] \in Seq(STRING)
  PROVE  /\ Gathered(s, k) = Gathered(s, k - 1) \o s[k]
         /\ Gathered(s, k) \in Seq(STRING)
  <1>1. Flatten(s)[k] = IF k = 1 THEN s[k] ELSE Flatten(s)[k - 1] \o s[k]
    <2> DEFINE Step(f) == [j \in 1..Len(s) |-> IF j = 1 THEN s[j] ELSE f[j - 1] \o s[j]]
    <2>1. PICK f : f = Flatten(s)
      OBVIOUS
    <2>2. f = Step(f)
      BY <2>1, FlattenIs, Zenon
    <2>3. Step(f)[k] = IF k = 1 THEN s[k] ELSE f[k - 1] \o s[k]
      OBVIOUS
    <2> HIDE DEF Step
    <2>4. QED
      BY <2>1, <2>2, <2>3, Zenon
  <1>2. k # 0
    OBVIOUS
  <1>3. CASE k = 1
    <2>1. Gathered(s, k) = s[k] /\ Gathered(s, k - 1) = <<>>
      BY <1>1, <1>3 DEF Gathered
    <2>2. <<>> \o s[k] = s[k]
      OBVIOUS
    <2>3. QED
      BY <2>1, <2>2
  <1>4. CASE k # 1
    <2>1. k - 1 # 0
      BY <1>4
    <2>2. Gathered(s, k) = Gathered(s, k - 1) \o s[k]
      BY <1>1, <1>2, <1>4, <2>1 DEF Gathered
    <2>3. QED
      BY <2>2
  <1>5. QED
    BY <1>3, <1>4

(* All contributions gathered are the flattened sequence.                  *)
LEMMA GatherAll ==
  ASSUME NEW s, s = <<>> \/ Len(s) \in Nat \ {0}
  PROVE  FlattenSeq(s) = Gathered(s, Len(s))
  <1>1. CASE s = <<>>
    <2>1. Len(s) = 0
      BY <1>1
    <2>2. QED
      BY <1>1, <2>1 DEF FlattenSeq, Gathered
  <1>2. CASE Len(s) \in Nat \ {0}
    <2>1. Len(s) # 0
      BY <1>2
    <2>2. FlattenSeq(s) = Flatten(s)[Len(s)]
      BY <2>1, Zenon DEF FlattenSeq, Flatten
    <2>3. QED
      BY <2>1, <2>2 DEF Gathered
  <1>3. QED
    BY <1>1, <1>2

(* The first m entries of a list.                                          *)
LEMMA FirstEntries ==
  ASSUME NEW x \in Seq(STRING), NEW m \in 0..Len(x)
  PROVE  /\ SubSeq(x, 1, m) \in Seq(STRING) /\ Len(SubSeq(x, 1, m)) = m
         /\ SubSeq(SubSeq(x, 1, m), 1, m) = SubSeq(x, 1, m)
  <1>1. SubSeq(x, 1, m) \in Seq(STRING) /\ Len(SubSeq(x, 1, m)) = m
    OBVIOUS
  <1>2. \A y \in Seq(STRING) : SubSeq(y, 1, Len(y)) = y
    OBVIOUS
  <1>3. QED
    BY <1>1, <1>2, Zenon

(* They are those of the list with more appended.                          *)
LEMMA FirstOfJoined ==
  ASSUME NEW x \in Seq(STRING), NEW y \in Seq(STRING), NEW m \in 0..Len(x)
  PROVE  SubSeq(x \o y, 1, m) = SubSeq(x, 1, m)
  OBVIOUS

(* Cutting the list after each append is cutting it once.                  *)
LEMMA CapAppend ==
  ASSUME NEW x \in Seq(STRING), NEW y \in Seq(STRING)
  PROVE  AppendAcl(Cap(x), y) = Cap(x \o y)
  <1>1. PICK A \in Nat : A = ACL_MAX
    BY SizeAssumption
  <1>2. PICK lx \in Nat, ly \in Nat : lx = Len(x) /\ ly = Len(y)
    OBVIOUS
  <1>3. Cap(x) = SubSeq(x, 1, IF lx <= A THEN lx ELSE A)
    <2>1. Min({lx, A}) = IF lx <= A THEN lx ELSE A
      BY MinOf
    <2>2. QED
      BY <1>1, <1>2, <2>1 DEF Cap
  <1>4. Len(x \o y) = lx + ly /\ x \o y \in Seq(STRING)
    BY <1>2
  <1>5. Cap(x \o y) = SubSeq(x \o y, 1, IF lx + ly <= A THEN lx + ly ELSE A)
    <2>1. Min({lx + ly, A}) = IF lx + ly <= A THEN lx + ly ELSE A
      BY MinOf
    <2>2. QED
      BY <1>1, <1>4, <2>1 DEF Cap
  <1>6. CASE lx <= A
    <2>1. Cap(x) = x
      BY <1>2, <1>3, <1>6
    <2>2. AppendAcl(x, y) = SubSeq(x \o y, 1, Min({lx + ly, A}))
      BY <1>1, <1>2 DEF AppendAcl
    <2>3. Min({lx + ly, A}) = IF lx + ly <= A THEN lx + ly ELSE A
      BY MinOf
    <2>4. QED
      BY <1>5, <2>1, <2>2, <2>3
  <1>7. CASE lx > A
    <2>1. A \in 0..Len(x)
      BY <1>2, <1>7
    <2>2. PICK z : z = SubSeq(x, 1, A)
      OBVIOUS
    <2>3. z \in Seq(STRING) /\ Len(z) = A /\ SubSeq(z, 1, A) = z
      BY <2>1, <2>2, FirstEntries
    <2>4. Cap(x) = z
      <3>1. ~(lx <= A)
        BY <1>7
      <3>2. QED
        BY <1>3, <2>2, <3>1
    <2>5. Min({A + ly, A}) = A
      <3>1. Min({A + ly, A}) = IF A + ly <= A THEN A + ly ELSE A
        BY MinOf
      <3>2. QED
        BY <3>1
    <2>6. AppendAcl(z, y) = SubSeq(z \o y, 1, A)
      BY <1>1, <1>2, <2>3, <2>5 DEF AppendAcl
    <2>7. A \in 0..Len(z)
      BY <2>3
    <2>8. SubSeq(z \o y, 1, A) = z
      BY <2>3, <2>7, FirstOfJoined
    <2>9. Cap(x \o y) = SubSeq(x \o y, 1, A)
      <3>1. (IF lx + ly <= A THEN lx + ly ELSE A) = A
        BY <1>7
      <3>2. QED
        BY <1>5, <3>1
    <2>10. SubSeq(x \o y, 1, A) = SubSeq(x, 1, A)
      BY <2>1, FirstOfJoined
    <2>11. QED
      BY <2>2, <2>4, <2>6, <2>8, <2>9, <2>10
  <1>8. QED
    BY <1>6, <1>7

(* As much as there is room for is a prefix, of that length.               *)
LEMMA CapIsPrefix ==
  ASSUME NEW all \in Seq(STRING)
  PROVE  IsPrefix(Cap(all), all) /\ Len(Cap(all)) = Min({Len(all), ACL_MAX})
  <1>1. PICK A \in Nat : A = ACL_MAX
    BY SizeAssumption
  <1>2. PICK l \in Nat : l = Len(all)
    OBVIOUS
  <1>3. Min({l, A}) = IF l <= A THEN l ELSE A
    BY MinOf
  <1>4. PICK m \in Nat : m = Min({l, A}) /\ m <= l
    BY <1>3
  <1>5. Cap(all) = SubSeq(all, 1, m)
    BY <1>1, <1>2, <1>4 DEF Cap
  <1>6. m \in 0..Len(all)
    BY <1>2, <1>4
  <1>7. /\ SubSeq(all, 1, m) \in Seq(STRING) /\ Len(SubSeq(all, 1, m)) = m
        /\ SubSeq(SubSeq(all, 1, m), 1, m) = SubSeq(all, 1, m)
    BY <1>6, FirstEntries
  <1>8. IsPrefix(SubSeq(all, 1, m), all)
    BY <1>2, <1>4, <1>7 DEF IsPrefix
  <1>9. QED
    BY <1>1, <1>2, <1>4, <1>5, <1>7, <1>8

(* Storing a value appends to the list if the field is the list, and       *)
(* leaves it alone otherwise.                                              *)
LEMMA SetAcl ==
  ASSUME NEW c, IsConfig(c), NEW f \in IniKeys \union StrFields, NEW w \in Words
  PROVE  /\ Addresses(w) \in Seq(STRING)
         /\ Set(c, f, w)["acl"] = IF f = "allow_ip" THEN AppendAcl(c["acl"], Addresses(w))
                                  ELSE c["acl"]
  <1>1. Addresses(w) \in Seq(STRING)
    BY WordsAssumption
  <1>2. "acl" \in DOMAIN c /\ f # "acl"
    BY DEF IsConfig, Fields, IniKeys, Scalars, IntFields, FloatFields, StrFields
  <1>3. CASE f = "allow_ip"
    <2>1. Set(c, f, w) = [c EXCEPT !["acl"] = AppendAcl(c["acl"], Addresses(w))]
      BY <1>3 DEF Set
    <2>2. QED
      BY <1>1, <1>2, <1>3, <2>1
  <1>4. CASE f # "allow_ip"
    <2>1. Set(c, f, w) = [c EXCEPT ![f] = Converted(f, w)]
      BY <1>4 DEF Set
    <2>2. QED
      BY <1>1, <1>2, <1>4, <2>1
  <1>5. QED
    BY <1>3, <1>4

(* Appending to what came after the file's addresses.                      *)
LEMMA CapJoined ==
  ASSUME NEW base \in Seq(STRING), NEW x \in Seq(STRING), NEW y \in Seq(STRING)
  PROVE  AppendAcl(Cap(base \o x), y) = Cap(base \o (x \o y))
  <1>1. base \o x \in Seq(STRING)
    OBVIOUS
  <1>2. AppendAcl(Cap(base \o x), y) = Cap((base \o x) \o y)
    BY <1>1, CapAppend
  <1>3. (base \o x) \o y = base \o (x \o y)
    OBVIOUS
  <1>4. QED
    BY <1>2, <1>3

(* A contribution that is capped when it is appended.                      *)
LEMMA CapOne ==
  ASSUME NEW base \in Seq(STRING), NEW s, Len(s) \in Nat, NEW k \in 1..Len(s),
         Gathered(s, k - 1) \in Seq(STRING), s[k] \in Seq(STRING)
  PROVE  /\ Gathered(s, k) \in Seq(STRING)
         /\ AppendAcl(Cap(base \o Gathered(s, k - 1)), s[k]) = Cap(base \o Gathered(s, k))
         /\ s[k] = <<>> => Gathered(s, k) = Gathered(s, k - 1)
  <1>1. Gathered(s, k) = Gathered(s, k - 1) \o s[k] /\ Gathered(s, k) \in Seq(STRING)
    BY GatherOne
  <1>2. PICK x \in Seq(STRING), y \in Seq(STRING) : x = Gathered(s, k - 1) /\ y = s[k]
    OBVIOUS
  <1>3. AppendAcl(Cap(base \o x), y) = Cap(base \o (x \o y))
    BY CapJoined
  <1>4. y = <<>> => x \o y = x
    OBVIOUS
  <1>5. QED
    BY <1>1, <1>2, <1>3, <1>4

(* Each line of a file contributes.                                        *)
LEMMA FilePartIs ==
  ASSUME NEW path \in DOMAIN Files
  PROVE  /\ path # "" /\ Len(Files[path]) \in Nat /\ DOMAIN Files[path] = 1..Len(Files[path])
         /\ Len(FilePart(path)) = Len(Files[path])
         /\ \A k \in 1..Len(Files[path]) :
              FilePart(path)[k] = IF Files[path][k].key = "allow_ip"
                                  THEN Addresses(Files[path][k].value) ELSE <<>>
  <1>1. path # ""
    BY PathAssumption
  <1>2. Files[path] \in Seq([key : STRING, value : STRING])
    BY WordsAssumption
  <1>3. Len(Files[path]) \in Nat /\ DOMAIN Files[path] = 1..Len(Files[path])
    BY <1>2
  <1> DEFINE part(k) == IF Files[path][k].key = "allow_ip"
                        THEN Addresses(Files[path][k].value) ELSE <<>>
  <1>4. FilePart(path) = [k \in DOMAIN Files[path] |-> part(k)]
    BY <1>1 DEF FilePart
  <1> HIDE DEF part
  <1>5. PICK m \in Nat : m = Len(Files[path]) /\ FilePart(path) = [k \in 1..m |-> part(k)]
    BY <1>3, <1>4
  <1>6. Len(FilePart(path)) = m /\ \A k \in 1..m : FilePart(path)[k] = part(k)
    BY <1>5
  <1>7. QED
    BY <1>1, <1>3, <1>5, <1>6 DEF part

(* A line of the file contributes its addresses, if it is about the list.  *)
LEMMA LineListed ==
  ASSUME NEW path \in DOMAIN Files, NEW p \in 1..Len(Files[path]), NEW c, IsConfig(c),
         Gathered(FilePart(path), p - 1) \in Seq(STRING),
         c["acl"] = Cap(Gathered(FilePart(path), p - 1))
  PROVE  /\ Gathered(FilePart(path), p) \in Seq(STRING)
         /\ set_config_field(c, Files[path][p].key, Files[path][p].value)["acl"]
              = Cap(Gathered(FilePart(path), p))
  <1> DEFINE key   == Files[path][p].key
             value == Files[path][p].value
             d     == set_config_field(c, key, value)
             s     == FilePart(path)
  <1>1. Len(Files[path]) \in Nat /\ value \in Words
    BY LineIsWord
  <1>2. Addresses(value) \in Seq(STRING)
    BY <1>1, WordsAssumption
  <1>3. Len(s) = Len(Files[path]) /\ s[p] = IF key = "allow_ip" THEN Addresses(value) ELSE <<>>
    BY FilePartIs
  <1> HIDE DEF key, value, s
  <1>4. s[p] \in Seq(STRING)
    <2>1. <<>> \in Seq(STRING)
      OBVIOUS
    <2>2. QED
      BY <1>2, <1>3, <2>1
  <1>5. /\ Gathered(s, p) \in Seq(STRING)
        /\ AppendAcl(c["acl"], s[p]) = Cap(Gathered(s, p))
        /\ s[p] = <<>> => c["acl"] = Cap(Gathered(s, p))
    <2>1. PICK x \in Seq(STRING), y \in Seq(STRING) : x = Gathered(s, p - 1) /\ y = s[p]
      BY <1>4 DEF s
    <2>2. Gathered(s, p) = x \o y /\ Gathered(s, p) \in Seq(STRING)
      BY <1>1, <1>3, <1>4, <2>1, GatherOne
    <2>3. c["acl"] = Cap(x)
      BY <2>1 DEF s
    <2>4. AppendAcl(Cap(x), y) = Cap(x \o y)
      BY CapAppend
    <2>5. y = <<>> => x \o y = x
      OBVIOUS
    <2>6. QED
      BY <2>1, <2>2, <2>3, <2>4, <2>5
  <1>6. d["acl"] = IF key = "allow_ip" THEN AppendAcl(c["acl"], Addresses(value)) ELSE c["acl"]
    <2>1. CASE key \in IniKeys
      <3>1. d = Set(c, key, value)
        BY <2>1 DEF set_config_field
      <3>2. key \in IniKeys \union StrFields /\ value \in Words
        BY <1>1, <2>1
      <3>3. Set(c, key, value)["acl"]
              = IF key = "allow_ip" THEN AppendAcl(c["acl"], Addresses(value)) ELSE c["acl"]
        BY <3>2, SetAcl
      <3>4. QED
        BY <3>1, <3>3
    <2>2. CASE key \notin IniKeys
      BY <2>2 DEF set_config_field, IniKeys
    <2>3. QED
      BY <2>1, <2>2
  <1>7. d["acl"] = Cap(Gathered(s, p))
    BY <1>3, <1>5, <1>6
  <1>8. QED
    BY <1>5, <1>7 DEF key, value, s

(* So does an option, with the word after it.                              *)
LEMMA OptionListed ==
  ASSUME NEW a \in Argvs, NEW P \in Positions(a), NEW p \in 1..Len(a), NEW c, IsConfig(c),
         NEW path, Parsing(a, P, p), Listed(a, P, path, p, c["acl"]),
         a[p] \in ValueOptions, p < Len(a), a[p + 1] \in Words
  PROVE  Listed(a, P, path, p + 2, Set(c, FieldOf(a[p]), a[p + 1])["acl"])
  <1> DEFINE g == FieldOf(a[p])
             s == ArgPart(a, P)
             acl == Set(c, g, a[p + 1])["acl"]
  <1>1. /\ Len(a) \in Nat /\ DOMAIN a = 1..Len(a) /\ p \in P
        /\ p + 1 \in 1..Len(a) /\ (p + 1) - 1 = p /\ (p + 2) - 1 = p + 1
    BY PositionIs DEF Parsing
  <1>2. p + 1 \notin P
    BY <1>1, PositionIs
  <1>3. Addresses(a[p + 1]) \in Seq(STRING)
        /\ acl = IF g = "allow_ip" THEN AppendAcl(c["acl"], Addresses(a[p + 1])) ELSE c["acl"]
    BY FieldOfOption, SetAcl
  <1>4. /\ Len(s) = Len(a) /\ s[p + 1] = <<>>
        /\ s[p] = IF g = "allow_ip" THEN Addresses(a[p + 1]) ELSE <<>>
    BY <1>1, <1>2 DEF ArgPart
  <1> HIDE DEF g, s, acl
  <1>5. s[p] \in Seq(STRING) /\ s[p + 1] \in Seq(STRING)
    <2>1. <<>> \in Seq(STRING)
      OBVIOUS
    <2>2. QED
      BY <1>3, <1>4, <2>1
  <1>6. /\ OfFile(path) \in Seq(STRING) /\ Gathered(s, p - 1) \in Seq(STRING)
        /\ c["acl"] = Cap(OfFile(path) \o Gathered(s, p - 1))
    BY DEF Listed, s
  <1>7. /\ Gathered(s, p) \in Seq(STRING)
        /\ AppendAcl(c["acl"], s[p]) = Cap(OfFile(path) \o Gathered(s, p))
        /\ s[p] = <<>> => Gathered(s, p) = Gathered(s, p - 1)
    BY <1>1, <1>4, <1>5, <1>6, CapOne
  <1>8. Gathered(s, p + 1) = Gathered(s, p)
    <2>1. PICK q \in 1..Len(s) : q = p + 1 /\ q - 1 = p
      BY <1>1, <1>4
    <2>2. Gathered(s, q - 1) \in Seq(STRING) /\ s[q] \in Seq(STRING) /\ s[q] = <<>>
      BY <1>4, <1>5, <1>7, <2>1
    <2>3. Gathered(s, q) = Gathered(s, q - 1)
      BY <1>1, <1>4, <1>6, <2>2, CapOne
    <2>4. QED
      BY <2>1, <2>3
  <1>9. acl = Cap(OfFile(path) \o Gathered(s, p))
    BY <1>3, <1>4, <1>6, <1>7
  <1>10. QED
    BY <1>1, <1>6, <1>7, <1>8, <1>9 DEF Listed, g, s, acl

(* A flag contributes nothing.                                             *)
LEMMA FlagListed ==
  ASSUME NEW a \in Argvs, NEW P \in Positions(a), NEW p \in 1..Len(a), NEW path, NEW acl,
         Listed(a, P, path, p, acl), a[p] = "--daemonize"
  PROVE  Listed(a, P, path, p + 1, acl)
  <1> DEFINE s == ArgPart(a, P)
  <1>1. Len(a) \in Nat /\ DOMAIN a = 1..Len(a) /\ (p + 1) - 1 = p
    BY PositionIs
  <1>2. a[p] \notin ValueOptions
    BY DEF ValueOptions, Options
  <1>3. Len(s) = Len(a) /\ s[p] = <<>>
    BY <1>1, <1>2 DEF ArgPart
  <1> HIDE DEF s
  <1>4. <<>> \in Seq(STRING)
    OBVIOUS
  <1>5. OfFile(path) \in Seq(STRING) /\ Gathered(s, p - 1) \in Seq(STRING)
    BY DEF Listed, s
  <1>6. Gathered(s, p) \in Seq(STRING) /\ Gathered(s, p) = Gathered(s, p - 1)
    BY <1>1, <1>3, <1>4, <1>5, CapOne
  <1>7. QED
    BY <1>1, <1>5, <1>6 DEF Listed, s

(* Before the first option the list holds what the file contributed.       *)
LEMMA NothingListed ==
  ASSUME NEW a, NEW P, NEW path, NEW acl, OfFile(path) \in Seq(STRING),
         acl = Cap(OfFile(path))
  PROVE  Listed(a, P, path, 1, acl)
  <1>1. Gathered(ArgPart(a, P), 1 - 1) = <<>>
    BY DEF Gathered
  <1>2. <<>> \in Seq(STRING) /\ OfFile(path) \o <<>> = OfFile(path)
    OBVIOUS
  <1>3. QED
    BY <1>1, <1>2 DEF Listed

(* An empty list is as much of nothing as there is room for.               *)
LEMMA CapEmpty == Cap(<<>>) = <<>>
  <1>1. PICK A \in Nat : A = ACL_MAX
    BY SizeAssumption
  <1>2. Min({0, A}) = 0
    BY MinOf
  <1>3. QED
    BY <1>1, <1>2 DEF Cap

(* Every step of main() keeps the list to what has been contributed so     *)
(* far.                                                                    *)
LEMMA AccessStep ==
  ASSUME ConfigInv, Sources, Access, ConfigNext
  PROVE  Access'
  <1>1. IsConfig(cfg) /\ Reading /\ argv \in Argvs /\ argv' = argv
    BY ConfigMoves DEF ConfigInv, Reading, Moved
  <1>2. Len(argv) \in Nat /\ \A k \in 1..Len(argv) : argv[k] \in Words
    BY <1>1, ArgIsWord
  <1>3. CASE pc' = "exited"
    BY <1>3 DEF Access
  <1>4. CASE ExtractConfig
    <2>1. /\ cfg["acl"] = <<>> /\ cfg'["acl"] = cfg["acl"] /\ loaded' = loaded /\ loaded = ""
          /\ i' = 1 /\ pc' \in {"cli", "open"}
      BY <1>1, <1>4 DEF ExtractConfig, Access, Sources, Reading, IsConfig, Fields
    <2>2. OfFile("") = <<>>
      BY DEF OfFile, FilePart, Gathered
    <2>3. \A P \in Positions(argv) : Listed(argv, P, "", 1, cfg'["acl"])
      <3>1. <<>> \in Seq(STRING)
        OBVIOUS
      <3>2. QED
        BY <2>1, <2>2, <3>1, CapEmpty, NothingListed
    <2>4. QED
      BY <1>1, <2>1, <2>3 DEF Access
  <1>5. CASE OpenFile
    <2>1. cfg["acl"] = <<>> /\ cfg' = cfg /\ i' = 1 /\ pc' = "lines"
      BY <1>1, <1>5 DEF OpenFile, Access, Reading
    <2>2. \A s : Gathered(s, 1 - 1) = <<>>
      BY DEF Gathered
    <2>3. <<>> \in Seq(STRING)
      OBVIOUS
    <2>4. QED
      BY <2>1, <2>2, <2>3, CapEmpty DEF Access
  <1>6. CASE LoadLine
    <2>1. /\ pc = "lines" /\ pc' = "lines" /\ loaded' = loaded /\ i' = i + 1
          /\ loaded \in DOMAIN Files /\ i \in 1..(Len(Files[loaded]) + 1)
          /\ i <= Len(Files[loaded])
          /\ cfg' = set_config_field(cfg, Files[loaded][i].key, Files[loaded][i].value)
      BY <1>1, <1>6 DEF LoadLine, Reading
    <2>2. i \in 1..Len(Files[loaded]) /\ (i + 1) - 1 = i
      BY <2>1, LineIsWord
    <2>3. /\ Gathered(FilePart(loaded), i - 1) \in Seq(STRING)
          /\ cfg["acl"] = Cap(Gathered(FilePart(loaded), i - 1))
      BY <2>1 DEF Access
    <2>4. /\ Gathered(FilePart(loaded), i) \in Seq(STRING)
          /\ cfg'["acl"] = Cap(Gathered(FilePart(loaded), i))
      BY <1>1, <2>1, <2>2, <2>3, LineListed
    <2>5. QED
      BY <2>1, <2>2, <2>4 DEF Access
  <1>7. CASE EndOfFile
    <2>1. /\ pc = "lines" /\ pc' = "cli" /\ loaded' = loaded /\ i' = 1 /\ cfg' = cfg
          /\ loaded \in DOMAIN Files /\ i \in 1..(Len(Files[loaded]) + 1)
          /\ i > Len(Files[loaded])
      BY <1>1, <1>7 DEF EndOfFile, Reading
    <2>2. i = Len(Files[loaded]) + 1 /\ i - 1 = Len(Files[loaded])
      BY <2>1, LineIsWord
    <2>3. Len(FilePart(loaded)) = Len(Files[loaded])
      BY <2>1, FilePartIs
    <2>4. OfFile(loaded) \in Seq(STRING) /\ cfg["acl"] = Cap(OfFile(loaded))
      BY <2>1, <2>2, <2>3 DEF Access, OfFile
    <2>5. \A P \in Positions(argv) : Listed(argv, P, loaded, 1, cfg["acl"])
      BY <2>4, NothingListed
    <2>6. QED
      BY <1>1, <2>1, <2>5 DEF Access
  <1>8. CASE Daemonize
    <2>1. /\ pc = "cli" /\ pc' = "cli" /\ loaded' = loaded /\ i' = i + 1
          /\ i \in 1..Len(argv) /\ argv[i] = "--daemonize" /\ cfg'["acl"] = cfg["acl"]
      <3>1. /\ pc = "cli" /\ pc' = "cli" /\ loaded' = loaded /\ i' = i + 1
            /\ i \in 1..(Len(argv) + 1) /\ i <= Len(argv) /\ argv[i] = "--daemonize"
            /\ cfg' = [cfg EXCEPT !["daemonize"] = 1]
        BY <1>1, <1>8 DEF Daemonize, AtArg, Arg, Reading
      <3>2. i \in 1..Len(argv)
        BY <1>2, <3>1
      <3>3. cfg'["acl"] = cfg["acl"]
        BY <1>1, <3>1 DEF IsConfig
      <3>4. QED
        BY <3>1, <3>2, <3>3
    <2>2. \A P \in Positions(argv) : Listed(argv, P, loaded, i, cfg["acl"])
      BY <2>1 DEF Access
    <2>3. \A P \in Positions(argv) : Listed(argv, P, loaded, i + 1, cfg["acl"])
      BY <1>1, <2>1, <2>2, FlagListed
    <2>4. QED
      BY <1>1, <2>1, <2>3 DEF Access
  <1>9. CASE SetOption
    <2>1. /\ pc = "cli" /\ pc' = "cli" /\ loaded' = loaded /\ i' = i + 2
          /\ i \in 1..(Len(argv) + 1) /\ i < Len(argv) /\ argv[i] \in ValueOptions
          /\ cfg' = Set(cfg, FieldOf(argv[i]), argv[i + 1])
      BY <1>1, <1>9 DEF SetOption, AtArg, Arg, Reading
    <2>2. i \in 1..Len(argv) /\ argv[i + 1] \in Words
      BY <1>2, <2>1
    <2>3. \A P \in Positions(argv) : Parsing(argv, P, i) /\ Listed(argv, P, loaded, i, cfg["acl"])
      BY <2>1 DEF Access, Sources, SoFar
    <2>4. \A P \in Positions(argv) : Listed(argv, P, loaded, i + 2, cfg'["acl"])
      BY <1>1, <2>1, <2>2, <2>3, OptionListed
    <2>5. QED
      BY <1>1, <2>1, <2>4 DEF Access
  <1>10. CASE Validate
    <2>1. /\ pc = "cli" /\ pc' \in {"serving", "exited"} /\ loaded' = loaded /\ cfg' = cfg
          /\ i \in 1..(Len(argv) + 1) /\ i > Len(argv)
      BY <1>1, <1>10 DEF Validate, Reading
    <2>2. i = Len(argv) + 1
      BY <1>2, <2>1
    <2>3. \A P \in Positions(argv) : Listed(argv, P, loaded, Len(argv) + 1, cfg["acl"])
      BY <2>1, <2>2 DEF Access
    <2>4. QED
      BY <1>1, <2>1, <2>3 DEF Access
  <1>11. EarlyExit \/ NoSuchFile \/ Help \/ BadArg => pc' = "exited"
    BY DEF EarlyExit, NoSuchFile, Help, BadArg, Exit
  <1>12. QED
    BY <1>3, <1>4, <1>5, <1>6, <1>7, <1>8, <1>9, <1>10, <1>11 DEF ConfigNext

(* It is so in every reachable state.                                      *)
LEMMA AccessHolds == Spec => []Access
  <1>1. StartupInit => Access
    <2>1. config_defaults["acl"] = <<>>
      BY DEF config_defaults
    <2>2. QED
      BY <2>1 DEF StartupInit, Init, Access
  <1>2. IInv /\ Sources /\ Access /\ [StartupNext]_vars => Access'
    <2>1. SUFFICES ASSUME IInv, Sources, Access, [StartupNext]_vars PROVE Access'
      OBVIOUS
    <2>2. CASE Configure
      BY <2>1, <2>2, AccessStep DEF Configure, IInv
    <2>3. CASE UNCHANGED configVars
      BY <2>1, <2>3 DEF configVars, Access
    <2>4. QED
      BY <2>1, <2>2, <2>3 DEF StartupNext, Serve, Exited, vars
  <1>3. QED
    BY Invariance, SourcesHold, <1>1, <1>2, PTL DEF Spec

-----------------------------------------------------------------------------
(* Theorems                                                                *)

(* The fields of config_t, of the request and main()'s positions keep      *)
(* their types: what is parsed fits an int32_t, and the access list its    *)
(* array (config.c:93-260).                                                *)
THEOREM TypeCorrect == Spec => []TypeOK
  <1>1. IInv => TypeOK
    <2> SUFFICES ASSUME IInv PROVE TypeOK
      OBVIOUS
    <2>1. i \in 1..(Len(argv) + 1) \union 1..(Len(FileLines) + 1)
          /\ pc \in {"flags", "open", "lines", "cli", "serving", "exited"}
          /\ loaded \in DOMAIN Files \union {""}
      BY DEF IInv, ConfigInv, Reading
    <2>2. DOMAIN cfg = DOMAIN config_defaults /\ Len(cfg.acl) <= ACL_MAX
          /\ \A f \in IntFields : cfg[f] \in -Half..(Half - 1)
      BY DefaultsFit DEF IInv, ConfigInv, IsConfig
    <2>3. /\ rpc \in {"idle", "nomem", "parse", "messages", "message", "prompt", "options",
                      "resolve", "submit", "queued", "orphan", "lost", "error", "answered"}
          /\ n \in 0..MAX_MESSAGES /\ oom \in BOOLEAN /\ doubleFree \in BOOLEAN
          /\ status \in {0, 400, 500, 503}
      BY DEF IInv, RequestInv, Turn, Blocks, Refused
    <2>4. DOMAIN req = DOMAIN NewReq /\ req.max_tokens \in -Half..(Half - 1)
      BY DEF IInv, RequestInv, Turn, RequestRecord, NewReq
    <2>5. body.kind \in {"none", "chat", "completion"}
      <3>1. body = NoBody \/ body \in Bodies
        BY DEF IInv, RequestInv, Turn
      <3>2. QED
        BY <3>1, BodyMembers DEF NoBody
    <2>6. heap \subseteq {"job", "cd", "root", "messages"}
      BY <2>3 DEF IInv, RequestInv, Blocks, Parsed, MessagesOf
    <2>7. QED
      BY <2>1, <2>2, <2>3, <2>4, <2>5, <2>6 DEF TypeOK
  <1>2. QED
    BY Invariance, <1>1, PTL

(* Each block of a request is freed once and none is left, on every path   *)
(* from a calloc that fails to the answer and to the client that leaves,   *)
(* but for the job of one that leaves after the worker's look for it       *)
(* (server.c:246-251, api_types.c:76, worker.c:279, worker.c:377).         *)
THEOREM HeapBalanced == Spec => []HeapSound
  <1>1. IInv => HeapSound
    <2> SUFFICES ASSUME IInv PROVE HeapSound
      OBVIOUS
    <2>1. Blocks
      BY DEF IInv, RequestInv
    <2>2. MessagesOf(req) \subseteq {"messages"}
      BY DEF MessagesOf
    <2>3. QED
      BY <2>1, <2>2 DEF Blocks, HeapSound, Parsed
  <1>2. QED
    BY Invariance, <1>1, PTL

(* A request is refused as invalid exactly if it is, and the worker gets   *)
(* the conversation or prompt and the stop sequences the client sent: each *)
(* text whole if it fits its buffer, otherwise exactly what the buffer     *)
(* holds of it (server.c:305, api_types.c:47-330).                         *)
THEOREM RequestRead == Spec => []RequestUnderstood
  <1>1. IInv => RequestUnderstood
    <2> SUFFICES ASSUME IInv PROVE RequestUnderstood
      OBVIOUS
    <2> USE DEF IInv, RequestInv
    <2>1. status = 400 => oom \/ ~Acceptable(body)
      BY DEF Refused
    <2>2. Parsed => body \in Bodies /\ body.json
      BY DEF Turn, Parsed
    <2>3. ASSUME Parsed, body.kind = "chat"
          PROVE  /\ Acceptable(body) /\ Len(req.messages) = Len(body.messages)
                 /\ \A k \in DOMAIN req.messages :
                      /\ req.messages[k].role = body.messages[k].role
                      /\ CutOnlyAtEnd(req.messages[k].content, body.messages[k].content,
                                      CONTENT_MAX)
      <3>1. /\ body.messages # Absent /\ Len(body.messages) \in 1..MAX_MESSAGES
            /\ n = Len(body.messages) /\ req.messages # Absent /\ Len(req.messages) = n
            /\ \A k \in 1..n :
                 LET sent == body.messages[k]
                 IN  /\ sent.role \in Roles /\ req.messages[k].role = sent.role
                     /\ req.messages[k].content =
                          IF sent.content = Absent THEN <<>>
                          ELSE Stored(sent.content, CONTENT_MAX)
        BY <2>3 DEF Conversation
      <3>2. /\ DOMAIN body.messages = 1..n /\ n \in Nat
            /\ \A k \in 1..n : body.messages[k] \in Message
        BY <2>2, <2>3, <3>1, SentMessages
      <3>3. Acceptable(body)
        BY <2>2, <2>3, <3>1, <3>2 DEF Acceptable
      <3>4. DOMAIN req.messages = 1..n
        <4>1. req.messages \in Seq(Entry)
          BY <3>1 DEF Turn, RequestRecord
        <4>2. QED
          BY <3>1, <4>1
      <3>5. ASSUME NEW k \in 1..n
            PROVE  CutOnlyAtEnd(req.messages[k].content, body.messages[k].content, CONTENT_MAX)
        <4>1. body.messages[k].content \in Text
          BY <3>2 DEF Message
        <4>2. QED
          BY <3>1, <4>1, Limits, Kept
      <3>6. QED
        BY <3>1, <3>3, <3>4, <3>5
    <2>4. ASSUME Parsed, body.kind = "completion"
          PROVE  Acceptable(body) /\ CutOnlyAtEnd(req.prompt, body.prompt, CONTENT_MAX)
      <3>1. body.prompt # Absent /\ req.prompt = Stored(body.prompt, CONTENT_MAX)
        BY <2>4 DEF Conversation
      <3>2. body.prompt \in Text
        BY <2>2, <2>4, BodyMembers
      <3>3. QED
        BY <2>2, <2>4, <3>1, <3>2, Limits, Kept DEF Acceptable
    <2>5. Parsed => body.kind \in {"chat", "completion"}
      BY <2>2, BodyMembers
    <2>6. ASSUME Parsed
          PROVE  /\ Len(req.stop) = Min({Len(Entries(body)), STOP_MAX})
                 /\ \A k \in DOMAIN req.stop :
                      CutOnlyAtEnd(req.stop[k], Entries(body)[k], STOP_LEN)
      <3>1. req.stop = Stops(body)
        BY <2>6 DEF Members
      <3>2. QED
        BY <2>2, <2>6, <3>1, StopsSent
    <2>7. QED
      BY <2>1, <2>3, <2>4, <2>5, <2>6 DEF RequestUnderstood
  <1>2. QED
    BY Invariance, <1>1, PTL

(* Whatever a client sends, an inference runs with parameters in their     *)
(* ranges and for at least one token and at most a context                 *)
(* (inference.c:560-609).                                                  *)
THEOREM ParamsBounded == Spec => []ParamsInRange
  <1>1. IInv => ParamsInRange
    BY DEF IInv, RequestInv
  <1>2. QED
    BY Invariance, <1>1, PTL

(* The advice of --recommend holds on any machine hw_detect may find       *)
(* (recommend.c:470-599).                                                  *)
THEOREM AdviceGiven == Spec => []AdviceSound
  <1>1. IInv => AdviceSound
    <2> SUFFICES ASSUME IInv, advice # NoAdvice PROVE AdviceHolds(advice)
      BY DEF AdviceSound
    <2>1. PICK hw \in Machines : advice = hw_print_recommendations(hw)
      BY DEF IInv, ConfigInv, Advised
    <2>2. hw \in Machine
      BY MachinesAssumption
    <2>3. QED
      BY <2>1, <2>2, AdviceIsSound
  <1>2. QED
    BY Invariance, <1>1, PTL

(* No option is the empty word.                                            *)
LEMMA OptionsAreWords == "" \notin ValueOptions \union {"--daemonize"}
  <1> DEFINE W == {"--config", "--model", "--model-alias", "--n-ctx", "--fing-longer",
                   "--n-gpu-layers", "--n-batch", "--n-threads", "--temperature", "--top-p",
                   "--top-k", "--repeat-penalty", "--max-tokens", "--listen-addr", "--api-key",
                   "--pid-file", "--max-inference-seconds", "--stats-interval", "--log-level",
                   "--log-file", "--allow-ip"}
  <1>1. ValueOptions \subseteq W
    BY DEF ValueOptions, Options
  <1>2. "" \notin W \union {"--daemonize"}
    BY Zenon
  <1> HIDE DEF W
  <1>3. QED
    BY <1>1, <1>2, Zenon

(* The file a server has read is the one its first --config option names:  *)
(* a "--config" that is the value of another option would be followed by   *)
(* an option, which names no file.                                         *)
LEMMA FirstIsOption ==
  ASSUME NEW a \in Argvs, NEW P \in Positions(a), Parsing(a, P, Len(a) + 1),
         Readable(FirstOf(a))
  PROVE  LET given == Before(a, P, "config_file", Len(a) + 1)
         IN  FirstOf(a) = IF given = {} THEN "" ELSE snprintf("config_file", a[Min(given) + 1])
  <1> DEFINE given == Before(a, P, "config_file", Len(a) + 1)
             C == Configs(a)
  <1>0. PICK N \in Nat : N = Len(a)
    BY PositionIs
  <1>1. /\ \A k \in P : k \in 1..N /\ k < N + 1
        /\ C = {k \in 1..(N - 1) : a[k] = "--config"} /\ C \in SUBSET Nat
    <2>1. P \subseteq 1..N
      BY <1>0, PositionIs
    <2>2. C = {k \in 1..(N - 1) : a[k] = "--config"}
      BY <1>0 DEF Configs
    <2>3. \A k \in 1..N : k < N + 1
      BY <1>0
    <2> HIDE DEF C
    <2>4. C \subseteq Nat
      BY <2>2
    <2>5. QED
      BY <2>1, <2>2, <2>3, <2>4
  <1>2. given = {k \in P : a[k] = "--config"}
    <2>1. "--config" \in ValueOptions
      BY DEF ValueOptions, Options
    <2>2. \A k \in P : a[k] \in ValueOptions /\ FieldOf(a[k]) = "config_file" <=> a[k] = "--config"
      BY <2>1, FieldOfConfig
    <2>3. \A k \in P : k < N + 1
      BY <1>1
    <2>4. given = {k \in P : a[k] \in ValueOptions /\ FieldOf(a[k]) = "config_file" /\ k < N + 1}
      BY <1>0 DEF Before
    <2> HIDE DEF given
    <2>5. QED
      BY <2>2, <2>3, <2>4
  <1>3. given \subseteq C
    <2>1. ASSUME NEW k \in P, a[k] = "--config"
          PROVE  k \in 1..(N - 1)
      <3>1. a[k] \in ValueOptions
        BY <2>1 DEF ValueOptions, Options
      <3>2. k \in 1..N /\ k + 1 < N + 1
        BY <1>0, <1>1, <3>1 DEF Parsing
      <3>3. QED
        BY <1>0, <3>2
    <2>2. QED
      BY <1>1, <1>2, <2>1
  <1> HIDE DEF given, C
  <1>4. CASE C = {}
    BY <1>3, <1>4 DEF FirstOf, C, given
  <1>5. CASE C # {}
    <2>1. PICK m \in C : \A j \in C : m <= j
      BY <1>1, <1>5, Least
    <2>2. Min(C) = m
      <3>1. C \subseteq Nat /\ Nat \subseteq Int
        BY <1>1
      <3>2. QED
        BY <2>1, <3>1, MinIsLeast
    <2>3. FirstOf(a) = snprintf("config_file", a[m + 1])
      BY <1>5, <2>2 DEF FirstOf, C
    <2>4. m \in 1..(N - 1) /\ a[m] = "--config"
      BY <1>1, <2>1
    <2>5. m \in P
      <3>1. SUFFICES ASSUME m \notin P PROVE FALSE
        OBVIOUS
      <3>2. m + 1 \in 1..N /\ (m + 1) - 1 = m /\ m + 1 < N + 1
        BY <1>0, <2>4
      <3>3. m + 1 \in P
        BY <1>0, <3>1, <3>2, PositionIs
      <3>4. a[m + 1] \in ValueOptions \union {"--daemonize"}
        BY <1>0, <3>2, <3>3 DEF Parsing
      <3>5. FirstOf(a) = a[m + 1]
        BY <2>3, <3>4, OptionAssumption
      <3>6. a[m + 1] # ""
        BY <3>4, OptionsAreWords, Zenon
      <3>7. QED
        BY <3>4, <3>5, <3>6, PathAssumption DEF Readable
    <2>6. m \in given
      BY <1>2, <2>4, <2>5
    <2>7. given \in SUBSET Int /\ \A j \in given : m <= j
      <3>1. C \subseteq Nat /\ Nat \subseteq Int
        BY <1>1
      <3>2. QED
        BY <1>3, <2>1, <3>1
    <2>8. Min(given) = m
      BY <2>6, <2>7, MinIsLeast
    <2>9. QED
      BY <2>3, <2>6, <2>8 DEF given
  <1>6. QED
    BY <1>4, <1>5

(* README.md:55: the command line overrides the file of its first          *)
(* --config, which overrides the defaults; the last mention counts, and no *)
(* value that looks like an option is taken for one (config.c:93-260,      *)
(* main.c:61-115).                                                         *)
THEOREM SettingsPrecede == Spec => []Precedence
  <1>1. IInv /\ Sources => Precedence
    <2> SUFFICES ASSUME IInv, Sources, pc = "serving" PROVE Precedence
      BY DEF Precedence
    <2>1. argv \in Argvs /\ loaded \in DOMAIN Files \union {""}
      BY DEF IInv, ConfigInv, Reading
    <2>2. OptionAt \in Positions(argv)
      <3>1. Positions(argv) # {}
        BY <2>1, PositionsExist
      <3>2. QED
        BY <3>1 DEF Positions, OptionAt
    <2>3. PICK P \in Positions(argv) : P = OptionAt
      BY <2>2
    <2>4. /\ Parsing(argv, P, Len(argv) + 1)
          /\ Settled(argv, P, Len(argv) + 1, cfg, loaded) /\ loaded = FirstOf(argv)
      BY DEF Sources, SoFar
    <2>5. Len(argv) \in Nat /\ \A k \in P : k \in 1..Len(argv) /\ k < Len(argv) + 1
      <3>1. PICK N \in Nat : N = Len(argv)
        BY <2>1, PositionIs
      <3>2. P \subseteq 1..N
        BY <2>1, <3>1, PositionIs
      <3>3. \A k \in P : k \in 1..N /\ k < N + 1
        BY <3>2
      <3>4. QED
        BY <3>1, <3>3
    <2>6. \A f : Setting(P, f) = Before(argv, P, f, Len(argv) + 1)
      BY <2>5 DEF Setting, Before
    <2>7. \A f : Setting(OptionAt, f) = Before(argv, P, f, Len(argv) + 1)
      BY <2>3, <2>6
    <2>8. loaded = IF Setting(OptionAt, "config_file") = {} THEN ""
                   ELSE snprintf("config_file", argv[Min(Setting(OptionAt, "config_file")) + 1])
      <3>1. Readable(FirstOf(argv))
        BY <2>1, <2>4 DEF Readable
      <3>2. QED
        BY <2>1, <2>3, <2>4, <2>7, <3>1, FirstIsOption
    <2>9. \A f : FromFile(loaded, f, Len(Files[loaded]) + 1)
                   = IF f \in IniKeys /\ LinesFor(f) # {}
                     THEN Converted(f, FileLines[Max(LinesFor(f))].value)
                     ELSE config_defaults[f]
      <3>1. CASE loaded = ""
        <4>1. FileLines = <<>> /\ DOMAIN FileLines = {}
          <5>1. FileLines = <<>>
            BY <3>1 DEF FileLines
          <5>2. DOMAIN <<>> = {}
            OBVIOUS
          <5>3. QED
            BY <5>1, <5>2
        <4>2. \A f : LinesFor(f) = {}
          BY <4>1 DEF LinesFor
        <4>3. QED
          BY <3>1, <4>2 DEF FromFile
      <3>2. CASE loaded # ""
        <4>1. FileLines = Files[loaded] /\ loaded \in DOMAIN Files
          BY <2>1, <3>2 DEF FileLines
        <4>2. \A k \in DOMAIN Files[loaded] : k < Len(Files[loaded]) + 1
          <5>1. Files[loaded] \in Seq([key : STRING, value : STRING])
            BY <4>1, WordsAssumption
          <5>2. QED
            BY <5>1
        <4>3. \A f : LinesFor(f) = Above(loaded, f, Len(Files[loaded]) + 1)
          BY <4>1, <4>2 DEF LinesFor, Above
        <4>4. QED
          BY <3>2, <4>1, <4>3 DEF FromFile
      <3>3. QED
        BY <3>1, <3>2
    <2>10. ASSUME NEW f \in Scalars \ {"daemonize"}
           PROVE  cfg[f] = IF Setting(OptionAt, f) # {}
                           THEN Converted(f, argv[Max(Setting(OptionAt, f)) + 1])
                           ELSE IF f \in IniKeys /\ LinesFor(f) # {}
                           THEN Converted(f, FileLines[Max(LinesFor(f))].value)
                           ELSE config_defaults[f]
      <3>1. cfg[f] = IF Setting(OptionAt, f) = {} THEN Base(argv, loaded, f)
                     ELSE Converted(f, argv[Max(Setting(OptionAt, f)) + 1])
        BY <2>4, <2>7 DEF Settled
      <3>2. CASE f # "config_file"
        BY <2>9, <3>1, <3>2 DEF Base
      <3>3. CASE f = "config_file"
        <4>1. Setting(OptionAt, f) = {} => Base(argv, loaded, f) = ""
          BY <2>4, <2>8, <3>3 DEF Base
        <4>2. f \notin IniKeys /\ config_defaults[f] = ""
          BY <3>3 DEF IniKeys, config_defaults
        <4>3. QED
          BY <3>1, <4>1, <4>2
      <3>4. QED
        BY <3>2, <3>3
    <2>11. (\E k \in OptionAt : argv[k] = "--daemonize") => cfg.daemonize = 1
      BY <2>3, <2>4, <2>5 DEF Settled
    <2> DEFINE given == [f \in Scalars |-> Setting(OptionAt, f)]
    <2>12. \A f \in Scalars : given[f] = Setting(OptionAt, f)
      OBVIOUS
    <2>13. given.config_file = Setting(OptionAt, "config_file")
      BY <2>12 DEF Scalars, StrFields
    <2> HIDE DEF given
    <2>14. /\ loaded = IF given.config_file = {} THEN ""
                       ELSE snprintf("config_file", argv[Min(given.config_file) + 1])
           /\ \A f \in Scalars \ {"daemonize"} :
                cfg[f] = IF given[f] # {} THEN Converted(f, argv[Max(given[f]) + 1])
                         ELSE IF f \in IniKeys /\ LinesFor(f) # {}
                         THEN Converted(f, FileLines[Max(LinesFor(f))].value)
                         ELSE config_defaults[f]
      BY <2>8, <2>10, <2>12, <2>13
    <2>15. QED
      BY <2>11, <2>14, Zenon DEF Precedence, given
  <1>2. QED
    BY Invariance, SourcesHold, <1>1, PTL

(* The access list of a server that started holds the addresses of its     *)
(* file, then those of its command line, each once per mention, and all of *)
(* them that its array has room for (config.c:105-125, config.c:228).      *)
THEOREM ListAccumulates == Spec => []AclAccumulates
  <1>1. IInv /\ Sources /\ Access => AclAccumulates
    <2> SUFFICES ASSUME IInv, Sources, Access, pc = "serving" PROVE AclAccumulates
      BY DEF AclAccumulates
    <2>1. argv \in Argvs /\ loaded \in DOMAIN Files \union {""}
      BY DEF IInv, ConfigInv, Reading
    <2>2. PICK P \in Positions(argv) : P = OptionAt
      <3>1. Positions(argv) # {}
        BY <2>1, PositionsExist
      <3>2. OptionAt \in Positions(argv)
        BY <3>1 DEF Positions, OptionAt
      <3>3. QED
        BY <3>2
    <2> DEFINE inFile == [k \in DOMAIN FileLines |->
                            IF k \in LinesFor("allow_ip")
                            THEN Addresses(FileLines[k].value) ELSE <<>>]
               onLine == [k \in DOMAIN argv |->
                            IF k \in Setting(OptionAt, "allow_ip")
                            THEN Addresses(argv[k + 1]) ELSE <<>>]
               all == OfFile(loaded) \o Gathered(ArgPart(argv, P), Len(argv))
    <2>3. all \in Seq(STRING) /\ cfg["acl"] = Cap(all)
      <3>1. \A m \in Nat : (m + 1) - 1 = m
        OBVIOUS
      <3>2. (Len(argv) + 1) - 1 = Len(argv)
        BY <2>1, <3>1, ArgIsWord, Zenon
      <3>3. Listed(argv, P, loaded, Len(argv) + 1, cfg["acl"])
        BY DEF Access
      <3>4. OfFile(loaded) \in Seq(STRING) /\ Gathered(ArgPart(argv, P), Len(argv)) \in Seq(STRING)
            /\ cfg["acl"] = Cap(all)
        BY <3>2, <3>3 DEF Listed
      <3>5. QED
        BY <3>4
    <2>4. OfFile(loaded) = FlattenSeq(inFile)
      <3>1. CASE loaded = ""
        <4>1. FileLines = <<>>
          BY <3>1 DEF FileLines
        <4>2. DOMAIN FileLines = {} /\ <<>> = [k \in {} |-> <<>>]
          BY <4>1
        <4>3. inFile = <<>> /\ FilePart(loaded) = <<>>
          BY <3>1, <4>2 DEF FilePart
        <4>4. QED
          BY <4>3, GatherAll DEF OfFile
      <3>2. CASE loaded # ""
        <4>1. FileLines = Files[loaded] /\ loaded \in DOMAIN Files
          BY <2>1, <3>2 DEF FileLines
        <4>2. Len(Files[loaded]) \in Nat /\ DOMAIN Files[loaded] = 1..Len(Files[loaded])
          <5>1. Files[loaded] \in Seq([key : STRING, value : STRING])
            BY <4>1, WordsAssumption
          <5>2. QED
            BY <5>1
        <4>3. inFile = FilePart(loaded)
          BY <3>2, <4>1 DEF FilePart, LinesFor
        <4>4. Len(inFile) = Len(Files[loaded]) /\ (Len(inFile) = 0 => inFile = <<>>)
          BY <4>1, <4>2
        <4> HIDE DEF inFile
        <4>5. FlattenSeq(inFile) = Gathered(inFile, Len(inFile))
          BY <4>2, <4>4, GatherAll
        <4>6. QED
          BY <4>3, <4>5 DEF OfFile
      <3>3. QED
        BY <3>1, <3>2
    <2>5. Gathered(ArgPart(argv, P), Len(argv)) = FlattenSeq(onLine)
      <3>1. Len(argv) \in Nat /\ DOMAIN argv = 1..Len(argv)
        BY <2>1, PositionIs
      <3>2. onLine = ArgPart(argv, P)
        BY <2>2 DEF ArgPart, Setting
      <3>3. Len(onLine) = Len(argv) /\ (Len(onLine) = 0 => onLine = <<>>)
        BY <3>1
      <3> HIDE DEF onLine
      <3>4. FlattenSeq(onLine) = Gathered(onLine, Len(onLine))
        BY <3>1, <3>3, GatherAll
      <3>5. QED
        BY <3>2, <3>3, <3>4
    <2>6. all = FlattenSeq(inFile) \o FlattenSeq(onLine)
      BY <2>4, <2>5
    <2>7. IsPrefix(cfg["acl"], all) /\ Len(cfg["acl"]) = Min({Len(all), ACL_MAX})
      BY <2>3, CapIsPrefix
    <2> HIDE DEF all
    <2>8. QED
      BY <2>6, <2>7, Zenon DEF AclAccumulates
  <1>2. QED
    BY Invariance, SourcesHold, AccessHolds, <1>1, PTL
=============================================================================
