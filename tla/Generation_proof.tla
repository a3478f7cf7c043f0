-------------------------- MODULE Generation_proof --------------------------
(***************************************************************************)
(* Theorems about Generation for every context, batch and buffer size,     *)
(* every set of token texts and every set of stop sequences.               *)
(***************************************************************************)
EXTENDS Generation, SequenceTheorems, TLAPS

Early == {"start", "render", "chatml", "built", "template", "apply", "tokenize", "tokens",
          "prompt"}
Ended == {"chatfree", "returned", "reply", "answered"}

(* How many tokens there are at each place of the generation loop.         *)
Progress ==
    /\ pc \in Early => /\ i = 0 /\ n_generated = 0 /\ accepted = 0 /\ rc = 0
                       /\ finish_reason # "stop"
    /\ pc \in Early \ {"tokens", "prompt"} => n_prompt = 0 /\ n_processed = 0 /\ max_gen = 0
    /\ pc = "tokens" => n_prompt \in 1..(NCtx - 1) /\ n_processed = 0 /\ max_gen = 0
    /\ Generating => rc = 0 /\ finish_reason = "length"
    /\ pc \in {"tokens", "prompt"} => finish_reason = "length"
    /\ pc \in {"head", "sample"} => n_generated = i /\ accepted = i
    /\ pc = "callback" => n_generated = i + 1 /\ accepted = i
    /\ pc = "decode" => n_generated = i + 1 /\ accepted = i + 1
    /\ pc \in {"sample", "callback", "decode"} => i < max_gen
    /\ pc = "prompt" => max_gen > 0 /\ n_prompt > 0
    /\ pc = "prompt" => IF n_batch > 0 THEN n_processed >= 0 ELSE n_processed <= 0

(* A prompt that is decoded leaves room for max_gen tokens.                *)
Cache ==
    /\ kv <= NCtx
    /\ pc = "tokens" => kv = 0
    /\ pc = "prompt" => kv = IF n_batch > 0 THEN n_processed ELSE 0
    /\ pc = "prompt" \/ Generating \/ pc = "finish" => n_prompt + max_gen <= NCtx
    /\ Generating \/ pc = "finish" => kv = n_prompt + i

(* Which buffers exist where.                                              *)
Memory ==
    /\ pc \in {"render", "chatml", "built", "template", "apply"} => chat
    /\ "chat_msgs" \in heap => pc \in {"template", "apply"}
    /\ "tokens" \in heap => pc \in {"tokens", "prompt"}
    /\ "chain" \in heap => Generating \/ pc = "finish"
    /\ "formatted" \in heap =>
         chat /\ pc \notin {"start", "render", "chatml", "template", "returned", "reply",
                           "answered"}
    /\ "response" \in heap => pc \notin {"start", "answered"}
    /\ "response" \in heap => Len(response) < response_cap

(* A blocking job's response is the text, the last piece apart.            *)
Prefix ==
    /\ pc \in Early => text = <<>> /\ response = <<>> /\ window = <<>>
    /\ ~stream =>
         /\ pc \in {"head", "sample", "decode"} => response = text
         /\ pc = "callback" => text = response \o piece
         /\ response = text \/ (text = response \o piece /\ finish_reason # "length")
              \/ pc = "callback"

(* w is the end of t, as much of it as the window holds.                   *)
WindowOf(w, t) ==
    /\ Len(w) = IF Len(t) < Window THEN Len(t) ELSE Window
    /\ \A k \in 1..Len(w) : w[k] = t[Len(t) - Len(w) + k]

Rolling == stops # {} => WindowOf(window, text)

(* What generation_done and its callers may rely on.                       *)
Outcome ==
    /\ pc = "finish" => rc = 0
    /\ pc \in Ended /\ rc = -1 => accepted = 0 /\ n_generated = 0 /\ finish_reason # "length"
    /\ pc = "finish" \/ (pc \in Ended /\ rc = 0) =>
         /\ finish_reason = "length" <=> i = max_gen
         /\ finish_reason = "length" => accepted = max_gen
         /\ finish_reason = "time_limit" => expired
         /\ accepted \in {n_generated, n_generated - 1}

(* No token is sampled by a loop that was told to stop, but for the one    *)
(* that was under way; none late, but for those of one clock interval.     *)
Noticed ==
    /\ overrun <= 1 /\ (overrun > 0 => Stopping)
    /\ pc \in Early \union {"head", "sample", "decode"} => overrun = 0
    /\ late <= TimeoutEvery /\ (late > 0 => expired)
    /\ pc \in Early => late = 0
    /\ pc = "head" => late <= IF i % TimeoutEvery = 0 THEN TimeoutEvery ELSE i % TimeoutEvery
    /\ pc = "sample" => late <= i % TimeoutEvery
    /\ pc \in {"callback", "decode"} => late <= (i % TimeoutEvery) + 1

(* How many steps the worker thread has left before the job is answered:   *)
(* four for each token that may still come, one for each token of the      *)
(* prompt, and those of the stages around them.  With an n_batch that is   *)
(* not positive the steps through the prompt bring nothing nearer.         *)
Rank ==
    CASE pc = "start"   -> 13 + 5 * NCtx
      [] pc = "render"  -> 12 + 5 * NCtx
      [] pc = "template"-> 11 + 5 * NCtx
      [] pc = "chatml"  -> 10 + 5 * NCtx
      [] pc = "built"   -> 9 + 5 * NCtx
      [] pc = "apply"   -> 9 + 5 * NCtx
      [] pc = "tokenize"-> 8 + 5 * NCtx
      [] pc = "tokens"  -> 7 + 5 * NCtx
      [] pc = "prompt"   -> 6 + 4 * NCtx + IF n_batch > 0 THEN n_prompt - n_processed ELSE NCtx
      [] pc = "head"     -> 5 + 4 * (max_gen - i)
      [] pc = "sample"   -> 4 + 4 * (max_gen - i)
      [] pc = "callback" -> 3 + 4 * (max_gen - i)
      [] pc = "decode"   -> 2 + 4 * (max_gen - i)
      [] pc = "finish"   -> 4
      [] pc = "chatfree" -> 3
      [] pc = "returned" -> 2
      [] pc = "reply"    -> 1
      [] pc = "answered" -> 0

(* Every step of the worker brings the answer nearer, but for those of a   *)
(* prompt loop whose n_batch is not positive; a disconnect, a signal or    *)
(* the clock never puts it off.                                            *)
Nearer == IF WorkerStep /\ ~Idling THEN Rank' < Rank ELSE Rank' <= Rank

IInv == TypeOK /\ Progress /\ Cache /\ Memory /\ Prefix /\ Rolling /\ StopExact /\ Outcome
   /\ Noticed

-----------------------------------------------------------------------------
(* Lemmas about the operators                                              *)

(* Quotient and remainder are unique.                                      *)
LEMMA RemainderUnique ==
  ASSUME NEW m \in Nat \ {0}, NEW q \in Nat, NEW r \in 0..(m - 1)
  PROVE  (m * q + r) % m = r
  <1> DEFINE n == m * q + r
             d == n \div m
             e == n % m
  <1>1. n \in Nat /\ d \in Int /\ e \in 0..(m - 1) /\ n = m * d + e
    OBVIOUS
  <1>2. m * q - m * d = e - r /\ m * q \in Int /\ m * d \in Int
    BY <1>1
  <1> HIDE DEF n, d, e
  <1>3. CASE q >= d + 1
    <2>1. m * (q - d) >= m
      <3>1. q - d - 1 \in Nat
        BY <1>1, <1>3
      <3>2. m * (q - d - 1) >= 0
        BY <3>1
      <3>3. m * (q - d) = m * (q - d - 1) + m
        BY <1>1
      <3>4. QED
        BY <1>1, <3>1, <3>2, <3>3
    <2>2. m * (q - d) = m * q - m * d
      BY <1>1
    <2>3. QED
      BY <1>1, <1>2, <2>1, <2>2
  <1>4. CASE d >= q + 1
    <2>1. m * (d - q) >= m
      <3>1. d - q - 1 \in Nat
        BY <1>1, <1>4
      <3>2. m * (d - q - 1) >= 0
        BY <3>1
      <3>3. m * (d - q) = m * (d - q - 1) + m
        BY <1>1
      <3>4. QED
        BY <1>1, <3>1, <3>2, <3>3
    <2>2. m * (d - q) = m * d - m * q
      BY <1>1
    <2>3. QED
      BY <1>1, <1>2, <2>1, <2>2
  <1>5. CASE d = q
    BY <1>1, <1>2, <1>5 DEF e, n
  <1>6. QED
    BY <1>1, <1>3, <1>4, <1>5

(* The next remainder of a counter that is taken modulo the clock interval.*)
LEMMA NextRemainder ==
  ASSUME NEW n \in Nat
  PROVE  /\ n % TimeoutEvery \in 0..(TimeoutEvery - 1)
         /\ (n + 1) % TimeoutEvery =
              IF (n % TimeoutEvery) + 1 = TimeoutEvery THEN 0 ELSE (n % TimeoutEvery) + 1
  <1>1. TimeoutEvery \in Nat \ {0}
    BY TimeoutAssumption
  <1> DEFINE q == n \div TimeoutEvery
             r == n % TimeoutEvery
  <1>2. q \in Nat /\ r \in 0..(TimeoutEvery - 1) /\ n = TimeoutEvery * q + r
    BY <1>1
  <1> HIDE DEF q, r
  <1>3. CASE r + 1 = TimeoutEvery
    <2>1. n + 1 = TimeoutEvery * (q + 1) + 0
      BY <1>1, <1>2, <1>3
    <2>2. (TimeoutEvery * (q + 1) + 0) % TimeoutEvery = 0
      BY <1>1, <1>2, RemainderUnique
    <2>3. QED
      BY <1>2, <1>3, <2>1, <2>2 DEF r
  <1>4. CASE r + 1 # TimeoutEvery
    <2>1. n + 1 = TimeoutEvery * q + (r + 1) /\ r + 1 \in 0..(TimeoutEvery - 1)
      BY <1>1, <1>2, <1>4
    <2>2. (TimeoutEvery * q + (r + 1)) % TimeoutEvery = r + 1
      BY <1>1, <1>2, <2>1, RemainderUnique
    <2>3. QED
      BY <1>2, <1>4, <2>1, <2>2 DEF r
  <1>5. QED
    BY <1>3, <1>4

(* The last n elements of a sequence.                                      *)
LEMMA LastNProperties ==
  ASSUME NEW s \in Seq(Nat), NEW n \in 0..Len(s)
  PROVE  /\ LastN(s, n) \in Seq(Nat) /\ Len(LastN(s, n)) = n
         /\ \A k \in 1..n : LastN(s, n)[k] = s[Len(s) - n + k]
  <1>1. Len(s) \in Nat /\ n \in Nat /\ n <= Len(s)
    BY LenProperties
  <1>2. \A k \in (Len(s) - n + 1)..Len(s) : s[k] \in Nat
    BY <1>1, LenProperties
  <1>3. /\ LastN(s, n) \in Seq(Nat)
        /\ Len(LastN(s, n)) = IF Len(s) - n + 1 <= Len(s) THEN Len(s) - (Len(s) - n + 1) + 1 ELSE 0
        /\ \A k \in 1..(Len(s) - (Len(s) - n + 1) + 1) :
              LastN(s, n)[k] = s[Len(s) - n + 1 + k - 1]
    BY <1>1, <1>2, SubSeqProperties DEF LastN
  <1>4. Len(s) - (Len(s) - n + 1) + 1 = n /\ \A k \in Int : Len(s) - n + 1 + k - 1 = Len(s) - n + k
    BY <1>1
  <1>5. QED
    BY <1>1, <1>3, <1>4

(* A suffix, element by element.                                           *)
LEMMA EndsWithElements ==
  ASSUME NEW s \in Seq(Nat), NEW t \in Seq(Nat)
  PROVE  EndsWith(s, t) <=> /\ Len(t) <= Len(s)
                            /\ \A k \in 1..Len(t) : s[Len(s) - Len(t) + k] = t[k]
  <1>1. Len(s) \in Nat /\ Len(t) \in Nat
    BY LenProperties
  <1>2. CASE Len(t) <= Len(s)
    <2>1. Len(t) \in 0..Len(s)
      BY <1>1, <1>2
    <2>2. /\ LastN(s, Len(t)) \in Seq(Nat) /\ Len(LastN(s, Len(t))) = Len(t)
          /\ \A k \in 1..Len(t) : LastN(s, Len(t))[k] = s[Len(s) - Len(t) + k]
      BY <2>1, LastNProperties
    <2>3. LastN(s, Len(t)) = t <=> \A k \in 1..Len(t) : LastN(s, Len(t))[k] = t[k]
      BY <2>2, SeqEqual
    <2>4. QED
      BY <1>2, <2>2, <2>3 DEF EndsWith
  <1>3. CASE ~(Len(t) <= Len(s))
    BY <1>3 DEF EndsWith
  <1>4. QED
    BY <1>2, <1>3

(* A concatenation, part by part.                                          *)
LEMMA ConcatParts ==
  ASSUME NEW s \in Seq(Nat), NEW t \in Seq(Nat)
  PROVE  /\ s \o t \in Seq(Nat) /\ Len(s \o t) = Len(s) + Len(t)
         /\ \A k \in 1..Len(s) : (s \o t)[k] = s[k]
         /\ \A k \in 1..Len(t) : (s \o t)[Len(s) + k] = t[k]
  <1>1. Len(s) \in Nat /\ Len(t) \in Nat
    BY LenProperties
  <1>2. /\ s \o t \in Seq(Nat) /\ Len(s \o t) = Len(s) + Len(t)
        /\ \A k \in 1..(Len(s) + Len(t)) : (s \o t)[k] = IF k <= Len(s) THEN s[k] ELSE t[k - Len(s)]
    BY ConcatProperties
  <1>3. ASSUME NEW k \in 1..Len(s)
        PROVE  (s \o t)[k] = s[k]
    <2>1. k \in 1..(Len(s) + Len(t)) /\ k <= Len(s)
      BY <1>1
    <2>2. QED
      BY <1>2, <2>1
  <1>4. ASSUME NEW k \in 1..Len(t)
        PROVE  (s \o t)[Len(s) + k] = t[k]
    <2>1. Len(s) + k \in 1..(Len(s) + Len(t)) /\ ~(Len(s) + k <= Len(s)) /\ Len(s) + k - Len(s) = k
      BY <1>1
    <2>2. QED
      BY <1>2, <2>1
  <1>5. QED
    BY <1>2, <1>3, <1>4

(* Shifting the window keeps it the end of the text.                       *)
LEMMA SlideKeepsEnd ==
  ASSUME NEW w \in Seq(Nat), NEW t \in Seq(Nat), NEW p \in Seq(Nat), WindowOf(w, t)
  PROVE  Slide(w, p) \in Seq(Nat) /\ WindowOf(Slide(w, p), t \o p)
  <1> DEFINE u == t \o p
             z == Slide(w, p)
  <1>1. Len(w) \in Nat /\ Len(t) \in Nat /\ Len(p) \in Nat /\ Window \in Nat \ {0}
    BY LenProperties, TextAssumption
  <1>2. Len(u) = Len(t) + Len(p)
    BY ConcatParts
  <1>3. Len(w) = IF Len(t) < Window THEN Len(t) ELSE Window
    BY DEF WindowOf
  <1>4. CASE Len(p) > Window
    <2>1. z = LastN(p, Window) /\ Window \in 0..Len(p)
      BY <1>1, <1>4 DEF Slide
    <2>2. z \in Seq(Nat) /\ Len(z) = Window /\ \A k \in 1..Window : z[k] = p[Len(p) - Window + k]
      BY <2>1, LastNProperties
    <2>3. ASSUME NEW k \in 1..Window
          PROVE  z[k] = u[Len(t) + Len(p) - Window + k]
      <3>1. /\ Len(p) - Window + k \in 1..Len(p)
            /\ Len(t) + (Len(p) - Window + k) = Len(t) + Len(p) - Window + k
        BY <1>1, <1>4
      <3>2. u[Len(t) + (Len(p) - Window + k)] = p[Len(p) - Window + k]
        BY <3>1, ConcatParts
      <3>3. QED
        BY <2>2, <3>1, <3>2
    <2>4. WindowOf(z, u)
      <3>1. Len(z) = IF Len(u) < Window THEN Len(u) ELSE Window
        BY <1>1, <1>2, <1>4, <2>2
      <3> HIDE DEF u, z
      <3>2. \A k \in 1..Len(z) : Len(u) - Len(z) + k = Len(t) + Len(p) - Window + k
        BY <1>1, <1>2, <2>2
      <3>3. \A k \in 1..Len(z) : z[k] = u[Len(u) - Len(z) + k]
        BY <2>2, <2>3, <3>2
      <3>4. QED
        BY <3>1, <3>3 DEF WindowOf
    <2>5. QED
      BY <2>2, <2>4
  <1>5. CASE ~(Len(p) > Window)
    <2> DEFINE m == Len(w) - clamp_i(Len(w) + Len(p) - Window, 0, Len(w))
               v == LastN(w, m)
    <2>1. z = v \o p
      BY <1>5 DEF Slide
    <2>2. m = IF Len(w) + Len(p) < Window THEN Len(w) ELSE Window - Len(p)
      <3>1. \A x, y, b \in Nat : y <= b =>
               x - clamp_i(x + y - b, 0, x) = IF x + y < b THEN x ELSE b - y
        BY DEF clamp_i
      <3>2. Len(p) <= Window /\ Window \in Nat
        BY <1>1, <1>5
      <3>3. QED
        BY <1>1, <3>1, <3>2, Zenon
    <2> HIDE DEF m
    <2>3. /\ m \in Nat /\ m <= Len(w) /\ Len(w) <= Len(t)
          /\ m + Len(p) = IF Len(t) + Len(p) < Window THEN Len(t) + Len(p) ELSE Window
      BY <1>1, <1>3, <1>5, <2>2
    <2>4. v \in Seq(Nat) /\ Len(v) = m /\ \A k \in 1..m : v[k] = w[Len(w) - m + k]
      <3>1. m \in 0..Len(w)
        BY <1>1, <2>3
      <3>2. QED
        BY <3>1, LastNProperties
    <2> HIDE DEF v
    <2>5. z \in Seq(Nat) /\ Len(z) = m + Len(p)
      BY <2>1, <2>4, ConcatParts
    <2>6. ASSUME NEW k \in 1..(m + Len(p))
          PROVE  z[k] = u[Len(t) - m + k]
      <3>1. CASE k <= m
        <4>1. /\ k \in 1..m /\ Len(w) - m + k \in 1..Len(w) /\ Len(t) - m + k \in 1..Len(t)
              /\ Len(t) - Len(w) + (Len(w) - m + k) = Len(t) - m + k
          BY <1>1, <2>3, <3>1
        <4>2. z[k] = v[k]
          BY <2>1, <2>4, <4>1, ConcatParts
        <4>3. v[k] = w[Len(w) - m + k]
          BY <2>4, <4>1
        <4>4. w[Len(w) - m + k] = t[Len(t) - Len(w) + (Len(w) - m + k)]
          BY <4>1 DEF WindowOf
        <4>5. u[Len(t) - m + k] = t[Len(t) - m + k]
          BY <4>1, ConcatParts
        <4>6. QED
          BY <4>1, <4>2, <4>3, <4>4, <4>5
      <3>2. CASE ~(k <= m)
        <4>1. k - m \in 1..Len(p) /\ m + (k - m) = k /\ Len(t) + (k - m) = Len(t) - m + k
          BY <1>1, <2>3, <3>2
        <4>2. z[m + (k - m)] = p[k - m]
          <5>1. (v \o p)[Len(v) + (k - m)] = p[k - m]
            BY <2>4, <4>1, ConcatParts
          <5>2. QED
            BY <2>1, <2>4, <5>1
        <4>3. u[Len(t) + (k - m)] = p[k - m]
          BY <4>1, ConcatParts
        <4>4. QED
          BY <4>1, <4>2, <4>3
      <3>3. QED
        BY <3>1, <3>2
    <2>7. WindowOf(z, u)
      <3> HIDE DEF u, z
      <3>1. Len(z) = IF Len(u) < Window THEN Len(u) ELSE Window
        BY <1>2, <2>3, <2>5
      <3>2. \A k \in 1..Len(z) : Len(u) - Len(z) + k = Len(t) - m + k
        BY <1>1, <1>2, <2>3, <2>5
      <3>3. \A k \in 1..Len(z) : z[k] = u[Len(u) - Len(z) + k]
        BY <2>5, <2>6, <3>2
      <3>4. QED
        BY <3>1, <3>3 DEF WindowOf
    <2>8. QED
      BY <2>5, <2>7
  <1>6. QED
    BY <1>4, <1>5

(* The window decides about a sequence shorter than itself as the whole    *)
(* text does.                                                              *)
LEMMA WindowDecides ==
  ASSUME NEW w \in Seq(Nat), NEW t \in Seq(Nat), WindowOf(w, t),
         NEW s \in Seq(Nat), Len(s) < Window
  PROVE  EndsWith(w, s) <=> EndsWith(t, s)
  <1>1. Len(w) \in Nat /\ Len(t) \in Nat /\ Len(s) \in Nat /\ Window \in Nat \ {0}
    BY LenProperties, TextAssumption
  <1>2. Len(s) <= Len(w) <=> Len(s) <= Len(t)
    BY <1>1 DEF WindowOf
  <1>3. ASSUME Len(s) <= Len(w), NEW k \in 1..Len(s)
        PROVE  w[Len(w) - Len(s) + k] = t[Len(t) - Len(s) + k]
    <2>1. Len(w) - Len(s) + k \in 1..Len(w)
      BY <1>1, <1>3
    <2>2. w[Len(w) - Len(s) + k] = t[Len(t) - Len(w) + (Len(w) - Len(s) + k)]
      BY <2>1 DEF WindowOf
    <2>3. Len(t) - Len(w) + (Len(w) - Len(s) + k) = Len(t) - Len(s) + k
      BY <1>1
    <2>4. QED
      BY <2>2, <2>3
  <1>4. EndsWith(w, s) <=> /\ Len(s) <= Len(w)
                           /\ \A k \in 1..Len(s) : w[Len(w) - Len(s) + k] = s[k]
    BY EndsWithElements
  <1>5. EndsWith(t, s) <=> /\ Len(s) <= Len(t)
                           /\ \A k \in 1..Len(s) : t[Len(t) - Len(s) + k] = s[k]
    BY EndsWithElements
  <1>6. QED
    BY <1>2, <1>3, <1>4, <1>5

(* The last Window characters decide whether a text contains a stop        *)
(* sequence, none of which is longer: check_stop_strings may look at       *)
(* stop_window alone.                                                      *)
LEMMA HitDecides ==
  ASSUME NEW w \in Seq(Nat), NEW t \in Seq(Nat), WindowOf(w, t), stops \in StopSets
  PROVE  StopHit(w) <=> StopHit(t)
  <1>1. \A s \in stops : s \in Seq(Nat) /\ Len(s) < Window
    BY TextAssumption
  <1>2. \A s \in stops : EndsWith(w, s) <=> EndsWith(t, s)
    BY <1>1, WindowDecides
  <1>3. QED
    BY <1>2 DEF StopHit
-----------------------------------------------------------------------------
(* The type invariant in seven parts                                       *)

RequestOK ==
    /\ chat \in BOOLEAN /\ stream \in BOOLEAN /\ fallback \in BOOLEAN
    /\ stops \in StopSets /\ n_batch \in Batches /\ max_tokens \in 1..NCtx

ControlOK ==
    /\ pc \in {"start", "render", "chatml", "built", "template", "apply",
               "tokenize", "tokens", "prompt", "head", "sample", "callback",
               "decode", "finish", "chatfree", "returned", "reply", "answered"}
    /\ finish_reason \in Reasons /\ state \in {"RUNNING", "DONE", "ERROR"}

CodesOK == rc \in {0, -1} /\ status \in {0, 200, 400, 500}

HeapOK == heap \subseteq {"response", "chat_msgs", "formatted", "tokens", "chain"}

CountsOK ==
    /\ n_prompt \in 0..NCtx /\ n_processed \in (-BackMax)..n_prompt
    /\ max_gen \in 0..NCtx /\ i \in 0..max_gen /\ n_generated \in i..(i + 1)
    /\ kv \in Nat /\ accepted \in 0..n_generated /\ overrun \in Nat /\ late \in Nat

TextOK ==
    /\ piece \in Seq(Nat) /\ window \in Seq(Nat) /\ Len(window) <= Window
    /\ response \in Seq(Nat) /\ response_cap \in 0..ContentMax /\ text \in Seq(Nat)

FlagsOK == cancel \in BOOLEAN /\ shutdown \in BOOLEAN /\ expired \in BOOLEAN

(* The parts of the type invariant.                                        *)
LEMMA TypeParts ==
  TypeOK <=> RequestOK /\ ControlOK /\ CodesOK /\ HeapOK /\ CountsOK /\ TextOK /\ FlagsOK
  BY Zenon DEF TypeOK, RequestOK, ControlOK, CodesOK, HeapOK, CountsOK, TextOK, FlagsOK

(* The same of the next state.                                             *)
LEMMA TypePartsNext ==
  TypeOK' <=> RequestOK' /\ ControlOK' /\ CodesOK' /\ HeapOK' /\ CountsOK' /\ TextOK' /\ FlagsOK'
  BY Zenon DEF TypeOK, RequestOK, ControlOK, CodesOK, HeapOK, CountsOK, TextOK, FlagsOK

(* resolve_max_tokens returns between 1 and the context's size.            *)
LEMMA ResolvedInRange ==
  ASSUME NEW r \in ReqMaxTokens
  PROVE  resolve_max_tokens(r) \in 1..NCtx
  BY ContextAssumption DEF resolve_max_tokens, clamp_i

(* A worker that has just taken a job satisfies the invariant, whatever    *)
(* the previous job left in the cache.                                     *)
LEMMA InitIInv == Init => IInv
  <1> SUFFICES ASSUME Init PROVE IInv
    OBVIOUS
  <1>1. NCtx \in Nat /\ TimeoutEvery \in Nat \ {0} /\ Window \in Nat \ {0} /\ ContentMax \in Nat
    BY ContextAssumption, TimeoutAssumption, TextAssumption, ResponseAssumption
  <1>2. pc = "start" /\ rc = 0 /\ finish_reason = "" /\ heap = {}
    BY DEF Init
  <1>3. n_prompt = 0 /\ n_processed = 0 /\ max_gen = 0 /\ i = 0 /\ n_generated = 0 /\ kv \in 0..NCtx
    BY DEF Init
  <1>4. piece = <<>> /\ window = <<>> /\ response = <<>> /\ response_cap = 0 /\ text = <<>>
    BY DEF Init
  <1>5. accepted = 0 /\ overrun = 0 /\ late = 0
    BY DEF Init
  <1>6. cancel = FALSE /\ shutdown = FALSE /\ expired = FALSE /\ state = "RUNNING" /\ status = 0
    BY DEF Init
  <1>7. TypeOK
    <2>1. RequestOK
      <3>1. max_tokens \in 1..NCtx
        BY ResolvedInRange DEF Init
      <3>2. QED
        BY <3>1 DEF Init, RequestOK
    <2>2. ControlOK /\ CodesOK /\ HeapOK
      BY <1>2, <1>6 DEF ControlOK, CodesOK, HeapOK, Reasons
    <2>3. CountsOK
      BY <1>1, <1>3, <1>5, ContextAssumption DEF CountsOK
    <2>4. TextOK
      BY <1>1, <1>4 DEF TextOK
    <2>5. FlagsOK
      BY <1>6 DEF FlagsOK
    <2>6. QED
      BY <2>1, <2>2, <2>3, <2>4, <2>5, TypeParts
  <1>8. Progress /\ Cache
    <2>1. Progress
      BY <1>2, <1>3, <1>5 DEF Progress, Early, Generating
    <2>2. Cache
      <3>1. kv <= NCtx
        BY <1>1, <1>3
      <3>2. QED
        BY <1>2, <3>1 DEF Cache, Generating
    <2>3. QED
      BY <2>1, <2>2
  <1>9. Memory /\ Outcome
    BY <1>2 DEF Memory, Outcome, Ended
  <1>10. Prefix
    BY <1>2, <1>4 DEF Prefix
  <1>11. Rolling
    BY <1>1, <1>4 DEF Rolling, WindowOf
  <1>12. StopExact
    BY <1>2 DEF StopExact
  <1>13. Noticed
    <2>1. overrun <= 1 /\ late <= TimeoutEvery /\ ~(overrun > 0) /\ ~(late > 0)
      BY <1>1, <1>5
    <2>2. QED
      BY <1>2, <1>5, <2>1 DEF Noticed, Early
  <1>14. QED
    BY <1>7, <1>8, <1>9, <1>10, <1>11, <1>12, <1>13 DEF IInv

(* A step that samples nothing leaves the stop sequences decided.          *)
LEMMA SameText ==
  ASSUME Rolling, UNCHANGED <<text, window, stops>>
  PROVE  Rolling' /\ (StopHit(text)' <=> StopHit(text))
  BY DEF Rolling, WindowOf, StopHit

(* StopExact in terms of StopHit of the text.                              *)
LEMMA StopExactHits ==
  StopExact <=> /\ pc \in {"callback", "decode"} => ~StopHit(text)
                /\ finish_reason = "stop" /\ n_generated > i => StopHit(text)
  BY DEF StopExact, StopHit

(* The same of the next state.                                             *)
LEMMA StopExactHitsNext ==
  StopExact' <=> /\ pc' \in {"callback", "decode"} => ~StopHit(text)'
                 /\ finish_reason' = "stop" /\ n_generated' > i' => StopHit(text)'
  BY DEF StopExact, StopHit

(* A sequence is the part of itself from its first to its last element.    *)
LEMMA WholeSubSeq ==
  ASSUME NEW s \in Seq(Nat)
  PROVE  SubSeq(s, 1, Len(s)) = s
  OBVIOUS

(* What was appended to is a prefix of the result.                         *)
LEMMA PrefixOfConcat ==
  ASSUME NEW s \in Seq(Nat), NEW t \in Seq(Nat)
  PROVE  SubSeq(s \o t, 1, Len(s)) = s
  <1>1. Len(s) \in Nat /\ Len(t) \in Nat
    BY LenProperties
  <1> DEFINE u == s \o t
  <1>2. u \in Seq(Nat) /\ Len(u) = Len(s) + Len(t) /\ \A k \in 1..Len(s) : u[k] = s[k]
    BY ConcatParts
  <1> HIDE DEF u
  <1> DEFINE v == SubSeq(u, 1, Len(s))
  <1>3. \A k \in 1..Len(s) : u[k] \in Nat
    BY <1>1, <1>2, LenProperties
  <1>4. /\ v \in Seq(Nat) /\ Len(v) = Len(s)
        /\ \A k \in 1..Len(s) : v[k] = u[k]
    BY <1>1, <1>2, <1>3, SubSeqProperties
  <1> HIDE DEF v
  <1>5. v = s
    BY <1>2, <1>4, SeqEqual
  <1>6. QED
    BY <1>5 DEF u, v

(* A blocking job's first buffer is not empty.                             *)
LEMMA InitialCapRange ==
  ASSUME max_tokens \in 1..NCtx
  PROVE  InitialCap \in 1..ContentMax
  <1>1. max_tokens \in Int /\ TokenBytes \in Int
    BY ContextAssumption, ResponseAssumption
  <1>2. max_tokens * TokenBytes \in Int
    BY <1>1
  <1>3. QED
    BY <1>2, ResponseAssumption DEF InitialCap, clamp_i

(* The buffer only grows, and never past the largest response.             *)
LEMMA NewCapRange ==
  ASSUME response \in Seq(Nat), response_cap \in 0..ContentMax, NEW n \in Nat
  PROVE  NewCap(n) \in 0..ContentMax
  <1>1. Len(response) \in Nat /\ ContentMax \in Nat
    BY LenProperties, ResponseAssumption
  <1>2. QED
    BY <1>1 DEF NewCap, clamp_i

(* A prompt shorter than the context leaves room for a token at least, and *)
(* no more tokens are generated than there is room for.                    *)
LEMMA CapTokensRange ==
  ASSUME max_tokens \in 1..NCtx, NEW n \in 1..(NCtx - 1)
  PROVE  CapTokens(n) \in 1..(NCtx - n)
  BY ContextAssumption DEF CapTokens

(* A chunk is never larger than what is left of the prompt; it is empty or *)
(* negative exactly if n_batch is.                                         *)
LEMMA ChunkRange ==
  ASSUME CountsOK, n_batch \in Batches, n_processed < n_prompt
  PROVE  /\ Chunk \in Int /\ n_processed + Chunk <= n_prompt
         /\ Chunk > 0 <=> n_batch > 0
  <1>1. n_batch \in Int /\ NCtx \in Nat /\ BackMax \in Nat
    BY ContextAssumption
  <1>2. QED
    BY <1>1 DEF Chunk, CountsOK

(* Every step of the inference and of its environment preserves the        *)
(* invariant.                                                              *)
LEMMA NextIInv == IInv /\ [Next]_vars => IInv'
  <1> SUFFICES ASSUME IInv, [Next]_vars PROVE IInv'
    OBVIOUS
  <1>1. /\ TypeOK /\ Progress /\ Cache /\ Memory /\ Prefix /\ Rolling /\ Outcome /\ Noticed
        /\ pc \in {"callback", "decode"} => ~StopHit(text)
        /\ finish_reason = "stop" /\ n_generated > i => StopHit(text)
    BY StopExactHits DEF IInv
  <1>t. RequestOK /\ ControlOK /\ CodesOK /\ HeapOK /\ CountsOK /\ TextOK /\ FlagsOK
    BY <1>1, TypeParts
  <1>n. NCtx \in Nat \ {0} /\ TimeoutEvery \in Nat \ {0} /\ Window \in Nat \ {0}
        /\ ContentMax \in Nat
    BY ContextAssumption, TimeoutAssumption, TextAssumption, ResponseAssumption
  <1>a. ASSUME UNCHANGED <<text, window, stops>>,
               RequestOK', ControlOK', CodesOK', HeapOK', CountsOK', TextOK', FlagsOK',
               Progress', Cache', Memory', Prefix', Outcome', Noticed',
               pc' \in {"callback", "decode"} => ~StopHit(text),
               finish_reason' = "stop" /\ n_generated' > i' => StopHit(text)
        PROVE  IInv'
    BY <1>1, <1>a, SameText, StopExactHitsNext, TypePartsNext DEF IInv
  <1> USE DEF request, counts, output, flags, history, answer
  <1>2. CASE Start
    <2>1. RequestOK' /\ FlagsOK'
      BY <1>t, <1>2 DEF Start, RequestOK, FlagsOK
    <2>2. ControlOK'
      BY <1>t, <1>2 DEF Start, Fail, ControlOK, Reasons
    <2>3. CodesOK' /\ HeapOK'
      BY <1>t, <1>2 DEF Start, Fail, CodesOK, HeapOK
    <2>4. CountsOK'
      BY <1>1, <1>t, <1>n, <1>2 DEF Start, Fail, CountsOK, Progress, Early
    <2>5. TextOK'
      BY <1>t, <1>2, InitialCapRange DEF Start, Fail, TextOK, RequestOK
    <2>6. Progress'
      BY <1>1, <1>t, <1>n, <1>2 DEF Start, Fail, CountsOK, Progress, Early, Generating
    <2>7. Cache'
      BY <1>1, <1>t, <1>n, <1>2 DEF Start, Fail, CountsOK, Progress, Cache, Generating
    <2>8. Memory'
      <3>1. response = <<>>
        BY <1>1, <1>2 DEF Start, Prefix, Early
      <3>2. Len(response) = 0 /\ 0 < InitialCap
        BY <1>t, <3>1, InitialCapRange DEF RequestOK
      <3>3. "response" \in heap' => Len(response') < response_cap'
        BY <1>1, <1>t, <1>2, <3>2 DEF Start, Fail, Memory
      <3>4. QED
        BY <1>1, <1>2, <3>3 DEF Start, Fail, Memory, Generating
    <2>9. Prefix'
      BY <1>1, <1>2 DEF Start, Fail, Prefix, Early
    <2>10. Outcome'
      BY <1>1, <1>t, <1>2 DEF Start, Fail, CountsOK, Outcome, Progress, Early, Ended, Generating
    <2>11. Noticed'
      BY <1>1, <1>t, <1>n, <1>2 DEF Start, Fail, CountsOK, Noticed, Early, Stopping
    <2>12. QED
      BY <1>1, <1>a, <1>t, <1>2, <2>1, <2>2, <2>3, <2>4, <2>5, <2>6, <2>7, <2>8, <2>9, <2>10,
         <2>11 DEF Start, Fail, Progress, Early
  <1>3. CASE BuildChatml
    <2>1. RequestOK' /\ FlagsOK'
      BY <1>t, <1>3 DEF BuildChatml, RequestOK, FlagsOK
    <2>2. ControlOK'
      BY <1>t, <1>3 DEF BuildChatml, Fail, ControlOK, Reasons
    <2>3. CodesOK' /\ HeapOK'
      BY <1>t, <1>3 DEF BuildChatml, Fail, CodesOK, HeapOK
    <2>4. CountsOK'
      BY <1>1, <1>t, <1>n, <1>3 DEF BuildChatml, CountsOK
    <2>5. TextOK'
      BY <1>t, <1>3 DEF BuildChatml, TextOK
    <2>6. Progress'
      BY <1>1, <1>t, <1>n, <1>3 DEF BuildChatml, Fail, CountsOK, Progress, Early, Generating
    <2>7. Cache'
      BY <1>1, <1>t, <1>n, <1>3 DEF BuildChatml, Fail, Cache, Generating
    <2>8. Memory'
      BY <1>1, <1>3 DEF BuildChatml, Fail, Memory, Generating
    <2>9. Prefix'
      BY <1>1, <1>3 DEF BuildChatml, Fail, Prefix, Early
    <2>10. Outcome'
      BY <1>1, <1>t, <1>3 DEF BuildChatml, Fail, CountsOK, Outcome, Progress, Early, Ended,
         Generating
    <2>11. Noticed'
      BY <1>1, <1>t, <1>n, <1>3 DEF BuildChatml, Fail, CountsOK, Noticed, Early, Stopping
    <2>12. QED
      BY <1>1, <1>a, <1>t, <1>3, <2>1, <2>2, <2>3, <2>4, <2>5, <2>6, <2>7, <2>8, <2>9, <2>10,
         <2>11 DEF BuildChatml, Fail, Progress, Early
  <1>4. CASE CheckChatml
    <2>1. RequestOK' /\ FlagsOK'
      BY <1>t, <1>4 DEF CheckChatml, RequestOK, FlagsOK
    <2>2. ControlOK'
      BY <1>t, <1>4 DEF CheckChatml, Fail, ControlOK, Reasons
    <2>3. CodesOK' /\ HeapOK'
      BY <1>t, <1>4 DEF CheckChatml, Fail, CodesOK, HeapOK
    <2>4. CountsOK'
      BY <1>1, <1>t, <1>n, <1>4 DEF CheckChatml, CountsOK
    <2>5. TextOK'
      BY <1>t, <1>4 DEF CheckChatml, TextOK
    <2>6. Progress'
      BY <1>1, <1>t, <1>n, <1>4 DEF CheckChatml, Fail, CountsOK, Progress, Early, Generating
    <2>7. Cache'
      BY <1>1, <1>t, <1>n, <1>4 DEF CheckChatml, Fail, Cache, Generating
    <2>8. Memory'
      BY <1>1, <1>4 DEF CheckChatml, Fail, Memory, Generating
    <2>9. Prefix'
      BY <1>1, <1>4 DEF CheckChatml, Fail, Prefix, Early
    <2>10. Outcome'
      BY <1>1, <1>t, <1>4 DEF CheckChatml, Fail, CountsOK, Outcome, Progress, Early, Ended,
         Generating
    <2>11. Noticed'
      BY <1>1, <1>t, <1>n, <1>4 DEF CheckChatml, Fail, CountsOK, Noticed, Early, Stopping
    <2>12. QED
      BY <1>1, <1>a, <1>t, <1>4, <2>1, <2>2, <2>3, <2>4, <2>5, <2>6, <2>7, <2>8, <2>9, <2>10,
         <2>11 DEF CheckChatml, Fail, Progress, Early
  <1>5. CASE AllocMessages
    <2>1. RequestOK' /\ FlagsOK'
      BY <1>t, <1>5 DEF AllocMessages, RequestOK, FlagsOK
    <2>2. ControlOK'
      BY <1>t, <1>5 DEF AllocMessages, Fail, ControlOK, Reasons
    <2>3. CodesOK' /\ HeapOK'
      BY <1>t, <1>5 DEF AllocMessages, Fail, CodesOK, HeapOK
    <2>4. CountsOK'
      BY <1>1, <1>t, <1>n, <1>5 DEF AllocMessages, CountsOK
    <2>5. TextOK'
      BY <1>t, <1>5 DEF AllocMessages, TextOK
    <2>6. Progress'
      BY <1>1, <1>t, <1>n, <1>5 DEF AllocMessages, Fail, CountsOK, Progress, Early, Generating
    <2>7. Cache'
      BY <1>1, <1>t, <1>n, <1>5 DEF AllocMessages, Fail, Cache, Generating
    <2>8. Memory'
      BY <1>1, <1>5 DEF AllocMessages, Fail, Memory, Generating
    <2>9. Prefix'
      BY <1>1, <1>5 DEF AllocMessages, Fail, Prefix, Early
    <2>10. Outcome'
      BY <1>1, <1>t, <1>5 DEF AllocMessages, Fail, CountsOK, Outcome, Progress, Early, Ended,
         Generating
    <2>11. Noticed'
      BY <1>1, <1>t, <1>n, <1>5 DEF AllocMessages, Fail, CountsOK, Noticed, Early, Stopping
    <2>12. QED
      BY <1>1, <1>a, <1>t, <1>5, <2>1, <2>2, <2>3, <2>4, <2>5, <2>6, <2>7, <2>8, <2>9, <2>10,
         <2>11 DEF AllocMessages, Fail, Progress, Early
  <1>6. CASE SizeTemplate
    <2>1. RequestOK' /\ FlagsOK'
      BY <1>t, <1>6 DEF SizeTemplate, RequestOK, FlagsOK
    <2>2. ControlOK'
      BY <1>t, <1>6 DEF SizeTemplate, Fail, ControlOK, Reasons
    <2>3. CodesOK' /\ HeapOK'
      BY <1>t, <1>6 DEF SizeTemplate, Fail, CodesOK, HeapOK
    <2>4. CountsOK'
      BY <1>1, <1>t, <1>n, <1>6 DEF SizeTemplate, CountsOK
    <2>5. TextOK'
      BY <1>t, <1>6 DEF SizeTemplate, TextOK
    <2>6. Progress'
      BY <1>1, <1>t, <1>n, <1>6 DEF SizeTemplate, Fail, CountsOK, Progress, Early, Generating
    <2>7. Cache'
      BY <1>1, <1>t, <1>n, <1>6 DEF SizeTemplate, Fail, Cache, Generating
    <2>8. Memory'
      BY <1>1, <1>6 DEF SizeTemplate, Fail, Memory, Generating
    <2>9. Prefix'
      BY <1>1, <1>6 DEF SizeTemplate, Fail, Prefix, Early
    <2>10. Outcome'
      BY <1>1, <1>t, <1>6 DEF SizeTemplate, Fail, CountsOK, Outcome, Progress, Early, Ended,
         Generating
    <2>11. Noticed'
      BY <1>1, <1>t, <1>n, <1>6 DEF SizeTemplate, Fail, CountsOK, Noticed, Early, Stopping
    <2>12. QED
      BY <1>1, <1>a, <1>t, <1>6, <2>1, <2>2, <2>3, <2>4, <2>5, <2>6, <2>7, <2>8, <2>9, <2>10,
         <2>11 DEF SizeTemplate, Fail, Progress, Early
  <1>7. CASE ApplyTemplate
    <2>1. RequestOK' /\ FlagsOK'
      BY <1>t, <1>7 DEF ApplyTemplate, RequestOK, FlagsOK
    <2>2. ControlOK'
      BY <1>t, <1>7 DEF ApplyTemplate, Fail, ControlOK, Reasons
    <2>3. CodesOK' /\ HeapOK'
      BY <1>t, <1>7 DEF ApplyTemplate, Fail, CodesOK, HeapOK
    <2>4. CountsOK'
      BY <1>1, <1>t, <1>n, <1>7 DEF ApplyTemplate, CountsOK
    <2>5. TextOK'
      BY <1>t, <1>7 DEF ApplyTemplate, TextOK
    <2>6. Progress'
      BY <1>1, <1>t, <1>n, <1>7 DEF ApplyTemplate, Fail, CountsOK, Progress, Early, Generating
    <2>7. Cache'
      BY <1>1, <1>t, <1>n, <1>7 DEF ApplyTemplate, Fail, Cache, Generating
    <2>8. Memory'
      BY <1>1, <1>7 DEF ApplyTemplate, Fail, Memory, Generating
    <2>9. Prefix'
      BY <1>1, <1>7 DEF ApplyTemplate, Fail, Prefix, Early
    <2>10. Outcome'
      BY <1>1, <1>t, <1>7 DEF ApplyTemplate, Fail, CountsOK, Outcome, Progress, Early, Ended,
         Generating
    <2>11. Noticed'
      BY <1>1, <1>t, <1>n, <1>7 DEF ApplyTemplate, Fail, CountsOK, Noticed, Early, Stopping
    <2>12. QED
      BY <1>1, <1>a, <1>t, <1>7, <2>1, <2>2, <2>3, <2>4, <2>5, <2>6, <2>7, <2>8, <2>9, <2>10,
         <2>11 DEF ApplyTemplate, Fail, Progress, Early
  <1>8. CASE CountTokens
    <2>a. kv' = 0 /\ 0 <= NCtx
      BY <1>n, <1>8 DEF CountTokens, ClearCache
    <2>b. \/ /\ \E reason \in {"backend_error", "context_overflow"} : Fail(reason, {}, Caller)
             /\ UNCHANGED n_prompt
          \/ /\ n_prompt' \in 1..(NCtx - 1)
             /\ finish_reason' = "length" /\ pc' = "tokens" /\ UNCHANGED rc
             /\ heap' = heap \union {"tokens"}
      <3>1. PICK n \in 0..(NCtx + 1) :
               \/ /\ \E reason \in {"backend_error", "context_overflow"} : Fail(reason, {}, Caller)
                  /\ UNCHANGED n_prompt
               \/ /\ n > 0 /\ n < NCtx /\ n_prompt' = n
                  /\ finish_reason' = "length" /\ pc' = "tokens" /\ UNCHANGED rc
                  /\ heap' = heap \union {"tokens"}
        BY <1>8, Zenon DEF CountTokens
      <3>2. n > 0 /\ n < NCtx => n \in 1..(NCtx - 1)
        BY <1>n
      <3>3. QED
        BY <3>1, <3>2
    <2>c. /\ i = 0 /\ n_generated = 0 /\ accepted = 0 /\ rc = 0 /\ finish_reason # "stop"
          /\ n_processed = 0 /\ max_gen = 0
      BY <1>1, <1>8 DEF CountTokens, Progress, Early
    <2>d. UNCHANGED <<n_processed, max_gen, i, n_generated, accepted, overrun, late>>
      BY <1>8 DEF CountTokens
    <2>e. pc' \in {"tokens", "chatfree", "returned"}
      BY <2>b DEF Fail, Caller
    <2>1. RequestOK' /\ FlagsOK'
      BY <1>t, <1>8 DEF CountTokens, RequestOK, FlagsOK
    <2>2. ControlOK'
      BY <1>t, <1>8, <2>b, <2>e DEF CountTokens, Fail, ControlOK, Reasons
    <2>3. CodesOK' /\ HeapOK'
      <3>1. CodesOK'
        BY <1>t, <1>8, <2>b DEF CountTokens, Fail, CodesOK
      <3>2. HeapOK'
        BY <1>t, <2>b DEF Fail, HeapOK
      <3>3. QED
        BY <3>1, <3>2
    <2>4. CountsOK'
      <3>1. n_prompt' \in 0..NCtx /\ BackMax \in Nat
        BY <1>t, <1>n, <2>b, ContextAssumption DEF CountsOK
      <3>2. QED
        BY <1>t, <1>n, <2>a, <2>c, <2>d, <3>1 DEF CountsOK
    <2>5. TextOK'
      BY <1>t, <1>8 DEF CountTokens, TextOK
    <2>6. Progress'
      <3>1. pc' = "tokens" => finish_reason' = "length" /\ rc' = 0 /\ n_prompt' \in 1..(NCtx - 1)
        BY <2>b, <2>c DEF Fail, Caller
      <3>2. QED
        BY <2>c, <2>d, <2>e, <3>1 DEF Progress, Early, Generating
    <2>7. Cache'
      BY <2>a, <2>e DEF Cache, Generating
    <2>8. Memory'
      BY <1>1, <1>8, <2>b DEF CountTokens, Fail, Caller, Memory, Generating
    <2>9. Prefix'
      BY <1>1, <1>8, <2>e DEF CountTokens, Prefix, Early
    <2>10. Outcome'
      <3>1. pc' \in Ended => rc' = -1 /\ finish_reason' # "length"
        BY <2>b DEF Fail, Caller, Ended
      <3>2. QED
        BY <2>c, <2>d, <2>e, <3>1 DEF Outcome
    <2>11. Noticed'
      BY <1>1, <1>8, <2>e DEF CountTokens, Noticed, Early, Stopping
    <2>12. QED
      <3>1. pc' \notin {"callback", "decode"} /\ finish_reason' # "stop"
        BY <2>b DEF Fail, Caller
      <3>2. QED
        BY <1>a, <1>8, <2>1, <2>2, <2>3, <2>4, <2>5, <2>6, <2>7, <2>8, <2>9, <2>10, <2>11, <3>1
           DEF CountTokens
  <1>9. CASE Tokenize
    <2>a. /\ pc = "tokens" /\ i = 0 /\ n_generated = 0 /\ accepted = 0 /\ rc = 0
          /\ n_prompt \in 1..(NCtx - 1) /\ n_processed = 0 /\ max_gen = 0 /\ kv = 0
          /\ finish_reason = "length" /\ 0 <= NCtx
      BY <1>1, <1>n, <1>9 DEF Tokenize, Progress, Cache, Early
    <2>b. \/ Fail("backend_error", {"tokens"}, Caller) /\ UNCHANGED max_gen
          \/ /\ max_gen' \in 1..(NCtx - n_prompt) /\ pc' = "prompt"
             /\ UNCHANGED <<rc, finish_reason, heap>>
      <3>1. CapTokens(n_prompt) \in 1..(NCtx - n_prompt)
        BY <1>t, <2>a, CapTokensRange DEF RequestOK
      <3>2. ~(CapTokens(n_prompt) <= 0)
        BY <1>n, <2>a, <3>1
      <3>3. QED
        BY <1>9, <3>1, <3>2 DEF Tokenize
    <2>d. UNCHANGED <<n_prompt, n_processed, i, n_generated, kv, accepted, overrun, late>>
      BY <1>9 DEF Tokenize
    <2>e. pc' \in {"prompt", "chatfree", "returned"}
      BY <2>b DEF Fail, Caller
    <2>1. RequestOK' /\ FlagsOK'
      BY <1>t, <1>9 DEF Tokenize, RequestOK, FlagsOK
    <2>2. ControlOK'
      BY <1>t, <1>9, <2>b, <2>e DEF Tokenize, Fail, ControlOK, Reasons
    <2>3. CodesOK' /\ HeapOK'
      <3>1. CodesOK'
        BY <1>t, <1>9, <2>b DEF Tokenize, Fail, CodesOK
      <3>2. HeapOK'
        BY <1>t, <2>b DEF Fail, HeapOK
      <3>3. QED
        BY <3>1, <3>2
    <2>4. CountsOK'
      <3>1. max_gen' \in 0..NCtx
        BY <1>t, <1>n, <2>a, <2>b DEF CountsOK
      <3>2. QED
        BY <1>t, <1>n, <2>a, <2>d, <3>1 DEF CountsOK
    <2>5. TextOK'
      BY <1>t, <1>9 DEF Tokenize, TextOK
    <2>6. Progress'
      <3>1. pc' = "prompt" => /\ finish_reason' = "length" /\ rc' = 0
                              /\ max_gen' > 0 /\ n_prompt' > 0
        BY <1>n, <2>a, <2>b, <2>d DEF Fail, Caller
      <3>2. n_batch' \in Int => IF n_batch' > 0 THEN n_processed' >= 0 ELSE n_processed' <= 0
        BY <2>a, <2>d
      <3>3. n_batch' \in Int
        BY <1>t, <1>9, ContextAssumption DEF Tokenize, RequestOK
      <3>4. QED
        BY <2>a, <2>d, <2>e, <3>1, <3>2, <3>3 DEF Progress, Early, Generating
    <2>7. Cache'
      <3>1. pc' = "prompt" => n_prompt' + max_gen' <= NCtx
        BY <1>n, <2>a, <2>b, <2>d DEF Fail, Caller
      <3>2. QED
        BY <2>a, <2>d, <2>e, <3>1 DEF Cache, Generating
    <2>8. Memory'
      BY <1>1, <1>9, <2>b DEF Tokenize, Fail, Caller, Memory, Generating
    <2>9. Prefix'
      BY <1>1, <1>9, <2>e DEF Tokenize, Prefix, Early
    <2>10. Outcome'
      <3>1. pc' \in Ended => rc' = -1 /\ finish_reason' # "length"
        BY <2>b DEF Fail, Caller, Ended
      <3>2. QED
        BY <2>a, <2>d, <2>e, <3>1 DEF Outcome
    <2>11. Noticed'
      BY <1>1, <1>9, <2>e DEF Tokenize, Noticed, Early, Stopping
    <2>12. QED
      <3>1. pc' \notin {"callback", "decode"} /\ finish_reason' # "stop"
        BY <2>a, <2>b DEF Fail, Caller
      <3>2. QED
        BY <1>a, <1>9, <2>1, <2>2, <2>3, <2>4, <2>5, <2>6, <2>7, <2>8, <2>9, <2>10, <2>11, <3>1
           DEF Tokenize
  <1>10. CASE PromptChunk
    <2>a. /\ n_batch \in Batches /\ Chunk \in Int /\ n_processed + Chunk <= n_prompt
          /\ Chunk > 0 <=> n_batch > 0
      BY <1>t, <1>10, ChunkRange DEF PromptChunk, RequestOK
    <2>b. n_batch \in Int /\ BackMax \in Nat
      BY <2>a, ContextAssumption
    <2>c. IF n_batch > 0 THEN n_processed >= 0 ELSE n_processed <= 0
      BY <1>1, <1>10 DEF PromptChunk, Progress
    <2>d. IF n_batch > 0 THEN n_processed' >= 0 ELSE n_processed' <= 0
      <3>1. CASE ChunkDecoded
        BY <1>t, <1>n, <2>a, <2>b, <2>c, <3>1 DEF ChunkDecoded, CountsOK
      <3>2. CASE ChunkFails
        BY <2>c, <3>2 DEF ChunkFails
      <3>3. QED
        BY <1>10, <3>1, <3>2 DEF PromptChunk
    <2>1. RequestOK' /\ FlagsOK'
      BY <1>t, <1>10 DEF PromptChunk, RequestOK, FlagsOK
    <2>2. ControlOK'
      BY <1>t, <1>10 DEF PromptChunk, ChunkDecoded, ChunkFails, Chunk, Fail, Caller, ControlOK,
         Reasons
    <2>3. CodesOK' /\ HeapOK'
      BY <1>t, <1>10 DEF PromptChunk, ChunkDecoded, ChunkFails, Chunk, Fail, Caller, CodesOK, HeapOK
    <2>4. CountsOK'
      <3>1. n_processed' \in (-BackMax)..n_prompt /\ kv' \in Nat
        BY <1>t, <1>n, <1>10, <2>a, <2>b DEF PromptChunk, ChunkDecoded, ChunkFails, CountsOK
      <3>2. QED
        BY <1>t, <1>10, <3>1 DEF PromptChunk, CountsOK
    <2>5. TextOK'
      BY <1>t, <1>10 DEF PromptChunk, ChunkDecoded, ChunkFails, Chunk, Fail, Caller, TextOK
    <2>6. Progress'
      <3>1. pc' \in {"prompt", "chatfree", "returned"} /\ (pc' = "prompt" => ChunkDecoded)
        BY <1>10 DEF PromptChunk, ChunkDecoded, ChunkFails, Fail, Caller
      <3>2. UNCHANGED <<n_batch, n_prompt, max_gen, i, n_generated, accepted>>
        BY <1>10 DEF PromptChunk
      <3>3. QED
        BY <1>1, <1>10, <2>d, <3>1, <3>2 DEF PromptChunk, ChunkDecoded, Progress, Early,
           Generating
    <2>7. Cache'
      <3>1. /\ kv = IF n_batch > 0 THEN n_processed ELSE 0
            /\ n_prompt + max_gen <= NCtx /\ kv <= NCtx
        BY <1>1, <1>10 DEF PromptChunk, Cache
      <3>2. (kv' = IF n_batch > 0 THEN n_processed' ELSE 0) /\ kv' <= NCtx /\ UNCHANGED n_batch
        <4>0. UNCHANGED n_batch
          BY <1>10 DEF PromptChunk
        <4>1. CASE ChunkDecoded
          <5>1. (kv' = IF Chunk > 0 THEN kv + Chunk ELSE kv) /\ n_processed' = n_processed + Chunk
            BY <4>1 DEF ChunkDecoded
          <5>2. QED
            BY <1>t, <1>n, <2>a, <2>b, <3>1, <4>0, <5>1 DEF CountsOK
        <4>2. CASE ChunkFails
          BY <3>1, <4>0, <4>2 DEF ChunkFails
        <4>3. QED
          BY <1>10, <4>1, <4>2 DEF PromptChunk
      <3>3. pc' \in {"prompt", "chatfree", "returned"} /\ UNCHANGED <<n_prompt, max_gen>>
        BY <1>10 DEF PromptChunk, ChunkDecoded, ChunkFails, Fail, Caller
      <3>4. QED
        BY <3>1, <3>2, <3>3 DEF Cache, Generating
    <2>8. Memory'
      BY <1>1, <1>10 DEF PromptChunk, ChunkDecoded, ChunkFails, Chunk, Fail, Caller, Memory,
         Generating
    <2>9. Prefix'
      BY <1>1, <1>10 DEF PromptChunk, ChunkDecoded, ChunkFails, Chunk, Fail, Caller, Prefix, Early
    <2>10. Outcome'
      BY <1>1, <1>t, <1>10 DEF PromptChunk, ChunkDecoded, ChunkFails, Chunk, Fail, Caller,
         CountsOK, Outcome, Progress, Early, Ended, Generating
    <2>11. Noticed'
      BY <1>1, <1>t, <1>n, <1>10 DEF PromptChunk, ChunkDecoded, ChunkFails, Chunk, Fail, Caller,
         CountsOK, Noticed, Early, Stopping
    <2>12. QED
      BY <1>1, <1>a, <1>t, <1>10, <2>1, <2>2, <2>3, <2>4, <2>5, <2>6, <2>7, <2>8, <2>9, <2>10,
         <2>11 DEF PromptChunk, ChunkDecoded, ChunkFails, Chunk, Fail, Caller, Progress, Early
  <1>11. CASE BuildSampler
    <2>1. RequestOK' /\ FlagsOK'
      BY <1>t, <1>11 DEF BuildSampler, RequestOK, FlagsOK
    <2>2. ControlOK'
      BY <1>t, <1>11 DEF BuildSampler, Fail, Caller, ControlOK, Reasons
    <2>3. CodesOK' /\ HeapOK'
      BY <1>t, <1>11 DEF BuildSampler, Fail, Caller, CodesOK, HeapOK
    <2>4. CountsOK'
      BY <1>1, <1>t, <1>n, <1>11 DEF BuildSampler, Fail, Caller, CountsOK, Progress, Early
    <2>5. TextOK'
      BY <1>t, <1>11 DEF BuildSampler, Fail, Caller, TextOK
    <2>6. Progress'
      BY <1>1, <1>t, <1>n, <1>11 DEF BuildSampler, Fail, Caller, CountsOK, Progress, Early,
         Generating
    <2>7. Cache'
      <3>1. /\ kv = IF n_batch > 0 THEN n_processed ELSE 0
            /\ n_prompt + max_gen <= NCtx /\ kv <= NCtx /\ i = 0 /\ n_prompt > 0
            /\ IF n_batch > 0 THEN n_processed >= 0 ELSE n_processed <= 0
        BY <1>1, <1>11 DEF BuildSampler, Cache, Progress, Early
      <3>2. kv = n_prompt + i
        BY <1>t, <1>n, <1>11, <3>1, ContextAssumption DEF BuildSampler, CountsOK
      <3>3. pc' \in {"head", "chatfree", "returned"} /\ UNCHANGED <<n_prompt, max_gen, kv, i>>
        BY <1>11 DEF BuildSampler, Fail, Caller
      <3>4. QED
        BY <3>1, <3>2, <3>3 DEF Cache, Generating
    <2>8. Memory'
      BY <1>1, <1>11 DEF BuildSampler, Fail, Caller, Memory, Generating
    <2>9. Prefix'
      BY <1>1, <1>11 DEF BuildSampler, Fail, Caller, Prefix, Early
    <2>10. Outcome'
      BY <1>1, <1>t, <1>11 DEF BuildSampler, Fail, Caller, CountsOK, Outcome, Progress, Early,
         Ended, Generating
    <2>11. Noticed'
      BY <1>1, <1>t, <1>n, <1>11 DEF BuildSampler, Fail, Caller, CountsOK, Noticed, Early, Stopping
    <2>12. QED
      BY <1>1, <1>a, <1>t, <1>11, <2>1, <2>2, <2>3, <2>4, <2>5, <2>6, <2>7, <2>8, <2>9, <2>10,
         <2>11 DEF BuildSampler, Fail, Caller, Progress, Early
  <1>12. CASE LoopEnds
    <2>1. RequestOK' /\ FlagsOK'
      BY <1>t, <1>12 DEF LoopEnds, RequestOK, FlagsOK
    <2>2. ControlOK'
      BY <1>t, <1>12 DEF LoopEnds, ControlOK, Reasons
    <2>3. CodesOK' /\ HeapOK'
      BY <1>t, <1>12 DEF LoopEnds, CodesOK, HeapOK
    <2>4. CountsOK'
      BY <1>1, <1>t, <1>n, <1>12 DEF LoopEnds, CountsOK, Progress, Early
    <2>5. TextOK'
      BY <1>t, <1>12 DEF LoopEnds, TextOK
    <2>6. Progress'
      BY <1>1, <1>t, <1>n, <1>12 DEF LoopEnds, CountsOK, Progress, Early, Generating
    <2>7. Cache'
      BY <1>1, <1>t, <1>n, <1>12 DEF LoopEnds, CountsOK, Progress, Cache, Generating
    <2>8. Memory'
      BY <1>1, <1>12 DEF LoopEnds, Memory, Generating
    <2>9. Prefix'
      BY <1>1, <1>12 DEF LoopEnds, Prefix, Early
    <2>10. Outcome'
      BY <1>1, <1>t, <1>12 DEF LoopEnds, CountsOK, Outcome, Progress, Early, Ended, Generating
    <2>11. Noticed'
      BY <1>1, <1>t, <1>n, <1>12 DEF LoopEnds, CountsOK, Noticed, Early, Stopping
    <2>12. QED
      BY <1>1, <1>a, <1>t, <1>12, <2>1, <2>2, <2>3, <2>4, <2>5, <2>6, <2>7, <2>8, <2>9, <2>10,
         <2>11 DEF LoopEnds, Progress, Early
  <1>13. CASE LoopAborts
    <2>1. RequestOK' /\ FlagsOK'
      BY <1>t, <1>13 DEF LoopAborts, RequestOK, FlagsOK
    <2>2. ControlOK'
      BY <1>t, <1>13 DEF LoopAborts, Leave, ControlOK, Reasons
    <2>3. CodesOK' /\ HeapOK'
      BY <1>t, <1>13 DEF LoopAborts, Leave, CodesOK, HeapOK
    <2>4. CountsOK'
      BY <1>1, <1>t, <1>n, <1>13 DEF LoopAborts, Leave, CountsOK, Progress, Early
    <2>5. TextOK'
      BY <1>t, <1>13 DEF LoopAborts, Leave, TextOK
    <2>6. Progress'
      BY <1>1, <1>t, <1>n, <1>13 DEF LoopAborts, Leave, CountsOK, Progress, Early, Generating
    <2>7. Cache'
      BY <1>1, <1>t, <1>n, <1>13 DEF LoopAborts, Leave, CountsOK, Progress, Cache, Generating
    <2>8. Memory'
      BY <1>1, <1>13 DEF LoopAborts, Leave, Memory, Generating
    <2>9. Prefix'
      BY <1>1, <1>13 DEF LoopAborts, Leave, Prefix, Early
    <2>10. Outcome'
      BY <1>1, <1>t, <1>13 DEF LoopAborts, Leave, CountsOK, Outcome, Progress, Early, Ended,
         Generating
    <2>11. Noticed'
      BY <1>1, <1>t, <1>n, <1>13 DEF LoopAborts, Leave, CountsOK, Noticed, Early, Stopping
    <2>12. QED
      BY <1>1, <1>a, <1>t, <1>13, <2>1, <2>2, <2>3, <2>4, <2>5, <2>6, <2>7, <2>8, <2>9, <2>10,
         <2>11 DEF LoopAborts, Leave, Progress, Early
  <1>14. CASE LoopTimesOut
    <2>1. RequestOK' /\ FlagsOK'
      BY <1>t, <1>14 DEF LoopTimesOut, RequestOK, FlagsOK
    <2>2. ControlOK'
      BY <1>t, <1>14 DEF LoopTimesOut, Leave, ControlOK, Reasons
    <2>3. CodesOK' /\ HeapOK'
      BY <1>t, <1>14 DEF LoopTimesOut, Leave, CodesOK, HeapOK
    <2>4. CountsOK'
      BY <1>1, <1>t, <1>n, <1>14 DEF LoopTimesOut, Leave, CountsOK, Progress, Early
    <2>5. TextOK'
      BY <1>t, <1>14 DEF LoopTimesOut, Leave, TextOK
    <2>6. Progress'
      BY <1>1, <1>t, <1>n, <1>14 DEF LoopTimesOut, Leave, CountsOK, Progress, Early, Generating
    <2>7. Cache'
      BY <1>1, <1>t, <1>n, <1>14 DEF LoopTimesOut, Leave, CountsOK, Progress, Cache, Generating
    <2>8. Memory'
      BY <1>1, <1>14 DEF LoopTimesOut, Leave, Memory, Generating
    <2>9. Prefix'
      BY <1>1, <1>14 DEF LoopTimesOut, Leave, Prefix, Early
    <2>10. Outcome'
      BY <1>1, <1>t, <1>14 DEF LoopTimesOut, Leave, CountsOK, Outcome, Progress, Early, Ended,
         Generating
    <2>11. Noticed'
      BY <1>1, <1>t, <1>n, <1>14 DEF LoopTimesOut, Leave, CountsOK, Noticed, Early, Stopping
    <2>12. QED
      BY <1>1, <1>a, <1>t, <1>14, <2>1, <2>2, <2>3, <2>4, <2>5, <2>6, <2>7, <2>8, <2>9, <2>10,
         <2>11 DEF LoopTimesOut, Leave, Progress, Early
  <1>15. CASE LoopSamples
    <2>1. RequestOK' /\ FlagsOK'
      BY <1>t, <1>15 DEF LoopSamples, RequestOK, FlagsOK
    <2>2. ControlOK'
      BY <1>t, <1>15 DEF LoopSamples, ControlOK, Reasons
    <2>3. CodesOK' /\ HeapOK'
      BY <1>t, <1>15 DEF LoopSamples, CodesOK, HeapOK
    <2>4. CountsOK'
      BY <1>1, <1>t, <1>n, <1>15 DEF LoopSamples, CountsOK, Progress, Early
    <2>5. TextOK'
      BY <1>t, <1>15 DEF LoopSamples, TextOK
    <2>6. Progress'
      BY <1>1, <1>t, <1>n, <1>15 DEF LoopSamples, CountsOK, Progress, Early, Generating
    <2>7. Cache'
      BY <1>1, <1>t, <1>n, <1>15 DEF LoopSamples, CountsOK, Progress, Cache, Generating
    <2>8. Memory'
      BY <1>1, <1>15 DEF LoopSamples, Memory, Generating
    <2>9. Prefix'
      BY <1>1, <1>15 DEF LoopSamples, Prefix, Early
    <2>10. Outcome'
      BY <1>1, <1>t, <1>15 DEF LoopSamples, CountsOK, Outcome, Progress, Early, Ended, Generating
    <2>11. Noticed'
      <3>1. pc = "head" /\ pc' = "sample" /\ UNCHANGED <<i, overrun, late, cancel, shutdown,
            expired>>
        BY <1>15 DEF LoopSamples
      <3>2. late <= i % TimeoutEvery
        <4>1. i % TimeoutEvery \in 0..(TimeoutEvery - 1)
          BY <1>t, <1>n, NextRemainder DEF CountsOK
        <4>2. CASE i % TimeoutEvery = 0
          <5>1. ~expired
            BY <1>15, <4>2 DEF LoopSamples, ClockDue
          <5>2. ~(late > 0)
            BY <1>1, <5>1 DEF Noticed
          <5>3. QED
            BY <1>t, <4>2, <5>2 DEF CountsOK
        <4>3. CASE i % TimeoutEvery # 0
          BY <1>1, <3>1, <4>3 DEF Noticed
        <4>4. QED
          BY <4>2, <4>3
      <3>3. QED
        BY <1>1, <3>1, <3>2 DEF Noticed, Early, Stopping
    <2>12. QED
      BY <1>1, <1>a, <1>t, <1>15, <2>1, <2>2, <2>3, <2>4, <2>5, <2>6, <2>7, <2>8, <2>9, <2>10,
         <2>11 DEF LoopSamples, Progress, Early
  <1>16. CASE SampleEos
    <2>1. RequestOK' /\ FlagsOK'
      BY <1>t, <1>16 DEF SampleEos, RequestOK, FlagsOK
    <2>2. ControlOK'
      BY <1>t, <1>16 DEF SampleEos, Leave, ControlOK, Reasons
    <2>3. CodesOK' /\ HeapOK'
      BY <1>t, <1>16 DEF SampleEos, Leave, CodesOK, HeapOK
    <2>4. CountsOK'
      BY <1>1, <1>t, <1>n, <1>16 DEF SampleEos, Leave, CountsOK, Progress, Early
    <2>5. TextOK'
      BY <1>t, <1>16 DEF SampleEos, Leave, TextOK
    <2>6. Progress'
      BY <1>1, <1>t, <1>n, <1>16 DEF SampleEos, Leave, CountsOK, Progress, Early, Generating
    <2>7. Cache'
      BY <1>1, <1>t, <1>n, <1>16 DEF SampleEos, Leave, CountsOK, Progress, Cache, Generating
    <2>8. Memory'
      BY <1>1, <1>16 DEF SampleEos, Leave, Memory, Generating
    <2>9. Prefix'
      BY <1>1, <1>16 DEF SampleEos, Leave, Prefix, Early
    <2>10. Outcome'
      BY <1>1, <1>t, <1>16 DEF SampleEos, Leave, CountsOK, Outcome, Progress, Early, Ended,
         Generating
    <2>11. Noticed'
      BY <1>1, <1>t, <1>n, <1>16 DEF SampleEos, Leave, CountsOK, Noticed, Early, Stopping
    <2>12. QED
      <3>1. ~(n_generated' > i')
        BY <1>1, <1>t, <1>16 DEF SampleEos, Progress, CountsOK
      <3>2. QED
        BY <1>a, <1>16, <2>1, <2>2, <2>3, <2>4, <2>5, <2>6, <2>7, <2>8, <2>9, <2>10, <2>11,
           <3>1 DEF SampleEos, Leave
  <1>17. CASE StreamCallback
    <2>1. RequestOK' /\ FlagsOK'
      BY <1>t, <1>17 DEF StreamCallback, RequestOK, FlagsOK
    <2>2. ControlOK'
      BY <1>t, <1>17 DEF StreamCallback, Leave, ControlOK, Reasons
    <2>3. CodesOK' /\ HeapOK'
      BY <1>t, <1>17 DEF StreamCallback, Leave, CodesOK, HeapOK
    <2>4. CountsOK'
      BY <1>1, <1>t, <1>n, <1>17 DEF StreamCallback, Leave, CountsOK, Progress, Early
    <2>5. TextOK'
      BY <1>t, <1>17 DEF StreamCallback, Leave, TextOK
    <2>6. Progress'
      BY <1>1, <1>t, <1>n, <1>17 DEF StreamCallback, Leave, CountsOK, Progress, Early, Generating
    <2>7. Cache'
      BY <1>1, <1>t, <1>n, <1>17 DEF StreamCallback, Leave, CountsOK, Progress, Cache, Generating
    <2>8. Memory'
      BY <1>1, <1>17 DEF StreamCallback, Leave, Memory, Generating
    <2>9. Prefix'
      BY <1>1, <1>17 DEF StreamCallback, Leave, Prefix, Early
    <2>10. Outcome'
      BY <1>1, <1>t, <1>17 DEF StreamCallback, Leave, CountsOK, Outcome, Progress, Early,
         Ended, Generating
    <2>11. Noticed'
      BY <1>1, <1>t, <1>n, <1>17 DEF StreamCallback, Leave, CountsOK, Noticed, Early, Stopping
    <2>12. QED
      BY <1>1, <1>a, <1>t, <1>17, <2>1, <2>2, <2>3, <2>4, <2>5, <2>6, <2>7, <2>8, <2>9, <2>10,
         <2>11 DEF StreamCallback, Leave, Progress, Early
  <1>18. CASE DecodeNext
    <2>1. RequestOK' /\ FlagsOK'
      BY <1>t, <1>18 DEF DecodeNext, RequestOK, FlagsOK
    <2>2. ControlOK'
      BY <1>t, <1>18 DEF DecodeNext, Leave, ControlOK, Reasons
    <2>3. CodesOK' /\ HeapOK'
      BY <1>t, <1>18 DEF DecodeNext, Leave, CodesOK, HeapOK
    <2>4. CountsOK'
      BY <1>1, <1>t, <1>n, <1>18 DEF DecodeNext, Leave, CountsOK, Progress, Early
    <2>5. TextOK'
      BY <1>t, <1>18 DEF DecodeNext, Leave, TextOK
    <2>6. Progress'
      BY <1>1, <1>t, <1>n, <1>18 DEF DecodeNext, Leave, CountsOK, Progress, Early, Generating
    <2>7. Cache'
      BY <1>1, <1>t, <1>n, <1>18 DEF DecodeNext, Leave, CountsOK, Progress, Cache, Generating
    <2>8. Memory'
      BY <1>1, <1>18 DEF DecodeNext, Leave, Memory, Generating
    <2>9. Prefix'
      BY <1>1, <1>18 DEF DecodeNext, Leave, Prefix, Early
    <2>10. Outcome'
      BY <1>1, <1>t, <1>18 DEF DecodeNext, Leave, CountsOK, Outcome, Progress, Early, Ended,
         Generating
    <2>11. Noticed'
      <3>1. /\ pc = "decode" /\ UNCHANGED <<overrun, late, cancel, shutdown, expired>>
            /\ (pc' = "head" /\ i' = i + 1) \/ pc' = "finish"
        BY <1>18 DEF DecodeNext, Leave
      <3>2. overrun = 0 /\ late <= (i % TimeoutEvery) + 1 /\ late \in Nat /\ i \in Nat
        BY <1>1, <1>t, <3>1 DEF Noticed, CountsOK
      <3>3. late <= IF (i + 1) % TimeoutEvery = 0 THEN TimeoutEvery ELSE (i + 1) % TimeoutEvery
        <4>1. /\ i % TimeoutEvery \in 0..(TimeoutEvery - 1)
              /\ (i + 1) % TimeoutEvery =
                   IF (i % TimeoutEvery) + 1 = TimeoutEvery THEN 0 ELSE (i % TimeoutEvery) + 1
          BY <3>2, NextRemainder
        <4> DEFINE r == i % TimeoutEvery
                   q == (i + 1) % TimeoutEvery
        <4>2. /\ r \in 0..(TimeoutEvery - 1) /\ late <= r + 1
              /\ q = IF r + 1 = TimeoutEvery THEN 0 ELSE r + 1
          BY <3>2, <4>1
        <4> HIDE DEF r, q
        <4>3. late <= IF q = 0 THEN TimeoutEvery ELSE q
          BY <1>n, <3>2, <4>2
        <4>4. QED
          BY <4>3 DEF q
      <3>4. QED
        BY <1>1, <3>1, <3>2, <3>3 DEF Noticed, Early, Stopping
    <2>12. QED
      <3>1. pc' \notin {"callback", "decode"} /\ finish_reason' # "stop"
        BY <1>1, <1>18 DEF DecodeNext, Leave, Progress, Generating
      <3>2. QED
        BY <1>a, <1>18, <2>1, <2>2, <2>3, <2>4, <2>5, <2>6, <2>7, <2>8, <2>9, <2>10, <2>11,
           <3>1 DEF DecodeNext
  <1>19. CASE Finish
    <2>1. RequestOK' /\ FlagsOK'
      BY <1>t, <1>19 DEF Finish, RequestOK, FlagsOK
    <2>2. ControlOK'
      BY <1>t, <1>19 DEF Finish, Caller, ControlOK, Reasons
    <2>3. CodesOK' /\ HeapOK'
      BY <1>t, <1>19 DEF Finish, Caller, CodesOK, HeapOK
    <2>4. CountsOK'
      BY <1>1, <1>t, <1>n, <1>19 DEF Finish, Caller, CountsOK, Progress, Early
    <2>5. TextOK'
      BY <1>t, <1>19 DEF Finish, Caller, TextOK
    <2>6. Progress'
      BY <1>1, <1>t, <1>n, <1>19 DEF Finish, Caller, CountsOK, Progress, Early, Generating
    <2>7. Cache'
      BY <1>1, <1>t, <1>n, <1>19 DEF Finish, Caller, CountsOK, Progress, Cache, Generating
    <2>8. Memory'
      BY <1>1, <1>19 DEF Finish, Caller, Memory, Generating
    <2>9. Prefix'
      BY <1>1, <1>19 DEF Finish, Caller, Prefix, Early
    <2>10. Outcome'
      BY <1>1, <1>t, <1>19 DEF Finish, Caller, CountsOK, Outcome, Progress, Early, Ended, Generating
    <2>11. Noticed'
      BY <1>1, <1>t, <1>n, <1>19 DEF Finish, Caller, CountsOK, Noticed, Early, Stopping
    <2>12. QED
      BY <1>1, <1>a, <1>t, <1>19, <2>1, <2>2, <2>3, <2>4, <2>5, <2>6, <2>7, <2>8, <2>9, <2>10,
         <2>11 DEF Finish, Caller, Progress, Early
  <1>20. CASE ChatReturns
    <2>1. RequestOK' /\ FlagsOK'
      BY <1>t, <1>20 DEF ChatReturns, RequestOK, FlagsOK
    <2>2. ControlOK'
      BY <1>t, <1>20 DEF ChatReturns, ControlOK, Reasons
    <2>3. CodesOK' /\ HeapOK'
      BY <1>t, <1>20 DEF ChatReturns, CodesOK, HeapOK
    <2>4. CountsOK'
      BY <1>1, <1>t, <1>n, <1>20 DEF ChatReturns, CountsOK, Progress, Early
    <2>5. TextOK'
      BY <1>t, <1>20 DEF ChatReturns, TextOK
    <2>6. Progress'
      BY <1>1, <1>t, <1>n, <1>20 DEF ChatReturns, CountsOK, Progress, Early, Generating
    <2>7. Cache'
      BY <1>1, <1>t, <1>n, <1>20 DEF ChatReturns, CountsOK, Progress, Cache, Generating
    <2>8. Memory'
      BY <1>1, <1>20 DEF ChatReturns, Memory, Generating
    <2>9. Prefix'
      BY <1>1, <1>20 DEF ChatReturns, Prefix, Early
    <2>10. Outcome'
      BY <1>1, <1>t, <1>20 DEF ChatReturns, CountsOK, Outcome, Progress, Early, Ended, Generating
    <2>11. Noticed'
      BY <1>1, <1>t, <1>n, <1>20 DEF ChatReturns, CountsOK, Noticed, Early, Stopping
    <2>12. QED
      BY <1>1, <1>a, <1>t, <1>20, <2>1, <2>2, <2>3, <2>4, <2>5, <2>6, <2>7, <2>8, <2>9, <2>10,
         <2>11 DEF ChatReturns, Progress, Early
  <1>21. CASE StoreState
    <2>1. RequestOK' /\ FlagsOK'
      BY <1>t, <1>21 DEF StoreState, RequestOK, FlagsOK
    <2>2. ControlOK'
      BY <1>t, <1>21 DEF StoreState, ControlOK, Reasons
    <2>3. CodesOK' /\ HeapOK'
      BY <1>t, <1>21 DEF StoreState, CodesOK, HeapOK
    <2>4. CountsOK'
      BY <1>1, <1>t, <1>n, <1>21 DEF StoreState, CountsOK, Progress, Early
    <2>5. TextOK'
      BY <1>t, <1>21 DEF StoreState, TextOK
    <2>6. Progress'
      BY <1>1, <1>t, <1>n, <1>21 DEF StoreState, CountsOK, Progress, Early, Generating
    <2>7. Cache'
      BY <1>1, <1>t, <1>n, <1>21 DEF StoreState, CountsOK, Progress, Cache, Generating
    <2>8. Memory'
      BY <1>1, <1>21 DEF StoreState, Memory, Generating
    <2>9. Prefix'
      BY <1>1, <1>21 DEF StoreState, Prefix, Early
    <2>10. Outcome'
      BY <1>1, <1>t, <1>21 DEF StoreState, CountsOK, Outcome, Progress, Early, Ended, Generating
    <2>11. Noticed'
      BY <1>1, <1>t, <1>n, <1>21 DEF StoreState, CountsOK, Noticed, Early, Stopping
    <2>12. QED
      BY <1>1, <1>a, <1>t, <1>21, <2>1, <2>2, <2>3, <2>4, <2>5, <2>6, <2>7, <2>8, <2>9, <2>10,
         <2>11 DEF StoreState, Progress, Early
  <1>22. CASE Reply
    <2>1. RequestOK' /\ FlagsOK'
      BY <1>t, <1>22 DEF Reply, RequestOK, FlagsOK
    <2>2. ControlOK'
      BY <1>t, <1>22 DEF Reply, Statuses, ControlOK, Reasons
    <2>3. CodesOK' /\ HeapOK'
      BY <1>t, <1>22 DEF Reply, Statuses, CodesOK, HeapOK
    <2>4. CountsOK'
      BY <1>1, <1>t, <1>n, <1>22 DEF Reply, Statuses, CountsOK, Progress, Early
    <2>5. TextOK'
      BY <1>t, <1>22 DEF Reply, Statuses, TextOK
    <2>6. Progress'
      BY <1>1, <1>t, <1>n, <1>22 DEF Reply, Statuses, CountsOK, Progress, Early, Generating
    <2>7. Cache'
      BY <1>1, <1>t, <1>n, <1>22 DEF Reply, Statuses, CountsOK, Progress, Cache, Generating
    <2>8. Memory'
      BY <1>1, <1>22 DEF Reply, Statuses, Memory, Generating
    <2>9. Prefix'
      BY <1>1, <1>22 DEF Reply, Statuses, Prefix, Early
    <2>10. Outcome'
      BY <1>1, <1>t, <1>22 DEF Reply, Statuses, CountsOK, Outcome, Progress, Early, Ended,
         Generating
    <2>11. Noticed'
      BY <1>1, <1>t, <1>n, <1>22 DEF Reply, Statuses, CountsOK, Noticed, Early, Stopping
    <2>12. QED
      BY <1>1, <1>a, <1>t, <1>22, <2>1, <2>2, <2>3, <2>4, <2>5, <2>6, <2>7, <2>8, <2>9, <2>10,
         <2>11 DEF Reply, Statuses, Progress, Early
  <1>23. CASE Disconnect
    <2>1. RequestOK' /\ FlagsOK'
      BY <1>t, <1>23 DEF Disconnect, RequestOK, FlagsOK
    <2>2. ControlOK'
      BY <1>t, <1>23 DEF Disconnect, ControlOK, Reasons
    <2>3. CodesOK' /\ HeapOK'
      BY <1>t, <1>23 DEF Disconnect, CodesOK, HeapOK
    <2>4. CountsOK'
      BY <1>1, <1>t, <1>n, <1>23 DEF Disconnect, CountsOK, Progress, Early
    <2>5. TextOK'
      BY <1>t, <1>23 DEF Disconnect, TextOK
    <2>6. Progress'
      BY <1>1, <1>t, <1>n, <1>23 DEF Disconnect, CountsOK, Progress, Early, Generating
    <2>7. Cache'
      BY <1>1, <1>t, <1>n, <1>23 DEF Disconnect, CountsOK, Progress, Cache, Generating
    <2>8. Memory'
      BY <1>1, <1>23 DEF Disconnect, Memory, Generating
    <2>9. Prefix'
      BY <1>1, <1>23 DEF Disconnect, Prefix, Early
    <2>10. Outcome'
      BY <1>1, <1>t, <1>23 DEF Disconnect, CountsOK, Outcome, Progress, Early, Ended, Generating
    <2>11. Noticed'
      BY <1>1, <1>t, <1>n, <1>23 DEF Disconnect, CountsOK, Noticed, Early, Stopping
    <2>12. QED
      BY <1>1, <1>a, <1>t, <1>23, <2>1, <2>2, <2>3, <2>4, <2>5, <2>6, <2>7, <2>8, <2>9, <2>10,
         <2>11 DEF Disconnect, Progress, Early
  <1>24. CASE Signal
    <2>1. RequestOK' /\ FlagsOK'
      BY <1>t, <1>24 DEF Signal, RequestOK, FlagsOK
    <2>2. ControlOK'
      BY <1>t, <1>24 DEF Signal, ControlOK, Reasons
    <2>3. CodesOK' /\ HeapOK'
      BY <1>t, <1>24 DEF Signal, CodesOK, HeapOK
    <2>4. CountsOK'
      BY <1>1, <1>t, <1>n, <1>24 DEF Signal, CountsOK, Progress, Early
    <2>5. TextOK'
      BY <1>t, <1>24 DEF Signal, TextOK
    <2>6. Progress'
      BY <1>1, <1>t, <1>n, <1>24 DEF Signal, CountsOK, Progress, Early, Generating
    <2>7. Cache'
      BY <1>1, <1>t, <1>n, <1>24 DEF Signal, CountsOK, Progress, Cache, Generating
    <2>8. Memory'
      BY <1>1, <1>24 DEF Signal, Memory, Generating
    <2>9. Prefix'
      BY <1>1, <1>24 DEF Signal, Prefix, Early
    <2>10. Outcome'
      BY <1>1, <1>t, <1>24 DEF Signal, CountsOK, Outcome, Progress, Early, Ended, Generating
    <2>11. Noticed'
      BY <1>1, <1>t, <1>n, <1>24 DEF Signal, CountsOK, Noticed, Early, Stopping
    <2>12. QED
      BY <1>1, <1>a, <1>t, <1>24, <2>1, <2>2, <2>3, <2>4, <2>5, <2>6, <2>7, <2>8, <2>9, <2>10,
         <2>11 DEF Signal, Progress, Early
  <1>25. CASE Expire
    <2>1. RequestOK' /\ FlagsOK'
      BY <1>t, <1>25 DEF Expire, RequestOK, FlagsOK
    <2>2. ControlOK'
      BY <1>t, <1>25 DEF Expire, ControlOK, Reasons
    <2>3. CodesOK' /\ HeapOK'
      BY <1>t, <1>25 DEF Expire, CodesOK, HeapOK
    <2>4. CountsOK'
      BY <1>1, <1>t, <1>n, <1>25 DEF Expire, CountsOK, Progress, Early
    <2>5. TextOK'
      BY <1>t, <1>25 DEF Expire, TextOK
    <2>6. Progress'
      BY <1>1, <1>t, <1>n, <1>25 DEF Expire, CountsOK, Progress, Early, Generating
    <2>7. Cache'
      BY <1>1, <1>t, <1>n, <1>25 DEF Expire, CountsOK, Progress, Cache, Generating
    <2>8. Memory'
      BY <1>1, <1>25 DEF Expire, Memory, Generating
    <2>9. Prefix'
      BY <1>1, <1>25 DEF Expire, Prefix, Early
    <2>10. Outcome'
      BY <1>1, <1>t, <1>25 DEF Expire, CountsOK, Outcome, Progress, Early, Ended, Generating
    <2>11. Noticed'
      BY <1>1, <1>t, <1>n, <1>25 DEF Expire, CountsOK, Noticed, Early, Stopping
    <2>12. QED
      BY <1>1, <1>a, <1>t, <1>25, <2>1, <2>2, <2>3, <2>4, <2>5, <2>6, <2>7, <2>8, <2>9, <2>10,
         <2>11 DEF Expire, Progress, Early
  <1>26. CASE SamplePiece
    <2>1. PICK p \in Pieces :
             /\ piece' = p /\ text' = text \o p
             /\ window' = IF stops = {} THEN window ELSE Slide(window, p)
             /\ IF StopHit(window') THEN Leave("stop") ELSE pc' = "callback"
                /\ UNCHANGED finish_reason
      BY <1>26, Zenon DEF SamplePiece
    <2>2. /\ pc = "sample" /\ n_generated' = n_generated + 1
          /\ overrun' = IF cancel \/ shutdown THEN overrun + 1 ELSE overrun
          /\ late' = IF expired THEN late + 1 ELSE late
      BY <1>26 DEF SamplePiece
    <2>3. /\ UNCHANGED request /\ UNCHANGED <<rc, heap, state, status, response, response_cap>>
          /\ UNCHANGED <<n_prompt, n_processed, max_gen, i, kv, accepted, cancel, shutdown,
             expired>>
      BY <1>26 DEF SamplePiece
    <2>4. /\ rc = 0 /\ finish_reason = "length" /\ n_generated = i /\ accepted = i /\ i < max_gen
          /\ kv = n_prompt + i
      BY <1>1, <2>2 DEF Progress, Cache, Generating
    <2>5. p \in Seq(Nat)
      BY TextAssumption
    <2>6. text' \in Seq(Nat) /\ window' \in Seq(Nat) /\ Len(window') <= Window /\ Rolling'
      <3>1. text' \in Seq(Nat)
        BY <1>t, <2>1, <2>5, ConcatParts DEF TextOK
      <3>2. CASE stops = {}
        BY <1>t, <2>1, <2>3, <3>1, <3>2 DEF TextOK, Rolling
      <3>3. CASE stops # {}
        <4>1. WindowOf(window, text)
          BY <1>1, <3>3 DEF Rolling
        <4>2. window' = Slide(window, p)
          BY <2>1, <3>3
        <4>3. window' \in Seq(Nat) /\ WindowOf(window', text')
          BY <1>t, <2>1, <2>5, <4>1, <4>2, SlideKeepsEnd DEF TextOK
        <4>4. Len(window') = IF Len(text') < Window THEN Len(text') ELSE Window
          BY <4>3 DEF WindowOf
        <4>5. Len(window') <= Window
          BY <1>n, <3>1, <4>3, <4>4, LenProperties
        <4>6. QED
          BY <3>1, <4>3, <4>5 DEF Rolling, WindowOf
      <3>4. QED
        BY <3>2, <3>3
    <2>7. StopHit(window') <=> StopHit(text')
      <3>1. CASE stops = {}
        BY <3>1 DEF StopHit
      <3>2. CASE stops # {}
        <4>1. WindowOf(window', text')
          BY <2>3, <2>6, <3>2 DEF Rolling, WindowOf
        <4>2. QED
          BY <1>t, <2>6, <4>1, HitDecides DEF RequestOK
      <3>3. QED
        BY <3>1, <3>2
    <2>8. StopHit(text)' <=> StopHit(text')
      BY <2>3 DEF StopHit
    <2>9. \/ pc' = "finish" /\ finish_reason' = "stop" /\ StopHit(text)'
          \/ pc' = "callback" /\ finish_reason' = "length" /\ ~StopHit(text)'
      BY <2>1, <2>4, <2>7, <2>8 DEF Leave
    <2>10. TypeOK'
      <3>1. RequestOK' /\ FlagsOK'
        BY <1>t, <2>3 DEF RequestOK, FlagsOK
      <3>2. ControlOK'
        BY <1>t, <2>3, <2>9 DEF ControlOK, Reasons
      <3>3. CodesOK' /\ HeapOK'
        BY <1>t, <2>3 DEF CodesOK, HeapOK
      <3>4. CountsOK'
        <4>1. overrun' \in Nat /\ late' \in Nat
          BY <1>t, <2>2 DEF CountsOK
        <4>2. QED
          BY <1>t, <1>n, <2>2, <2>3, <2>4, <4>1 DEF CountsOK
      <3>5. TextOK'
        BY <1>t, <2>1, <2>3, <2>5, <2>6 DEF TextOK
      <3>6. QED
        BY <3>1, <3>2, <3>3, <3>4, <3>5, TypePartsNext
    <2>11. Progress' /\ Cache'
      <3>1. Progress'
        BY <2>2, <2>3, <2>4, <2>9 DEF Progress, Early, Generating
      <3>2. Cache'
        BY <1>1, <2>2, <2>3, <2>4, <2>9 DEF Cache, Generating
      <3>3. QED
        BY <3>1, <3>2
    <2>12. Memory'
      BY <1>1, <2>2, <2>3, <2>9 DEF Memory, Generating
    <2>13. Prefix'
      <3>1. ~stream => response = text
        BY <1>1, <2>2 DEF Prefix
      <3>2. QED
        BY <2>1, <2>3, <2>9, <3>1 DEF Prefix, Early
    <2>14. Outcome'
      <3>1. accepted' = n_generated' - 1 /\ i' # max_gen'
        BY <1>t, <1>n, <2>2, <2>3, <2>4 DEF CountsOK
      <3>2. QED
        BY <2>3, <2>4, <2>9, <3>1 DEF Outcome, Ended
    <2>15. Noticed'
      <3>1. overrun = 0 /\ late <= i % TimeoutEvery
        BY <1>1, <2>2 DEF Noticed
      <3>2. overrun' <= 1 /\ (overrun' > 0 => Stopping')
        BY <2>2, <2>3, <3>1 DEF Stopping
      <3>3. i % TimeoutEvery \in 0..(TimeoutEvery - 1)
        BY <1>t, <1>n, NextRemainder DEF CountsOK
      <3>4. late' <= (i % TimeoutEvery) + 1 /\ late' <= TimeoutEvery
        BY <1>t, <1>n, <2>2, <3>1, <3>3 DEF CountsOK
      <3>5. late' > 0 => expired'
        BY <1>1, <2>2, <2>3 DEF Noticed
      <3>6. QED
        BY <2>3, <2>9, <3>2, <3>4, <3>5 DEF Noticed, Early
    <2>16. QED
      BY <2>6, <2>9, <2>10, <2>11, <2>12, <2>13, <2>14, <2>15, StopExactHitsNext DEF IInv
  <1>27. CASE AccumCallback
    <2>1. pc = "callback" /\ ~stream
      BY <1>27 DEF AccumCallback
    <2>2. /\ UNCHANGED request /\ UNCHANGED <<rc, heap, state, status, piece, window, text>>
          /\ UNCHANGED counts /\ UNCHANGED <<overrun, late, cancel, shutdown, expired>>
      BY <1>27 DEF AccumCallback
    <2>3. /\ rc = 0 /\ finish_reason = "length" /\ n_generated = i + 1 /\ accepted = i
             /\ i < max_gen
          /\ text = response \o piece
      BY <1>1, <2>1 DEF Progress, Prefix, Generating
    <2>4. Len(piece) \in Nat /\ Len(response) \in Nat
      BY <1>t, LenProperties DEF TextOK
    <2>5. \/ /\ pc' = "decode" /\ finish_reason' = "length" /\ accepted' = accepted + 1
             /\ response' = text /\ response_cap' \in 0..ContentMax
             /\ Len(response) + Len(piece) < response_cap' /\ ~Stopping
          \/ /\ pc' = "finish" /\ finish_reason' = "abort"
             /\ UNCHANGED <<response, response_cap, accepted>>
      <3>1. response_cap \in 0..ContentMax /\ NewCap(Len(piece)) \in 0..ContentMax
        BY <1>t, <2>4, NewCapRange DEF TextOK
      <3>2. CASE ~Stopping /\ Fits(response_cap) /\ AppendToResponse(response_cap)
        BY <2>3, <3>1, <3>2 DEF AppendToResponse, Fits
      <3>3. CASE ~Stopping /\ Fits(NewCap(Len(piece))) /\ AppendToResponse(NewCap(Len(piece)))
        BY <2>3, <3>1, <3>3 DEF AppendToResponse, Fits
      <3>4. CASE Leave("abort") /\ UNCHANGED <<response, response_cap, accepted>>
        BY <3>4 DEF Leave
      <3>5. QED
        BY <1>27, <3>2, <3>3, <3>4 DEF AccumCallback
    <2>6. RequestOK' /\ FlagsOK'
      BY <1>t, <2>2 DEF RequestOK, FlagsOK
    <2>7. ControlOK'
      BY <1>t, <2>2, <2>5 DEF ControlOK, Reasons
    <2>8. CodesOK' /\ HeapOK'
      BY <1>t, <2>2 DEF CodesOK, HeapOK
    <2>9. CountsOK'
      BY <1>t, <1>n, <2>2, <2>3, <2>5 DEF CountsOK
    <2>10. TextOK'
      BY <1>t, <2>2, <2>5 DEF TextOK
    <2>11. Progress' /\ Cache'
      <3>1. Progress'
        BY <2>2, <2>3, <2>5 DEF Progress, Early, Generating
      <3>2. Cache'
        BY <1>1, <2>1, <2>2, <2>5 DEF Cache, Generating
      <3>3. QED
        BY <3>1, <3>2
    <2>12. Memory'
      <3>1. Len(text) = Len(response) + Len(piece)
        BY <1>t, <2>3, ConcatParts DEF TextOK
      <3>2. "response" \in heap' => Len(response') < response_cap'
        BY <1>1, <2>2, <2>5, <3>1 DEF Memory
      <3>3. QED
        BY <1>1, <2>1, <2>2, <2>5, <3>2 DEF Memory, Generating
    <2>13. Prefix'
      BY <2>2, <2>3, <2>5 DEF Prefix, Early
    <2>14. Outcome'
      <3>1. i' # max_gen' /\ accepted = n_generated' - 1
        BY <1>t, <1>n, <2>2, <2>3 DEF CountsOK
      <3>2. QED
        BY <2>2, <2>3, <2>5, <3>1 DEF Outcome, Ended
    <2>15. Noticed'
      <3>1. ~Stopping => ~(overrun > 0)
        BY <1>1 DEF Noticed
      <3>2. pc' = "decode" => overrun = 0
        BY <1>t, <2>5, <3>1 DEF CountsOK
      <3>3. QED
        BY <1>1, <2>1, <2>2, <2>5, <3>2 DEF Noticed, Early, Stopping
    <2>16. QED
      BY <1>1, <1>a, <2>1, <2>2, <2>5, <2>6, <2>7, <2>8, <2>9, <2>10, <2>11, <2>12, <2>13,
         <2>14, <2>15
  <1>28. CASE UNCHANGED vars
    <2> USE <1>28 DEF vars
    <2>1. RequestOK' /\ FlagsOK' /\ ControlOK' /\ TextOK'
      BY <1>t DEF RequestOK, FlagsOK, ControlOK, TextOK
    <2>2. CodesOK' /\ HeapOK' /\ CountsOK'
      BY <1>t DEF CodesOK, HeapOK, CountsOK
    <2>3. Progress' /\ Cache'
      BY <1>1 DEF Progress, Cache, Generating
    <2>4. Memory' /\ Prefix'
      BY <1>1 DEF Memory, Prefix, Generating
    <2>5. Outcome' /\ Noticed'
      BY <1>1 DEF Outcome, Noticed, Stopping
    <2>6. QED
      BY <1>1, <1>a, <2>1, <2>2, <2>3, <2>4, <2>5
  <1>29. QED
    BY <1>2, <1>3, <1>4, <1>5, <1>6, <1>7, <1>8, <1>9, <1>10, <1>11, <1>12, <1>13, <1>14, <1>15,
       <1>16, <1>17, <1>18, <1>19, <1>20, <1>21, <1>22, <1>23, <1>24, <1>25, <1>26, <1>27, <1>28
       DEF Next, WorkerStep, Answered

-----------------------------------------------------------------------------
(* The invariant holds in every reachable state.                           *)
LEMMA Invariance == Spec => []IInv
  BY InitIInv, NextIInv, PTL DEF Spec

(* The counts of inference_complete stay within max_gen and the rolling    *)
(* window within its capacity, whatever the request (inference.c:262).     *)
THEOREM TypeCorrect == Spec => []TypeOK
  <1>1. IInv => TypeOK
    BY DEF IInv
  <1>2. QED
    BY <1>1, Invariance, PTL

(* inference_complete never decodes past the context, for every context    *)
(* size, prompt, batch size and max_tokens.                                *)
THEOREM CacheFits == Spec => []KvFits
  <1>1. IInv => KvFits
    BY DEF IInv, Cache, KvFits
  <1>2. QED
    BY <1>1, Invariance, PTL

(* The rolling window of inference_complete finds a stop sequence exactly  *)
(* when a search of all the text would, for every set of stop sequences    *)
(* shorter than the window and every token text, longer ones included.     *)
THEOREM StopDecided == Spec => []StopExact
  <1>1. IInv => StopExact
    BY DEF IInv
  <1>2. QED
    BY <1>1, Invariance, PTL

(* A disconnect or a signal costs at most one more token, the deadline at  *)
(* most one clock interval, for every interval.                            *)
THEOREM StopsNoticed == Spec => []StopsInTime
  <1>1. IInv => StopsInTime
    BY DEF IInv, Noticed, StopsInTime
  <1>2. QED
    BY <1>1, Invariance, PTL

(* No path through worker_thread_func, inference_chat and                  *)
(* inference_complete leaves a buffer behind.                              *)
THEOREM NothingLeft == Spec => []NothingLeaked
  <1>1. IInv => NothingLeaked
    <2> SUFFICES ASSUME IInv, pc = "answered" PROVE heap = {}
      BY DEF NothingLeaked
    <2>1. HeapOK /\ Memory
      BY TypeParts DEF IInv
    <2>2. QED
      BY <2>1 DEF HeapOK, Memory, Generating
  <1>2. QED
    BY <1>1, Invariance, PTL

(* accum_token_cb writes within its buffer, NUL included, and the answer   *)
(* is the text or a prefix of it, for every piece and buffer size.         *)
THEOREM ResponseIsText == Spec => []ResponseSound
  <1>1. IInv => ResponseSound
    <2> SUFFICES ASSUME IInv PROVE ResponseSound
      OBVIOUS
    <2>1. TextOK /\ Memory /\ Prefix
      BY TypeParts DEF IInv
    <2>2. "response" \in heap => Len(response) < response_cap /\ response_cap <= ContentMax
      BY <2>1, ResponseAssumption DEF TextOK, Memory
    <2>3. ASSUME ~stream PROVE SubSeq(text, 1, Len(response)) = response
      <3>1. response \in Seq(Nat) /\ piece \in Seq(Nat) /\ Len(response) \in Nat
            /\ Len(piece) \in Nat
        BY <2>1, LenProperties DEF TextOK
      <3>2. CASE response = text
        <4>1. SubSeq(response, 1, Len(response)) = response
          BY <3>1, WholeSubSeq
        <4>2. QED
          BY <3>2, <4>1
      <3>3. CASE text = response \o piece
        <4>1. SubSeq(response \o piece, 1, Len(response)) = response
          BY <3>1, PrefixOfConcat
        <4>2. QED
          BY <3>3, <4>1
      <3>4. QED
        BY <2>1, <2>3, <3>2, <3>3 DEF Prefix
    <2>4. ASSUME ~stream, pc = "answered", finish_reason = "length" PROVE response = text
      BY <2>1, <2>4 DEF Prefix
    <2>5. QED
      BY <2>2, <2>3, <2>4 DEF ResponseSound
  <1>2. QED
    BY <1>1, Invariance, PTL

(* The finish reason and the token counts the answer reports are those of  *)
(* the loop's end, on every path out of inference_complete.                *)
THEOREM ReasonsHold == Spec => []ReasonSound
  <1>1. IInv => ReasonSound
    BY DEF IInv, Outcome, ReasonSound, Ended
  <1>2. QED
    BY <1>1, Invariance, PTL
-----------------------------------------------------------------------------
(* The worker always gets to the answer                                    *)

(* The steps left at each place.                                           *)
LEMMA RankAt ==
     /\ pc = "start"    => Rank = 13 + 5 * NCtx
     /\ pc = "render"   => Rank = 12 + 5 * NCtx
     /\ pc = "template" => Rank = 11 + 5 * NCtx
     /\ pc = "chatml"   => Rank = 10 + 5 * NCtx
     /\ pc = "built"    => Rank = 9 + 5 * NCtx
     /\ pc = "apply"    => Rank = 9 + 5 * NCtx
     /\ pc = "tokenize" => Rank = 8 + 5 * NCtx
     /\ pc = "tokens"   => Rank = 7 + 5 * NCtx
     /\ pc = "prompt"   => Rank =
          6 + 4 * NCtx + IF n_batch > 0 THEN n_prompt - n_processed ELSE NCtx
     /\ pc = "head"     => Rank = 5 + 4 * (max_gen - i)
     /\ pc = "sample"   => Rank = 4 + 4 * (max_gen - i)
     /\ pc = "callback" => Rank = 3 + 4 * (max_gen - i)
     /\ pc = "decode"   => Rank = 2 + 4 * (max_gen - i)
     /\ pc = "finish"   => Rank = 4
     /\ pc = "chatfree" => Rank = 3
     /\ pc = "returned" => Rank = 2
     /\ pc = "reply"    => Rank = 1
     /\ pc = "answered" => Rank = 0
  BY DEF Rank

(* The same of the next state.                                             *)
LEMMA RankAtNext ==
     /\ pc' = "start"    => Rank' = 13 + 5 * NCtx
     /\ pc' = "render"   => Rank' = 12 + 5 * NCtx
     /\ pc' = "template" => Rank' = 11 + 5 * NCtx
     /\ pc' = "chatml"   => Rank' = 10 + 5 * NCtx
     /\ pc' = "built"    => Rank' = 9 + 5 * NCtx
     /\ pc' = "apply"    => Rank' = 9 + 5 * NCtx
     /\ pc' = "tokenize" => Rank' = 8 + 5 * NCtx
     /\ pc' = "tokens"   => Rank' = 7 + 5 * NCtx
     /\ pc' = "prompt"   => Rank' =
          6 + 4 * NCtx + IF n_batch' > 0 THEN n_prompt' - n_processed' ELSE NCtx
     /\ pc' = "head"     => Rank' = 5 + 4 * (max_gen' - i')
     /\ pc' = "sample"   => Rank' = 4 + 4 * (max_gen' - i')
     /\ pc' = "callback" => Rank' = 3 + 4 * (max_gen' - i')
     /\ pc' = "decode"   => Rank' = 2 + 4 * (max_gen' - i')
     /\ pc' = "finish"   => Rank' = 4
     /\ pc' = "chatfree" => Rank' = 3
     /\ pc' = "returned" => Rank' = 2
     /\ pc' = "reply"    => Rank' = 1
     /\ pc' = "answered" => Rank' = 0
  BY DEF Rank

(* Each step of the worker thread is one of the steps it had left, and an  *)
(* idling prompt loop uses none of them up.                                *)
LEMMA StepsAreUsed ==
  ASSUME IInv, Next, WorkerStep
  PROVE  IF Idling THEN Rank' <= Rank ELSE Rank' < Rank
  <1>0. Progress /\ CountsOK /\ CountsOK' /\ n_batch \in Batches
    BY NextIInv, TypeParts, TypePartsNext DEF IInv, RequestOK
  <1>n. NCtx \in Nat \ {0} /\ n_batch \in Int /\ BackMax \in Nat
    BY <1>0, ContextAssumption
  <1> USE RankAt, RankAtNext DEF counts, Idling
  <1>1. CASE Start
    BY <1>0, <1>n, <1>1 DEF Start, Fail, CountsOK, Progress
  <1>2. CASE BuildChatml
    BY <1>0, <1>n, <1>2 DEF BuildChatml, Fail, CountsOK, Progress
  <1>3. CASE CheckChatml
    BY <1>0, <1>n, <1>3 DEF CheckChatml, Fail, CountsOK, Progress
  <1>4. CASE AllocMessages \/ SizeTemplate \/ ApplyTemplate
    BY <1>0, <1>n, <1>4 DEF AllocMessages, SizeTemplate, ApplyTemplate, Fail, CountsOK, Progress
  <1>5. CASE CountTokens
    BY <1>0, <1>n, <1>5 DEF CountTokens, Fail, Caller, CountsOK, Progress
  <1>6. CASE Tokenize
    <2>1. n_processed = 0 /\ UNCHANGED <<n_processed, n_prompt, n_batch>>
      BY <1>0, <1>6 DEF Tokenize, Progress, request
    <2>2. QED
      BY <1>0, <1>n, <1>6, <2>1 DEF Tokenize, Fail, Caller, CountsOK
  <1>7. CASE PromptChunk
    <2>1. UNCHANGED <<n_batch, n_prompt>> /\ pc = "prompt" /\ n_processed < n_prompt
      BY <1>7 DEF PromptChunk, request
    <2>2. Chunk \in Int /\ (Chunk > 0 <=> n_batch > 0)
      BY <1>0, <2>1, ChunkRange
    <2>3. CASE ChunkDecoded
      <3>1. pc' = "prompt" /\ n_processed' = n_processed + Chunk
        BY <2>1, <2>3 DEF ChunkDecoded
      <3>2. QED
        BY <1>0, <1>n, <2>1, <2>2, <3>1 DEF CountsOK
    <2>4. CASE ChunkFails
      BY <1>0, <1>n, <2>1, <2>4 DEF ChunkFails, Fail, Caller, CountsOK
    <2>5. QED
      BY <1>7, <2>3, <2>4 DEF PromptChunk
  <1>8. CASE BuildSampler
    <2>1. /\ n_prompt > 0 /\ n_processed >= n_prompt /\ pc = "prompt"
          /\ IF n_batch > 0 THEN n_processed >= 0 ELSE n_processed <= 0
      BY <1>0, <1>8 DEF BuildSampler, Progress
    <2>2. QED
      BY <1>0, <1>n, <1>8, <2>1 DEF BuildSampler, Fail, Caller, CountsOK
  <1>9. CASE LoopEnds
    BY <1>0, <1>n, <1>9 DEF LoopEnds, CountsOK, Progress
  <1>10. CASE LoopAborts
    BY <1>0, <1>n, <1>10 DEF LoopAborts, Leave, CountsOK, Progress
  <1>11. CASE LoopTimesOut
    BY <1>0, <1>n, <1>11 DEF LoopTimesOut, Leave, CountsOK, Progress
  <1>12. CASE LoopSamples
    BY <1>0, <1>n, <1>12 DEF LoopSamples, CountsOK, Progress
  <1>13. CASE SampleEos
    BY <1>0, <1>n, <1>13 DEF SampleEos, Leave, CountsOK, Progress
  <1>14. CASE SamplePiece
    BY <1>0, <1>n, <1>14 DEF SamplePiece, Leave, CountsOK, Progress
  <1>15. CASE StreamCallback
    BY <1>0, <1>n, <1>15 DEF StreamCallback, Leave, CountsOK, Progress
  <1>16. CASE AccumCallback
    BY <1>0, <1>n, <1>16 DEF AccumCallback, AppendToResponse, Leave, CountsOK, Progress
  <1>17. CASE DecodeNext
    BY <1>0, <1>n, <1>17 DEF DecodeNext, Leave, CountsOK, Progress
  <1>18. CASE Finish
    BY <1>0, <1>n, <1>18 DEF Finish, Caller, CountsOK, Progress
  <1>19. CASE ChatReturns
    BY <1>0, <1>n, <1>19 DEF ChatReturns, CountsOK, Progress
  <1>20. CASE StoreState
    BY <1>0, <1>n, <1>20 DEF StoreState, CountsOK, Progress
  <1>21. CASE Reply
    BY <1>0, <1>n, <1>21 DEF Reply, CountsOK, Progress
  <1>22. QED
    BY <1>1, <1>2, <1>3, <1>4, <1>5, <1>6, <1>7, <1>8, <1>9, <1>10, <1>11, <1>12, <1>13, <1>14,
       <1>15, <1>16, <1>17, <1>18, <1>19, <1>20, <1>21 DEF WorkerStep

(* No inference takes more than 13 + 5 * n_ctx steps of the worker thread, *)
(* whatever fails and whenever the client leaves, a signal arrives or the  *)
(* time runs out, those of a prompt loop with an n_batch that is zero or   *)
(* negative not counted: with a worker that keeps running,                 *)
(* EventuallyAnswered.                                                     *)
THEOREM StepsAreBounded == Spec => [](Rank \in 0..(13 + 5 * NCtx)) /\ [][Nearer]_vars
  <1>1. IInv => Rank \in 0..(13 + 5 * NCtx)
    <2> SUFFICES ASSUME IInv PROVE Rank \in 0..(13 + 5 * NCtx)
      OBVIOUS
    <2>1. CountsOK /\ ControlOK /\ Progress /\ n_batch \in Int
      BY TypeParts, ContextAssumption DEF IInv, RequestOK
    <2>2. pc = "prompt" /\ n_batch > 0 => n_processed >= 0
      BY <2>1 DEF Progress
    <2>3. QED
      BY <2>1, <2>2, RankAt, ContextAssumption DEF CountsOK, ControlOK
  <1>2. IInv /\ [Next]_vars => [Nearer]_vars
    <2> SUFFICES ASSUME IInv, Next PROVE Nearer
      OBVIOUS
    <2>1. WorkerStep => IF Idling THEN Rank' <= Rank ELSE Rank' < Rank
      BY StepsAreUsed
    <2>2. Disconnect \/ Signal \/ Expire \/ Answered => Rank' <= Rank
      <3>1. Rank \in Int
        BY <1>1, ContextAssumption
      <3>2. Disconnect \/ Signal \/ Expire \/ Answered => Rank' = Rank
        BY DEF Disconnect, Signal, Expire, Answered, Rank, vars, counts, request
      <3>3. QED
        BY <3>1, <3>2
    <2>3. QED
      BY <2>1, <2>2 DEF Next, Nearer
  <1>3. QED
    BY <1>1, <1>2, Invariance, PTL DEF Spec
=============================================================================
