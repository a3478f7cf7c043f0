-------------------------- MODULE Recommend_proof --------------------------
(***************************************************************************)
(* The advice of --recommend, for machines of any size.                    *)
(***************************************************************************)
EXTENDS Recommend, TLAPS

(* The maximum of a set is its upper bound in the set.                     *)
LEMMA MaxIs ==
  ASSUME NEW S \in SUBSET Int, NEW m \in S, \A y \in S : m >= y
  PROVE  Max(S) = m
  <1>1. \E x \in S : \A y \in S : x >= y
    OBVIOUS
  <1>2. Max(S) \in S /\ \A y \in S : Max(S) >= y
    BY <1>1 DEF Max
  <1>3. Max(S) \in Int /\ m \in Int
    BY <1>2
  <1>4. m >= Max(S) /\ Max(S) >= m
    BY <1>2
  <1>5. QED
    BY <1>3, <1>4

(* The rows of the table of models.                                        *)
LEMMA Models ==
  /\ DOMAIN hermes_models = 1..9
  /\ hermes_models[1] = [size |-> 49, max_ctx |-> 128, kv |-> 64]
  /\ hermes_models[2] = [size |-> 66, max_ctx |-> 128, kv |-> 64]
  /\ hermes_models[3] = [size |-> 85, max_ctx |-> 128, kv |-> 64]
  /\ hermes_models[4] = [size |-> 160, max_ctx |-> 128, kv |-> 64]
  /\ hermes_models[5] = [size |-> 330, max_ctx |-> 128, kv |-> 160]
  /\ hermes_models[6] = [size |-> 400, max_ctx |-> 128, kv |-> 160]
  /\ hermes_models[7] = [size |-> 500, max_ctx |-> 128, kv |-> 160]
  /\ hermes_models[8] = [size |-> 580, max_ctx |-> 128, kv |-> 160]
  /\ hermes_models[9] = [size |-> 740, max_ctx |-> 128, kv |-> 160]
  BY DEF hermes_models

(* The number of the last model of more than 10 GB within 85% of a budget, *)
(* 1 if there is none.                                                     *)
Pick(b) == IF b < 19 THEN 1 ELSE IF b < 39 THEN 4 ELSE IF b < 48 THEN 5
           ELSE IF b < 59 THEN 6 ELSE IF b < 69 THEN 7 ELSE IF b < 88 THEN 8 ELSE 9

(* The model chosen for a budget, written without Max.                     *)
LEMMA BestIs ==
  ASSUME NEW b \in Nat
  PROVE  best(b) = hermes_models[Pick(b)]
  <1> DEFINE fitting == {i \in DOMAIN hermes_models :
                           /\ Within(hermes_models[i].size, b, 85)
                           /\ hermes_models[i].size > 10 * GB}
  <1>1. \A i : i \in fitting <=>
           \/ i = 4 /\ b >= 19
           \/ i = 5 /\ b >= 39
           \/ i = 6 /\ b >= 48
           \/ i = 7 /\ b >= 59
           \/ i = 8 /\ b >= 69
           \/ i = 9 /\ b >= 88
    <2>1. ASSUME NEW i \in 1..9
          PROVE  i \in fitting <=> Within(hermes_models[i].size, b, 85)
             /\ hermes_models[i].size > 100
      BY Models DEF GB
    <2>2. \A i : i \in fitting => i \in 1..9
      BY Models
    <2> HIDE DEF fitting
    <2>3. ASSUME NEW i \in 1..9
          PROVE  i \in fitting <=> hermes_models[i].size * 10 <= b * 85
             /\ hermes_models[i].size > 100
      BY <2>1 DEF Within
    <2>4. 1 \notin fitting /\ 2 \notin fitting /\ 3 \notin fitting
      BY <2>3, Models
    <2>5. (4 \in fitting <=> b >= 19) /\ (5 \in fitting <=> b >= 39)
      BY <2>3, Models
    <2>6. (6 \in fitting <=> b >= 48) /\ (7 \in fitting <=> b >= 59)
      BY <2>3, Models
    <2>7. (8 \in fitting <=> b >= 69) /\ (9 \in fitting <=> b >= 88)
      BY <2>3, Models
    <2>8. \A i \in 1..9 : i \in {1, 2, 3, 4, 5, 6, 7, 8, 9}
      OBVIOUS
    <2>9. QED
      BY <2>2, <2>4, <2>5, <2>6, <2>7, <2>8
  <1>2. best(b) = hermes_models[IF fitting = {} THEN 1 ELSE Max(fitting)]
    BY DEF best
  <1> HIDE DEF fitting
  <1>3. CASE b < 19
    BY <1>1, <1>2, <1>3 DEF Pick
  <1>4. CASE b >= 19
    <2>1. Pick(b) \in fitting /\ \A i \in fitting : Pick(b) >= i
      BY <1>1, <1>4 DEF Pick
    <2>2. fitting \in SUBSET Int
      BY <1>1
    <2>3. Max(fitting) = Pick(b)
      BY <2>1, <2>2, MaxIs
    <2>4. QED
      BY <1>2, <2>1, <2>3
  <1>5. QED
    BY <1>3, <1>4

(* The KV cache of the recommended context fits, but for the shortest.     *)
LEMMA ContextFits ==
  ASSUME NEW b \in Nat, NEW m \in [size : Nat, max_ctx : Nat, kv : Nat]
  PROVE  /\ recommended_ctx(b, m) \in {4, 8, 16, 32, 64, 128}
         /\ \/ recommended_ctx(b, m) = 4
            \/ KvWithin(m, recommended_ctx(b, m), remaining_gb(b, m), 85)
  <1> DEFINE S == {4} \union {ctx_options[i] : i \in
                    {i \in DOMAIN ctx_options :
                       /\ ctx_options[i] <= m.max_ctx
                       /\ KvWithin(m, ctx_options[i], remaining_gb(b, m), 85)}}
             fits(c) == KvWithin(m, c, remaining_gb(b, m), 85)
  <1>1. DOMAIN ctx_options = 1..6 /\ \A i \in 1..6 : ctx_options[i] \in {4, 8, 16, 32, 64, 128}
    BY DEF ctx_options
  <1>2. \A c \in S : c \in {4, 8, 16, 32, 64, 128} /\ (c = 4 \/ fits(c))
    BY <1>1
  <1>3. 4 \in S
    OBVIOUS
  <1>4. recommended_ctx(b, m) = Max(S)
    BY DEF recommended_ctx
  <1> HIDE DEF S, fits
  <1>5. \E c \in S : \A d \in S : c >= d
    <2>1. \A d \in S : d \in {4, 8, 16, 32, 64, 128}
      BY <1>2
    <2>2. QED
      BY <1>3, <2>1
  <1>6. Max(S) \in S
    BY <1>5 DEF Max
  <1>7. QED
    BY <1>2, <1>4, <1>6 DEF fits

(* hw_print_recommendations, for every machine: the model it advises is    *)
(* starred in its own table, none larger is, and model and KV cache leave  *)
(* the memory that is kept for the system.                                 *)
THEOREM AdviceIsSound ==
  ASSUME NEW hw \in Machine
  PROVE  AdviceHolds(hw_print_recommendations(hw))
  <1> DEFINE memory == IF effective_gpu_mem(hw) > 0 THEN effective_gpu_mem(hw) ELSE hw.ram
             b      == model_budget_gb(hw)
             k      == Pick(b)
             m      == hermes_models[k]
             c      == recommended_ctx(b, m)
             share  == IF is_uma(hw) THEN 85 ELSE 100
             advice == hw_print_recommendations(hw)
  <1>1. memory \in Nat
    BY DEF Machine, effective_gpu_mem
  <1>2. b \in Nat /\ b * 1000 <= memory * share
    <2>1. budget_gb(hw) = memory \div 10
      BY DEF budget_gb, GB
    <2> HIDE DEF memory
    <2>2. budget_gb(hw) \in Nat /\ budget_gb(hw) * 10 <= memory
      BY <1>1, <2>1
    <2>3. CASE is_uma(hw)
      <3>1. b = (budget_gb(hw) * 85) \div 100 /\ share = 85
        BY <2>3 DEF model_budget_gb
      <3>2. QED
        BY <1>1, <2>2, <3>1
    <2>4. CASE ~is_uma(hw)
      BY <1>1, <2>2, <2>4 DEF model_budget_gb
    <2>5. QED
      BY <2>3, <2>4
  <1>3. share \in {85, 100}
    OBVIOUS
  <1>4. /\ advice.hw = hw /\ advice.model = m /\ advice.n_ctx = c
    BY <1>2, BestIs DEF hw_print_recommendations
  <1> HIDE DEF memory, b, share, advice
  <1> SUFFICES ASSUME b >= 6
               PROVE  /\ Starred(m, b)
                      /\ \A i \in DOMAIN hermes_models :
                           /\ hermes_models[i].size > m.size
                           /\ Starred(hermes_models[i], b)
                           => b < 19
                      /\ (m.size * 1024 + kv_mb(m, c) * GB) * 100 <= memory * 1024 * share
    BY <1>4 DEF AdviceHolds, advice, b, memory, share
  <1>5. \A s \in Nat : Fit(s, b) \in {"Easy", "Good"} <=> s * 10 <= b * 85
    BY <1>2 DEF Fit, Within
  <1>6. k \in {1, 4, 5, 6, 7, 8, 9} /\ (k = 1 <=> b < 19)
    BY <1>2 DEF Pick
  <1>7. m.size \in Nat /\ m.kv \in {64, 160} /\ m \in [size : Nat, max_ctx : Nat, kv : Nat]
    BY <1>6, Models
  <1>8. m.size * 10 <= b * 85 /\ (b >= 19 => m.size <= 740)
    <2>1. /\ k = 1 => b >= 6 /\ m.size = 49
          /\ k = 4 => b >= 19 /\ m.size = 160
          /\ k = 5 => b >= 39 /\ m.size = 330
          /\ k = 6 => b >= 48 /\ m.size = 400
          /\ k = 7 => b >= 59 /\ m.size = 500
          /\ k = 8 => b >= 69 /\ m.size = 580
          /\ k = 9 => b >= 88 /\ m.size = 740
      BY <1>2, Models DEF Pick
    <2> HIDE DEF m, k
    <2>2. QED
      BY <1>2, <1>6, <2>1
  <1>9. Starred(m, b)
    BY <1>5, <1>7, <1>8 DEF Starred
  <1>10. ASSUME NEW i \in DOMAIN hermes_models, hermes_models[i].size > m.size,
                Starred(hermes_models[i], b), b >= 19
         PROVE  FALSE
    <2>1. i \in 1..9 /\ hermes_models[i].size \in Nat
      BY Models
    <2>2. hermes_models[i].size * 10 <= b * 85
      BY <1>5, <1>10, <2>1 DEF Starred
    <2>3. i \in {1, 2, 3, 4, 5, 6, 7, 8, 9}
      BY <2>1
    <2>4. QED
      BY <1>2, <1>10, <2>2, <2>3, Models DEF Pick
  <1>11. m.size * 1024 + kv_mb(m, c) * GB <= b * 10 * 1024
    <2>1. /\ c \in {4, 8, 16, 32, 64, 128}
          /\ c = 4 \/ KvWithin(m, c, remaining_gb(b, m), 85)
      BY <1>2, <1>7, ContextFits
    <2>2. remaining_gb(b, m) = b * 10 - m.size
      <3>1. b * 10 - m.size >= 5
        BY <1>2, <1>7, <1>8
      <3>2. remaining_gb(b, m) = Max({b * 10 - m.size, 5})
        BY DEF remaining_gb, GB
      <3>3. PICK d \in Int : d = b * 10 - m.size
        BY <1>2, <1>7
      <3>4. {d, 5} \in SUBSET Int /\ d \in {d, 5} /\ \A y \in {d, 5} : d >= y
        BY <3>1, <3>3
      <3>5. Max({d, 5}) = d
        BY <3>4, MaxIs
      <3>6. QED
        BY <3>2, <3>3, <3>5
    <2> HIDE DEF c
    <2>3. CASE c = 4
      <3>1. CASE k = 1
        <4>1. m.size = 49 /\ m.kv = 64
          BY <3>1, Models
        <4> HIDE DEF m, k
        <4>2. QED
          BY <1>2, <2>3, <4>1 DEF kv_mb, GB
      <3>2. CASE k # 1
        <4>1. b >= 19 /\ m.kv <= 160
          BY <1>2, <1>6, <1>7, <3>2
        <4>2. QED
          BY <1>2, <1>7, <1>8, <2>3, <4>1 DEF kv_mb, GB
      <3>3. QED
        BY <3>1, <3>2
    <2>4. CASE KvWithin(m, c, remaining_gb(b, m), 85)
      <3>1. m.kv * c * 1000 <= (b * 10 - m.size) * 85 * 1024
        BY <2>2, <2>4 DEF KvWithin, kv_mb
      <3>2. QED
        BY <1>2, <1>7, <1>8, <2>1, <3>1 DEF kv_mb, GB
    <2>5. QED
      BY <2>1, <2>3, <2>4
  <1>12. (m.size * 1024 + kv_mb(m, c) * GB) * 100 <= memory * 1024 * share
    <2>1. kv_mb(m, c) * GB \in Nat
      <3>1. c \in {4, 8, 16, 32, 64, 128}
        BY <1>2, <1>7, ContextFits
      <3>2. QED
        BY <1>7, <3>1 DEF kv_mb, GB
    <2>2. PICK x \in Nat : x = m.size * 1024 + kv_mb(m, c) * GB
      BY <1>7, <2>1
    <2>3. x <= b * 10240
      BY <1>2, <1>11, <2>2
    <2>4. CASE share = 85
      BY <1>1, <1>2, <2>2, <2>3, <2>4
    <2>5. CASE share = 100
      BY <1>1, <1>2, <2>2, <2>3, <2>5
    <2>6. QED
      BY <1>3, <2>4, <2>5
  <1>13. QED
    BY <1>2, <1>9, <1>10, <1>12

=============================================================================
