----------------------------- MODULE Recommend -----------------------------
(***************************************************************************)
(* professord --recommend: from the memory hw_detect finds to the model    *)
(* and the --n-ctx that hw_print_recommendations advises.  Sizes are in    *)
(* tenths of a GB, so that the comparisons of recommend.c, which uses      *)
(* doubles, are integer ones with the same outcome (all budgets below 400  *)
(* GB were compared); context lengths are in K tokens, KV cache in MB.     *)
(***************************************************************************)
EXTENDS Integers, Sequences, FiniteSetsExt

GB == 10

(* What hw_detect reads of a machine: a card's dedicated memory (vram),    *)
(* the memory it shares with the CPU (gtt), and the memory Linux calls     *)
(* available (ram).                                                        *)
Machine == [vram : Nat, gtt : Nat, ram : Nat]

(* hermes_models, {size_gb, max_ctx, kv_bytes_per_tok}.                    *)
hermes_models ==
    LET entry(size, kv) == [size |-> size, max_ctx |-> 128, kv |-> kv]
    IN  << entry(49, 64), entry(66, 64), entry(85, 64), entry(160, 64),
           entry(330, 160), entry(400, 160), entry(500, 160), entry(580, 160),
           entry(740, 160) >>

ctx_options == <<4, 8, 16, 32, 64, 128>>

(* detect_gpu: an APU has little dedicated and much shared memory.         *)
is_uma(hw) == hw.vram > 0 /\ hw.vram < 4 * GB /\ hw.gtt > 4 * GB

effective_gpu_mem(hw) == IF is_uma(hw) THEN hw.gtt ELSE hw.vram

(* Without a GPU the model has to fit in the available RAM.                *)
budget_gb(hw) ==
    (IF effective_gpu_mem(hw) > 0 THEN effective_gpu_mem(hw) ELSE hw.ram) \div GB

(* Mutant: nothing is reserved on a machine that shares its memory.        *)
MutantModelBudget(hw) == budget_gb(hw)

model_budget_gb(hw) ==
    IF is_uma(hw) THEN (budget_gb(hw) * 85) \div 100 ELSE budget_gb(hw)

(* size <= budget * percent / 100                                          *)
Within(size, budget, percent) == size * 10 <= budget * percent

(* print_model_table: the fit of a model; the first two get a star.        *)
Fit(size, budget) ==
    CASE Within(size, budget, 65) -> "Easy"
      [] Within(size, budget, 85) /\ ~Within(size, budget, 65) -> "Good"
      [] Within(size, budget, 95) /\ ~Within(size, budget, 85) -> "Tight"
      [] Within(size, budget, 130) /\ ~Within(size, budget, 95) -> "Spill"
      [] OTHER -> "No"

Starred(m, budget) == Fit(m.size, budget) \in {"Easy", "Good"}

(* The top pick: the last model above 10 GB within 85% of the budget, else *)
(* the first of the table.                                                 *)
best(budget) ==
    LET fitting == {i \in DOMAIN hermes_models :
                      /\ Within(hermes_models[i].size, budget, 85)
                      /\ hermes_models[i].size > 10 * GB}
    IN  hermes_models[IF fitting = {} THEN 1 ELSE Max(fitting)]

remaining_gb(budget, m) == Max({budget * GB - m.size, 5})

kv_mb(m, ctx) == m.kv * ctx

(* kv <= remaining * percent / 100                                         *)
KvWithin(m, ctx, remaining, percent) == kv_mb(m, ctx) * 1000 <= remaining * percent * 1024

(* The longest context the model knows whose KV cache takes at most 85% of *)
(* what is left, and 4096 when there is none.                              *)
recommended_ctx(budget, m) ==
    Max({4} \union {ctx_options[i] : i \in
          {i \in DOMAIN ctx_options :
             /\ ctx_options[i] <= m.max_ctx
             /\ KvWithin(m, ctx_options[i], remaining_gb(budget, m), 85)}})

hw_print_recommendations(hw) ==
    LET budget == model_budget_gb(hw)
    IN  [hw |-> hw, model |-> best(budget),
         n_ctx |-> recommended_ctx(budget, best(budget))]

-----------------------------------------------------------------------------
(* What the advice is worth.                                               *)

(* The launch line --recommend prints can be followed on the machine it    *)
(* was printed for: its model is starred in the table above it, no larger  *)
(* one is (from 19 GB on; below, the smallest is advised), and model and   *)
(* KV cache together leave the memory that is kept for the system.  A      *)
(* budget below 6 GB holds none of the models.                             *)
AdviceHolds(advice) ==
    LET budget == model_budget_gb(advice.hw)
        memory == IF effective_gpu_mem(advice.hw) > 0
                  THEN effective_gpu_mem(advice.hw) ELSE advice.hw.ram
        used   == advice.model.size * 1024 + kv_mb(advice.model, advice.n_ctx) * GB
    IN  budget >= 6 =>
          /\ Starred(advice.model, budget)
          /\ \A i \in DOMAIN hermes_models :
                /\ hermes_models[i].size > advice.model.size
                /\ Starred(hermes_models[i], budget)
                => budget < 19
          /\ used * 100 <= memory * 1024 * (IF is_uma(advice.hw) THEN 85 ELSE 100)
=============================================================================
