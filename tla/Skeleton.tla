------------------------------ MODULE Skeleton ------------------------------
(***************************************************************************)
(* The walking skeleton: what the generator (nodes/generator.py) puts into *)
(* the prompt, which client llm/factory.py makes of the environment, and   *)
(* what llm/mock.py, the model of a clone without keys, answers.           *)
(*                                                                         *)
(* A prompt is the pair of the block names of its system and of its user   *)
(* messages; a block is told apart by the words a reader of the prompt may *)
(* look for in it.  What the task itself says comes with the prompt; the   *)
(* schema's texts and the examples have none of these words.               *)
(***************************************************************************)
EXTENDS Auditor, Reflector

Scenarios == {"evolve", "always_good", "always_bad"}

(* The process environment as far as make_llm reads it.                    *)
Environment ==
  [base_url : BOOLEAN, model : BOOLEAN, key : BOOLEAN, colab : BOOLEAN,
   key_file : {"none", "empty", "unreadable", "key"}]

_has_llm_api_key(env) == env.key \/ env.key_file = "key"

Mock(scenario) == [backend |-> "mock", scenario |-> scenario]
OpenAICompat == [backend |-> "openai_compat", scenario |-> "none"]
Colab == [backend |-> "colab", scenario |-> "none"]
Clients == {Mock(s) : s \in Scenarios} \cup {OpenAICompat, Colab}

make_llm_keyless(env) ==
  IF env.base_url /\ env.model THEN OpenAICompat
  ELSE IF env.colab THEN Colab
  ELSE Mock("evolve")
make_llm(env) ==
  IF env.base_url /\ env.model /\ _has_llm_api_key(env) THEN OpenAICompat
  ELSE IF env.colab THEN Colab
  ELSE Mock("evolve")
-----------------------------------------------------------------------------
(* The prompts.                                                            *)
_security_hints_block(hints) == IF hints THEN {"hints"} ELSE {}

_system_prompt(lessons, clarify_allowed, hints) ==
  {"role", "schema", "fewshot"}
  \cup (IF clarify_allowed THEN {"clarify"} ELSE {})
  \cup _security_hints_block(hints)
  \cup (IF lessons # << >> THEN {"lessons"} ELSE {})

GeneratePrompt(lessons, hints, said) ==
  [system |-> _system_prompt(lessons, FALSE, hints), user |-> {"task", "retry"},
   said |-> said]

(* The first prompt of a dialog; the last words are added when the rounds  *)
(* of questions are used up.                                               *)
DialogPrompt(force_sql, hints, said) ==
  [system |-> _system_prompt(<< >>, ~force_sql, hints),
   user |-> {"task"} \cup (IF force_sql THEN {"enough"} ELSE {}), said |-> said]

(* The words the mock looks for, after lower(): the hints forbid patterns  *)
(* with "НЕ используй", the clarify instruction speaks of a                *)
(* "reflection-урок", and the lessons come under "Reflection memory (уроки *)
(* прошлых попыток, НЕ повторяй)".                                         *)
WordsOf(block) ==
  IF block = "hints" THEN {"dont_use"}
  ELSE IF block = "clarify" THEN {"reflection", "lesson"}
  ELSE IF block = "lessons" THEN {"reflection", "lesson", "dont_repeat"}
  ELSE IF block = "judge_role" THEN {"judge"}
  ELSE {}
Words(blocks) == UNION {WordsOf(b) : b \in blocks}
-----------------------------------------------------------------------------
(* The mock.                                                               *)
CLEAN == [head |-> "select", marks |-> {"keyword", "where", "limit", "one_table"},
          cols |-> << >>]
DIRTY == [head |-> "select", marks |-> {"keyword", "star", "one_table"}, cols |-> << >>]
Advice == [head |-> "other", marks |-> {}, cols |-> << >>]

LessonWords == {"lesson", "reflection", "dont_use", "dont_repeat"}

_mock_generator(scenario, words) ==
  IF scenario = "always_good" THEN CLEAN
  ELSE IF scenario = "always_bad" THEN DIRTY
  ELSE IF words \cap LessonWords # {} THEN CLEAN ELSE DIRTY

(* The role is told by the system message alone.                           *)
MockChat(scenario, prompt) ==
  IF "judge" \in Words(prompt.system)
  THEN Advice
  ELSE _mock_generator(scenario, Words(prompt.system \cup prompt.user) \cup prompt.said)

(* chat: what may come back, and whether it may raise instead.  A provider *)
(* without a key answers 401, and raise_for_status raises.                 *)
Refused(client, env) == client = OpenAICompat /\ ~_has_llm_api_key(env)
MayRaise(client) == client.backend # "mock"
Answers(client, env, prompt) ==
  IF client.backend = "mock" THEN {MockChat(client.scenario, prompt)}
  ELSE IF Refused(client, env) THEN {} ELSE {CLEAN, DIRTY}
=============================================================================
