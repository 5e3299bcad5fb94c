---------------------------- MODULE MCRehearsals ----------------------------
(***************************************************************************)
(* Environments: a fresh clone, an address without a key, with an empty or *)
(* unreadable secret, with a key in either place, and a Colab tunnel.      *)
(* Servers: the load exceeds the batch, fills it, and does not.            *)
(***************************************************************************)
EXTENDS Rehearsals

Env(provider, key, file, colab) ==
  [base_url |-> provider, model |-> provider, key |-> key, key_file |-> file, colab |-> colab]

MCEnvironments ==
  { Env(FALSE, FALSE, "none", FALSE), Env(TRUE, FALSE, "none", FALSE),
    Env(TRUE, FALSE, "empty", FALSE), Env(TRUE, FALSE, "unreadable", FALSE),
    Env(TRUE, TRUE, "none", FALSE), Env(TRUE, FALSE, "key", TRUE),
    Env(TRUE, FALSE, "none", TRUE) }

MCExperiments == << {"naive"}, {"batched"}, {"gen", "judge"} >>
MCMaxBatch == [naive |-> 1, batched |-> 3, gen |-> 2, judge |-> 2]
MCLoad == [naive |-> 2, batched |-> 4, gen |-> 2, judge |-> 3]
=============================================================================
