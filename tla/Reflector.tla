------------------------------ MODULE Reflector ------------------------------
(***************************************************************************)
(* nodes/reflector.py: the findings of a rejected audit become lessons for *)
(* the generator's next prompt.  A lesson is identified by its rule_id,    *)
(* the vulnerability class it is about; whether its text comes from a      *)
(* template or from the finding itself makes no difference here.           *)
(***************************************************************************)
EXTENDS Integers, Sequences

CONSTANT Window    \* how many lessons are kept: Reflector(window=5)

ASSUME WindowAssumption == Window \in Nat \ {0}

RuleIds(lessons) == {lessons[i] : i \in DOMAIN lessons}

(* One lesson per finding, in the order of the findings.                   *)
LessonsOf(vulns) == [i \in 1..Len(vulns) |-> vulns[i].class]

(* The loop "combined[l.rule_id] = l": a dict keeps a key where it was     *)
(* first inserted, whatever is stored under it later.  CombineSteps(p, n)[i] *)
(* is the dict after the first i new lessons.                              *)
CombineSteps(prev, new) ==
  LET combined[i \in 0..Len(new)] ==
        IF i = 0 THEN prev
        ELSE IF new[i] \in RuleIds(combined[i - 1])
             THEN combined[i - 1]
             ELSE Append(combined[i - 1], new[i])
  IN  combined

Combine(prev, new) == CombineSteps(prev, new)[Len(new)]

(* list[-n:], for n > 0                                                    *)
FirstN(s, n) == SubSeq(s, 1, IF Len(s) > n THEN n ELSE Len(s))
LastN(s, n) == SubSeq(s, IF Len(s) > n THEN Len(s) - n + 1 ELSE 1, Len(s))

Reflect(vulns, prev) == LastN(Combine(prev, LessonsOf(vulns)), Window)
=============================================================================
