-------------------------- MODULE MCSchemaLinking --------------------------
(***************************************************************************)
(* Two requests with different tasks over two tables, of which one fits    *)
(* into a prompt.  For the first task words and meaning disagree, for the  *)
(* second a boost decides; one table has more columns than are shown.      *)
(***************************************************************************)
EXTENDS SchemaLinking

CONSTANTS r1, r2, company, contract, region, clients, risks, novector, notable

MCRequests == {r1, r2}
MCCatalogue == << company, contract >>
MCTasks == {clients, risks}
MCTask == (r1 :> clients) @@ (r2 :> risks)

MCTaskTokens == (clients :> {"contr", "list"}) @@ (risks :> {"risk"})
MCHeadTokens == (company :> {"compa"}) @@ (contract :> {"contr"})
MCAllTokens == (company :> {"compa", "name"}) @@ (contract :> {"contr", "risk"})

MCBoost == (company :> 1) @@ (contract :> 2)
MCCosine ==
  [x \in {company, contract, clients, risks} |->
     IF x = risks THEN (company :> 3) @@ (contract :> 2) @@ (clients :> 0) @@ (risks :> 9)
                  ELSE (company :> 5) @@ (contract :> 1) @@ (clients :> 9) @@ (risks :> 0)]

Col(name, noise, ref) == [name |-> name, noise |-> noise, ref |-> ref]
MCColumns ==
  (company :> << Col("id", FALSE, notable), Col("afr_note", TRUE, notable),
                 Col("name", FALSE, notable), Col("region_id", FALSE, region) >>) @@
  (contract :> << Col("id", FALSE, notable), Col("company_id", FALSE, company) >>)
=============================================================================
