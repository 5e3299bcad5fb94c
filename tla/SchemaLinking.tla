--------------------------- MODULE SchemaLinking ---------------------------
(***************************************************************************)
(* SchemaLinker().link_text() in several request threads (schema/          *)
(* linker.py) over the embeddings client they share (llm/embeddings.py):   *)
(* its lazily created singleton, its cache under a lock, its file, and     *)
(* the embeddings service, which may fail or answer in part.               *)
(*                                                                         *)
(* The process may die at any step and start again.  What the file holds   *)
(* while it is being written does not parse; after two clients have        *)
(* written at once it is what the last one wrote, or does not parse.       *)
(***************************************************************************)
EXTENDS Linker

CONSTANTS
  Requests,
  Task,         \* Task[r]: what request r asks for
  MaxCrashes    \* bound on the restarts of a run of the model

ASSUME SchemaLinkingAssumption ==
  /\ IsFiniteSet(Requests)
  /\ Task \in [Requests -> Tasks]
  /\ MaxCrashes \in Nat

NoClient == 0
Clients == 1..Cardinality(Requests)   \* a request creates one at most

VARIABLES
  crashes,
  token,        \* HF_TOKEN is set
  file,         \* what embeddings_cache.json parses to
  writers,      \* the clients that have the file open for writing
  singleton,    \* the global _singleton
  created,      \* how many clients this process has created
  cache,        \* cache[c], dirty[c], holder[c]: a client's _cache, _dirty and
  dirty,        \*   the requests inside "with self._cache_lock"
  holder,
  clashed,      \* the clients whose writing has overlapped with another's
  pc,           \* where link_text is
  mine,         \* mine[r]: the linker's _ec, or the client being created
  found,        \* found[r]: out, the tables' vectors
  missing,      \* missing[r]: the tables that were not in the cache
  pairs,        \* pairs[r]: zip(missing, vs), what is left of it
  warm, calls, failed, meant
                \* history: whether the client had all tables when r got it, the
                \*   requests r sent, whether its batch came back short of
                \*   something, and whether it ranked by meaning

process == << crashes, token >>
disk == << file, writers, clashed >>
client == << singleton, created, cache, dirty, holder >>
history == << warm, calls, failed, meant >>
batch == << found, missing, pairs >>
vars == << process, disk, client, pc, mine, batch, history >>

Empty == [x \in Texts |-> NoVector]
NotFound == [t \in Tables |-> NoVector]

Init ==
  /\ crashes = 0
  /\ token \in BOOLEAN
  /\ file = Empty
  /\ writers = {}
  /\ clashed = {}
  /\ singleton = NoClient
  /\ created = 0
  /\ cache = [c \in Clients |-> Empty]
  /\ dirty = [c \in Clients |-> FALSE]
  /\ holder = [c \in Clients |-> {}]
  /\ pc = [r \in Requests |-> "start"]
  /\ mine = [r \in Requests |-> NoClient]
  /\ found = [r \in Requests |-> NotFound]
  /\ missing = [r \in Requests |-> << >>]
  /\ pairs = [r \in Requests |-> << >>]
  /\ warm = [r \in Requests |-> FALSE]
  /\ calls = [r \in Requests |-> 0]
  /\ failed = [r \in Requests |-> FALSE]
  /\ meant = [r \in Requests |-> FALSE]

Goto(r, place) == pc' = [pc EXCEPT ![r] = place]

LockFree(c) == holder[c] = {}
-----------------------------------------------------------------------------
(* The client.                                                             *)

(* get_embeddings_client looks at the global without a lock ...            *)
GetClient(r) ==
  /\ pc[r] = "start"
  /\ Goto(r, IF singleton = NoClient THEN "create" ELSE "return")
  /\ UNCHANGED << process, disk, client, mine, batch, history >>

(* The catalogue is read before that; here or later an exception leaves    *)
(* link_text, and the caller goes on without a schema or answers 500.      *)
CatalogueFails(r) ==
  /\ pc[r] = "start"
  /\ Goto(r, "raised")
  /\ UNCHANGED << process, disk, client, mine, batch, history >>

(* ... creates a client with what can be parsed of the file ...            *)
CreateClient(r) ==
  /\ pc[r] = "create"
  /\ created' = created + 1
  /\ cache' = [cache EXCEPT ![created + 1] = file]
  /\ mine' = [mine EXCEPT ![r] = created + 1]
  /\ Goto(r, "assign")
  /\ UNCHANGED << process, disk, singleton, dirty, holder, batch, history >>

(* ... or fails to read it, so that the linker has no client ...           *)
CreateFails(r) ==
  /\ pc[r] = "create"
  /\ Goto(r, "words")
  /\ UNCHANGED << process, disk, client, mine, batch, history >>

(* ... assigns it ...                                                      *)
AssignClient(r) ==
  /\ pc[r] = "assign"
  /\ singleton' = mine[r]
  /\ Goto(r, "return")
  /\ UNCHANGED << process, disk, created, cache, dirty, holder, mine, batch, history >>

(* ... and returns the global, which another thread may have assigned.     *)
(* Without a token the ranking is by words.                                *)
ReturnClient(r) ==
  /\ pc[r] = "return"
  /\ mine' = [mine EXCEPT ![r] = singleton]
  /\ warm' = [warm EXCEPT ![r] = \A t \in Tables : cache[singleton][t] # NoVector]
  /\ Goto(r, IF token THEN "lookup" ELSE "words")
  /\ UNCHANGED << process, disk, client, batch, calls, failed, meant >>
-----------------------------------------------------------------------------
(* embed_batch.                                                            *)

Cached(c, x) == cache[c][x]

MissingUnlessSome(c) ==
  IF \E t \in Tables : Cached(c, t) # NoVector THEN << >> ELSE Catalogue
Missing(c) ==
  Keep(Catalogue, {i \in DOMAIN Catalogue : Cached(c, Catalogue[i]) = NoVector})

LookupBatch(r) ==
  /\ pc[r] = "lookup"
  /\ LockFree(mine[r])
  /\ found' = [found EXCEPT ![r] = [t \in Tables |-> Cached(mine[r], t)]]
  /\ missing' = [missing EXCEPT ![r] = Missing(mine[r])]
  /\ Goto(r, IF Missing(mine[r]) = << >> THEN "vectors" ELSE "fetch")
  /\ UNCHANGED << process, disk, client, mine, pairs, history >>

(* The service answers the texts in their order, or only the first of      *)
(* them, some with what is not a vector; no answer is one without vectors. *)
Reply(asked) ==
  {[i \in 1..n |-> IF i \in good THEN asked[i] ELSE NoVector] :
     n \in 0..Len(asked), good \in SUBSET DOMAIN asked}

Good(vs) == {i \in DOMAIN vs : vs[i] # NoVector}

AnsweredFromTheFirst(texts, vs) ==
  Keep([i \in DOMAIN vs |-> << Catalogue[i], vs[i] >>], Good(vs))

(* zip(missing, vs), less what is not a vector.                            *)
Answered(texts, vs) == Keep([i \in DOMAIN vs |-> << texts[i], vs[i] >>], Good(vs))

(* One request for all missing texts.                                      *)
FetchBatch(r) ==
  /\ pc[r] = "fetch"
  /\ calls' = [calls EXCEPT ![r] = @ + 1]
  /\ \E vs \in Reply(missing[r]) :
       LET answered == Answered(missing[r], vs)
       IN  /\ pairs' = [pairs EXCEPT ![r] = answered]
           /\ failed' = [failed EXCEPT ![r] = Len(answered) < Len(missing[r])]
           /\ Goto(r, IF answered = << >> THEN "vectors" ELSE "store")
  /\ missing' = [missing EXCEPT ![r] = << >>]
  /\ UNCHANGED << process, disk, client, mine, found, warm, meant >>

Store(c, x, v) ==
  /\ LockFree(c)
  /\ cache' = [cache EXCEPT ![c][x] = v]
  /\ dirty' = [dirty EXCEPT ![c] = TRUE]

(* The vectors are stored one at a time, each under the lock.              *)
StoreVector(r) ==
  /\ pc[r] = "store"
  /\ LET t == Head(pairs[r])[1]
         v == Head(pairs[r])[2]
     IN  /\ found' = [found EXCEPT ![r][t] = v]
         /\ Store(mine[r], t, v)
  /\ pairs' = [pairs EXCEPT ![r] = Tail(@)]
  /\ Goto(r, IF Len(pairs[r]) = 1 THEN "vectors" ELSE "store")
  /\ UNCHANGED << process, disk, singleton, created, holder, mine, missing, history >>

(* One vector is enough for the ranking by meaning.                        *)
AnyVector(r) == \E t \in Tables : found[r][t] # NoVector

KeepVectors(r) ==
  /\ pc[r] = "vectors"
  /\ Goto(r, IF AnyVector(r) THEN "save" ELSE "words")
  /\ UNCHANGED << process, disk, client, mine, batch, history >>
-----------------------------------------------------------------------------
(* save_cache: the whole cache is written under the lock, if it changed.   *)

(* open(..., "w") empties the file; from then on it does not parse.        *)
OpenForWriting(r) ==
  /\ pc[r] = "save"
  /\ LockFree(mine[r])
  /\ dirty[mine[r]]
  /\ holder' = [holder EXCEPT ![mine[r]] = @ \cup {r}]
  /\ file' = Empty
  /\ clashed' = IF writers = {} THEN {} ELSE clashed \cup writers \cup {mine[r]}
  /\ writers' = writers \cup {mine[r]}
  /\ Goto(r, "saving")
  /\ UNCHANGED << process, singleton, created, cache, dirty, mine, batch, history >>

NothingToSave(r) ==
  /\ pc[r] = "save"
  /\ LockFree(mine[r])
  /\ ~dirty[mine[r]]
  /\ Goto(r, "query")
  /\ UNCHANGED << process, disk, client, mine, batch, history >>

(* What two clients have written at once need not parse.                   *)
Written(c) == {cache[c]} \cup (IF c \in clashed THEN {Empty} ELSE {})

WriteFile(r) ==
  /\ pc[r] = "saving"
  /\ file' \in Written(mine[r])
  /\ writers' = writers \ {mine[r]}
  /\ Goto(r, "saved")
  /\ UNCHANGED << process, clashed, client, mine, batch, history >>

EndSave(r) ==
  /\ pc[r] = "saved"
  /\ dirty' = [dirty EXCEPT ![mine[r]] = FALSE]
  /\ holder' = [holder EXCEPT ![mine[r]] = @ \ {r}]
  /\ Goto(r, "query")
  /\ UNCHANGED << process, disk, singleton, created, cache, mine, batch, history >>

HeldAfterFailure(c, r) == holder[c]
HolderAfterFailure(c, r) == holder[c] \ {r}

(* The directory or the file cannot be opened, or not be written.  The     *)
(* exception leaves the lock and link_text.                                *)
SaveFails(r) ==
  /\ pc[r] = "saving" \/ (pc[r] = "save" /\ LockFree(mine[r]) /\ dirty[mine[r]])
  /\ writers' = writers \ {mine[r]}
  /\ file' \in {file} \cup (IF mine[r] \in clashed THEN {Empty} ELSE {})
  /\ holder' = [holder EXCEPT ![mine[r]] = HolderAfterFailure(mine[r], r)]
  /\ Goto(r, "raised")
  /\ UNCHANGED << process, clashed, singleton, created, cache, dirty, mine, batch, history >>
-----------------------------------------------------------------------------
(* embed and the ranking.                                                  *)

LookupQuery(r) ==
  /\ pc[r] = "query"
  /\ LockFree(mine[r])
  /\ Goto(r, IF Cached(mine[r], Task[r]) # NoVector THEN "meaning" ELSE "ask")
  /\ UNCHANGED << process, disk, client, mine, batch, history >>

(* Without an answer, or a usable one, the ranking is by words.            *)
FetchQuery(r) ==
  /\ pc[r] = "ask"
  /\ calls' = [calls EXCEPT ![r] = @ + 1]
  /\ Goto(r, "keep") \/ Goto(r, "words")
  /\ UNCHANGED << process, disk, client, mine, batch, warm, failed, meant >>

(* JSON that is not a list cannot be indexed, or paired with the texts.    *)
FetchRaises(r) ==
  /\ pc[r] \in {"fetch", "ask"}
  /\ calls' = [calls EXCEPT ![r] = @ + 1]
  /\ Goto(r, "raised")
  /\ UNCHANGED << process, disk, client, mine, batch, warm, failed, meant >>

StoreQuery(r) ==
  /\ pc[r] = "keep"
  /\ Store(mine[r], Task[r], Task[r])
  /\ Goto(r, "meaning")
  /\ UNCHANGED << process, disk, singleton, created, holder, mine, batch, history >>

Link(r) ==
  /\ pc[r] \in {"meaning", "words"}
  /\ meant' = [meant EXCEPT ![r] = pc[r] = "meaning"]
  /\ Goto(r, "linked")
  /\ UNCHANGED << process, disk, client, mine, batch, warm, calls, failed >>

(* What link_text then returns.                                            *)
Schema(r) ==
  LinkText(IF meant[r] THEN RankByMeaning(Task[r], found[r]) ELSE RankByWords(Task[r]))
-----------------------------------------------------------------------------
(* The process dies; a file that was being written does not parse.         *)
Crash ==
  /\ crashes < MaxCrashes
  /\ crashes' = crashes + 1
  /\ writers' = {}
  /\ clashed' = {}
  /\ singleton' = NoClient
  /\ created' = 0
  /\ cache' = [c \in Clients |-> Empty]
  /\ dirty' = [c \in Clients |-> FALSE]
  /\ holder' = [c \in Clients |-> {}]
  /\ pc' = [r \in Requests |-> "start"]
  /\ mine' = [r \in Requests |-> NoClient]
  /\ found' = [r \in Requests |-> NotFound]
  /\ missing' = [r \in Requests |-> << >>]
  /\ pairs' = [r \in Requests |-> << >>]
  /\ warm' = [r \in Requests |-> FALSE]
  /\ calls' = [r \in Requests |-> 0]
  /\ failed' = [r \in Requests |-> FALSE]
  /\ meant' = [r \in Requests |-> FALSE]
  /\ UNCHANGED << token, file >>

LinkSchema(r) ==
  \/ GetClient(r) \/ CatalogueFails(r) \/ CreateClient(r) \/ CreateFails(r)
  \/ AssignClient(r) \/ ReturnClient(r)
  \/ LookupBatch(r) \/ FetchBatch(r) \/ StoreVector(r) \/ KeepVectors(r)
  \/ OpenForWriting(r) \/ NothingToSave(r) \/ WriteFile(r) \/ EndSave(r)
  \/ SaveFails(r)
  \/ LookupQuery(r) \/ FetchQuery(r) \/ FetchRaises(r) \/ StoreQuery(r) \/ Link(r)

Next ==
  \/ \E r \in Requests : LinkSchema(r)
  \/ Crash

Spec == Init /\ [][Next]_vars

(* A thread goes on when it can; the request to the service has a timeout. *)
Fairness == \A r \in Requests : WF_vars(LinkSchema(r))

FairSpec == Spec /\ Fairness
-----------------------------------------------------------------------------
Places == {"start", "create", "assign", "return", "lookup", "fetch", "store", "vectors",
           "save", "saving", "saved", "query", "ask", "keep", "meaning", "words", "linked", "raised"}

TypeOK ==
  /\ token \in BOOLEAN
  /\ file \in [Texts -> Vectors]
  /\ writers \subseteq Clients /\ clashed \subseteq Clients
  /\ singleton \in {NoClient} \cup Clients
  /\ created \in {NoClient} \cup Clients
  /\ cache \in [Clients -> [Texts -> Vectors]]
  /\ dirty \in [Clients -> BOOLEAN]
  /\ holder \in [Clients -> SUBSET Requests]
  /\ \A c \in Clients : Cardinality(holder[c]) <= 1
  /\ pc \in [Requests -> Places]
  /\ mine \in [Requests -> {NoClient} \cup Clients]
  /\ found \in [Requests -> [Tables -> Vectors]]
  /\ missing \in [Requests -> Seq(Tables)]
  /\ pairs \in [Requests -> Seq(Tables \X Texts)]
  /\ warm \in [Requests -> BOOLEAN] /\ failed \in [Requests -> BOOLEAN]
  /\ calls \in [Requests -> Nat] /\ meant \in [Requests -> BOOLEAN]
  /\ crashes \in 0..MaxCrashes

(* Whoever fetched it and whatever came back short, a vector is that of    *)
(* the text it is kept for, in every cache, in the file and in the         *)
(* linkers (embeddings.py:113-126).                                        *)
VectorsAreOfTheirTexts ==
  /\ \A x \in Texts : file[x] \in {x, NoVector}
  /\ \A c \in Clients : \A x \in Texts : cache[c][x] \in {x, NoVector}
  /\ \A r \in Requests : \A t \in Tables : found[r][t] \in {t, NoVector}

(* A client that is alone, idle and not dirty has everything in the file:  *)
(* no vector stored while another thread saved is taken for saved, and     *)
(* none is after a failed save (embeddings.py:129-137).                    *)
CleanIsSaved ==
  (created = 1 /\ holder[1] = {} /\ ~dirty[1]) => file = cache[1]

(* A request that finds the tables warm asks the service once at most, for *)
(* its own task (linker.py:62-63).                                         *)
WarmLinksAskOnce == \A r \in Requests : warm[r] => calls[r] <= 1

(* The cache may be believed, in memory and on the disk, and spares the    *)
(* service what it has.                                                    *)
CacheIsTrue == TypeOK /\ VectorsAreOfTheirTexts /\ CleanIsSaved /\ WarmLinksAskOnce

LinkedTables(r) == {Schema(r)[i].table : i \in DOMAIN Schema(r)}

(* Whatever other requests store or fail to store meanwhile, the prompt    *)
(* has the K tables of the whole catalogue that score best for its task,   *)
(* unless the service left out a table (linker.py:114-155).                *)
BestTablesAreLinked ==
  \A r \in Requests : (pc[r] = "linked" /\ (meant[r] => ~failed[r])) =>
    LET score(t) == Boost[t] * IF meant[r] THEN Cosine[Task[r]][t] ELSE WordScore(Task[r], t)
        related == {t \in Tables : score(t) > 0}
    IN  /\ LinkedTables(r) \subseteq related
        /\ Cardinality(LinkedTables(r)) = Min({K, Cardinality(related)})
        /\ \A t \in LinkedTables(r), u \in related \ LinkedTables(r) : score(t) >= score(u)

(* A linked table keeps all its foreign keys, also those past the limit,   *)
(* and no more of its other columns than the limit (linker.py:187-193).    *)
ForeignKeysAreShown ==
  \A r \in Requests : pc[r] = "linked" =>
    \A i \in DOMAIN Schema(r) :
      LET block == Schema(r)[i]
          keys == {c.name : c \in {c \in ToSet(Columns[block.table]) : c.ref # NoTable /\ ~c.noise}}
          shown == {n \in DOMAIN block.columns : block.columns[n] \in keys}
      IN  /\ keys \subseteq ToSet(block.columns)
          /\ Cardinality(shown) = Cardinality(keys)
          /\ Len(block.columns) <= MaxCols + Cardinality(shown)

(* The model is given the best tables, with what it needs to join them.    *)
BestSchemaIsLinked == BestTablesAreLinked /\ ForeignKeysAreShown

(* Every request ends, with a schema or with an exception.                 *)
LinksEnd == \A r \in Requests : <>[](pc[r] \in {"linked", "raised"})
=============================================================================
