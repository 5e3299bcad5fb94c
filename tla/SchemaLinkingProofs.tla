------------------------- MODULE SchemaLinkingProofs -------------------------
(***************************************************************************)
(* The embeddings cache may be believed, and prompts are given the best    *)
(* tables with all their keys, for any number of requests, any catalogue,  *)
(* answers of the service that come back short, saves that fail and        *)
(* crashes.                                                                *)
(***************************************************************************)
EXTENDS SchemaLinking, FiniteSetTheorems, SequenceTheorems, WellFoundedInduction, TLAPS

(* Where a request is before it has a client, and from then on.            *)
Early == {"start", "create", "assign", "return"}
Saves == {"saving", "saved"}
HasClient == {"assign", "lookup", "fetch", "store", "vectors", "save", "saving", "saved",
              "query", "ask", "keep", "meaning"}

(* The requests that will create no client any more.                       *)
Past == {r \in Requests : pc[r] \notin {"start", "create"}}

(* Every client in use has been created, by a request of its own.          *)
Owned ==
  /\ singleton \in 0..created
  /\ \A r \in Requests : mine[r] \in 0..created
  /\ \A r \in Requests : pc[r] \in HasClient => mine[r] # NoClient
  /\ \A r \in Requests : pc[r] = "return" => singleton # NoClient
  /\ created <= Cardinality(Past)

(* A client's lock is kept by the one request that saves its cache.        *)
Locked ==
  /\ \A c \in Clients : \A r \in Requests :
       r \in holder[c] <=> pc[r] \in Saves /\ mine[r] = c
  /\ \A c \in Clients : \A r, q \in holder[c] : r = q

(* What is still to be stored is paired with its own table.                *)
Paired ==
  \A r \in Requests :
    /\ \A i \in DOMAIN pairs[r] : pairs[r][i][1] = pairs[r][i][2]
    /\ pc[r] = "store" => pairs[r] # << >>

(* As long as there is one client, its saves do not clash, what is saved   *)
(* is dirty until the end, and what was written is the cache.              *)
Saved ==
  /\ created = 0 => writers = {} /\ clashed = {}
  /\ \A c \in Clients : c > created => ~dirty[c]
  /\ created = 1 =>
       /\ clashed = {} /\ writers \subseteq {1}
       /\ 1 \in writers => \E r \in Requests : pc[r] = "saving"
       /\ \A r \in Requests : pc[r] = "saving" => dirty[1]
       /\ \A r \in Requests : pc[r] = "saved" => file = cache[1]

(* A request that found the tables warm has nothing to ask for but its     *)
(* task.                                                                   *)
Spared ==
  \A r \in Requests :
    /\ pc[r] \in Early => ~warm[r] /\ calls[r] = 0
    /\ warm[r] =>
         /\ pc[r] \notin {"fetch", "store"}
         /\ pc[r] = "lookup" => \A t \in Tables : cache[mine[r]][t] # NoVector
         /\ pc[r] \in {"lookup", "vectors", "save", "saving", "saved", "query", "ask"} =>
              calls[r] = 0

IInv ==
  /\ CacheIsTrue
  /\ Owned
  /\ Locked
  /\ Paired
  /\ Saved
  /\ Spared
-----------------------------------------------------------------------------
(* Induction on the natural numbers, stated about sets so that a proof can *)
(* use it without instantiating an operator.                               *)

(* A non-empty set of natural numbers has a least element.                 *)
LEMMA SmallestOf ==
  ASSUME NEW T \in SUBSET Nat, T # {}
  PROVE  \E x \in T : \A y \in T : x <= y
<1> DEFINE R == OpToRel(<, Nat)
<1>1. IsWellFoundedOn(R, Nat)
  BY NatLessThanWellFounded
<1>2. \A x, y \in Nat : y < x => << y, x >> \in R
  BY DEF OpToRel
<1> HIDE DEF R
<1>3. \E x \in T : \A y \in T : ~(<< y, x >> \in R)
  BY <1>1, WFMin
<1>4. PICK x \in T : \A y \in T : ~(<< y, x >> \in R)
  BY <1>3
<1>5. ASSUME NEW y \in T PROVE x <= y
  <2>1. x \in Nat /\ y \in Nat
    OBVIOUS
  <2>2. ~(y < x)
    BY <1>2, <1>4, <2>1, Zenon
  <2>3. QED
    BY <2>1, <2>2, SMT
<1>6. QED
  BY <1>5, Zenon

(* What holds of 0 and is handed from i to i + 1 holds up to n.            *)
LEMMA InductionUpTo ==
  ASSUME NEW n \in Nat, NEW P,
         0 \in P,
         \A i \in 0..(n - 1) : i \in P => i + 1 \in P
  PROVE  0..n \subseteq P
<1> DEFINE T == (0..n) \ P
<1> SUFFICES ASSUME T # {} PROVE FALSE
  OBVIOUS
<1>1. PICK x \in T : \A y \in T : x <= y
  <2>1. T \in SUBSET Nat
    OBVIOUS
  <2> HIDE DEF T
  <2>2. QED
    BY <2>1, SmallestOf
<1>2. x \in 1..n
  BY <1>1
<1>3. x - 1 \in P
  BY <1>1, <1>2
<1>4. (x - 1) + 1 \in P
  BY <1>2, <1>3
<1>5. QED
  BY <1>1, <1>2, <1>4
-----------------------------------------------------------------------------
(* Keep.  Its steps are a recursive function, which unfolds if there is    *)
(* one.                                                                    *)
Body(s, places, g, i) ==
  IF i = 0 THEN << >>
  ELSE IF i \in places THEN Append(g[i - 1], s[i]) ELSE g[i - 1]

Unfolds(s, places, k, g) == g = [i \in 0..k |-> Body(s, places, g, i)]

LEMMA KeepStepsExist ==
  ASSUME NEW s, NEW places, NEW n \in Nat
  PROVE  \E g : Unfolds(s, places, n, g)
<1> DEFINE P == {k \in 0..n : \E g : Unfolds(s, places, k, g)}
<1>1. 0 \in P
  <2> DEFINE g == [i \in 0..0 |-> << >>]
  <2>1. \A i \in 0..0 : Body(s, places, g, i) = << >>
    BY DEF Body
  <2>2. g = [i \in 0..0 |-> Body(s, places, g, i)]
    BY <2>1
  <2>3. Unfolds(s, places, 0, g)
    BY <2>2 DEF Unfolds
  <2>4. QED
    BY <2>3
<1>2. ASSUME NEW k \in 0..(n - 1), k \in P PROVE k + 1 \in P
  <2>1. PICK g : Unfolds(s, places, k, g)
    BY <1>2
  <2> DEFINE h == [i \in 0..(k + 1) |->
                     IF i <= k THEN g[i] ELSE Body(s, places, g, k + 1)]
  <2>2. ASSUME NEW i \in 0..k PROVE h[i] = Body(s, places, h, i)
    <3>1. h[i] = g[i] /\ g[i] = Body(s, places, g, i)
      BY <2>1 DEF Unfolds
    <3>2. i # 0 => h[i - 1] = g[i - 1]
      OBVIOUS
    <3> HIDE DEF h
    <3>3. QED
      BY <3>1, <3>2 DEF Body
  <2>3. h[k + 1] = Body(s, places, h, k + 1)
    <3>1. h[k + 1] = Body(s, places, g, k + 1) /\ h[k] = g[k]
      OBVIOUS
    <3> HIDE DEF h
    <3>2. QED
      BY <3>1 DEF Body
  <2>4. DOMAIN h = 0..(k + 1) /\ h = [i \in 0..(k + 1) |-> h[i]]
    OBVIOUS
  <2> HIDE DEF h
  <2>5. \A i \in 0..(k + 1) : h[i] = Body(s, places, h, i)
    BY <2>2, <2>3
  <2>6. Unfolds(s, places, k + 1, h)
    BY <2>4, <2>5 DEF Unfolds
  <2>7. QED
    BY <2>6
<1> HIDE DEF P
<1>3. 0..n \subseteq P
  BY <1>1, <1>2, InductionUpTo
<1>4. QED
  BY <1>3 DEF P

LEMMA KeepUnfolds ==
  ASSUME NEW s, NEW places, Len(s) \in Nat
  PROVE  \E g : Unfolds(s, places, Len(s), g) /\ Keep(s, places) = g[Len(s)]
<1> DEFINE g == CHOOSE g : Unfolds(s, places, Len(s), g)
<1>1. Unfolds(s, places, Len(s), g)
  <2>1. \E h : Unfolds(s, places, Len(s), h)
    BY KeepStepsExist
  <2>2. QED
    BY <2>1, Zenon
<1>2. Keep(s, places) = g[Len(s)]
  BY Zenon DEF Keep, Unfolds, Body
<1>3. QED
  BY <1>1, <1>2, Zenon

(* What is kept is what was at one of the places; there is nothing to keep *)
(* without places.                                                         *)
LEMMA KeptIsFromPlaces ==
  ASSUME NEW S, NEW s \in Seq(S), NEW places
  PROVE  /\ Keep(s, places) \in Seq(S)
         /\ \A j \in DOMAIN Keep(s, places) :
              \E i \in places \cap DOMAIN s : Keep(s, places)[j] = s[i]
         /\ places = {} => Keep(s, places) = << >>
<1> DEFINE T == {s[i] : i \in places \cap DOMAIN s}
           n == Len(s)
<1>1. n \in Nat /\ DOMAIN s = 1..n
  OBVIOUS
<1>2. PICK g : Unfolds(s, places, n, g) /\ Keep(s, places) = g[n]
  BY <1>1, KeepUnfolds
<1> HIDE DEF n
<1> DEFINE P == {i \in 0..n : g[i] \in Seq(T) /\ (places = {} => g[i] = << >>)}
<1>3. \A i \in 0..n : g[i] = Body(s, places, g, i)
  BY <1>2 DEF Unfolds
<1>4. 0 \in P
  <2>1. 0 \in 0..n /\ g[0] = << >>
    BY <1>1, <1>3 DEF Body
  <2> HIDE DEF T
  <2>2. << >> \in Seq(T)
    OBVIOUS
  <2>3. QED
    BY <2>1, <2>2
<1>5. ASSUME NEW i \in 0..(n - 1), i \in P PROVE i + 1 \in P
  <2>1. i + 1 \in 0..n /\ i + 1 # 0 /\ (i + 1) - 1 = i /\ i + 1 \in DOMAIN s
    BY <1>1
  <2>2. g[i + 1] = IF i + 1 \in places THEN Append(g[i], s[i + 1]) ELSE g[i]
    BY <1>3, <2>1 DEF Body
  <2>3. g[i] \in Seq(T) /\ (places = {} => g[i] = << >>)
    BY <1>5
  <2>4. i + 1 \in places => s[i + 1] \in T
    BY <2>1
  <2> HIDE DEF T
  <2>5. g[i + 1] \in Seq(T) /\ (places = {} => g[i + 1] = << >>)
    BY <2>2, <2>3, <2>4
  <2>6. QED
    BY <2>1, <2>5
<1>6. n \in P
  <2> HIDE DEF P
  <2>1. 0..n \subseteq P
    BY <1>1, <1>4, <1>5, InductionUpTo
  <2>2. QED
    BY <1>1, <2>1
<1>7. Keep(s, places) \in Seq(T) /\ (places = {} => Keep(s, places) = << >>)
  BY <1>2, <1>6
<1>8. T \subseteq S
  OBVIOUS
<1>9. \A j \in DOMAIN Keep(s, places) : Keep(s, places)[j] \in T
  <2> HIDE DEF T
  <2>1. QED
    BY <1>7
<1>10. Keep(s, places) \in Seq(S)
  <2> HIDE DEF T
  <2>1. QED
    BY <1>7, <1>8
<1>11. QED
  BY <1>7, <1>9, <1>10
-----------------------------------------------------------------------------
(* The steps.                                                              *)
LEMMA PastFacts ==
  ASSUME TypeOK
  PROVE  /\ IsFiniteSet(Past) /\ Cardinality(Past) \in Nat
         /\ Cardinality(Past) <= Cardinality(Requests) /\ Cardinality(Requests) \in Nat
         /\ \A r \in Requests : r \notin Past =>
              /\ Cardinality(Past \cup {r}) = Cardinality(Past) + 1
              /\ Cardinality(Past \cup {r}) <= Cardinality(Requests)
<1>1. Past \in SUBSET Requests
  BY DEF Past
<1>2. IsFiniteSet(Requests) /\ Cardinality(Requests) \in Nat
  BY SchemaLinkingAssumption, FS_CardinalityType
<1>3. IsFiniteSet(Past) /\ Cardinality(Past) <= Cardinality(Requests)
  BY <1>1, <1>2, FS_Subset
<1>4. Cardinality(Past) \in Nat
  BY <1>3, FS_CardinalityType
<1>5. ASSUME NEW r \in Requests, r \notin Past
      PROVE  /\ Cardinality(Past \cup {r}) = Cardinality(Past) + 1
             /\ Cardinality(Past \cup {r}) <= Cardinality(Requests)
  <2>1. Cardinality(Past \cup {r}) = Cardinality(Past) + 1
    BY <1>3, <1>5, FS_AddElement
  <2>2. Past \cup {r} \in SUBSET Requests
    BY <1>1
  <2>3. QED
    BY <1>2, <2>1, <2>2, FS_Subset
<1>6. QED
  BY <1>2, <1>3, <1>4, <1>5

LEMMA PastGrows ==
  ASSUME TypeOK, NEW r \in Requests, pc'[r] \notin {"start", "create"},
         \A q \in Requests : q # r => pc'[q] = pc[q]
  PROVE  /\ Cardinality(Past') \in Nat /\ Cardinality(Past) \in Nat
         /\ Cardinality(Past') >= Cardinality(Past)
         /\ r \notin Past => Cardinality(Past') = Cardinality(Past) + 1
<1>1. Past' = Past \cup {r}
  BY DEF Past
<1>2. CASE r \in Past
  <2>1. Past' = Past
    BY <1>1, <1>2
  <2>2. QED
    BY <1>2, <2>1, PastFacts
<1>3. CASE r \notin Past
  BY <1>1, <1>3, PastFacts
<1>4. QED
  BY <1>2, <1>3

LEMMA MoreThanOneLeft ==
  ASSUME NEW S, NEW s \in Seq(S), s # << >>, Len(s) # 1
  PROVE  Tail(s) # << >>
<1>1. Len(Tail(s)) = Len(s) - 1 /\ Len(s) \in Nat
  OBVIOUS
<1>2. Len(Tail(s)) # 0
  BY <1>1
<1>3. Len(<< >>) = 0
  OBVIOUS
<1>4. QED
  BY <1>2, <1>3, Zenon

LEMMA SetAt ==
  ASSUME NEW A, NEW B, NEW V, NEW f \in [A -> [B -> V]],
         NEW a \in A, NEW b \in B, NEW v \in V
  PROVE  [f EXCEPT ![a] = [f[a] EXCEPT ![b] = v]] \in [A -> [B -> V]]
  OBVIOUS

LEMMA MissingTables ==
  ASSUME NEW c
  PROVE  /\ Missing(c) \in Seq(Tables)
         /\ (\A t \in Tables : cache[c][t] # NoVector) => Missing(c) = << >>
<1> DEFINE places == {i \in DOMAIN Catalogue : cache[c][Catalogue[i]] = NoVector}
<1>1. Catalogue \in Seq(Tables)
  BY LinkerAssumption
<1>2. Missing(c) = Keep(Catalogue, places)
  BY DEF Missing, Cached
<1>3. (\A t \in Tables : cache[c][t] # NoVector) => places = {}
  BY <1>1
<1> HIDE DEF places
<1>4. QED
  BY <1>1, <1>2, <1>3, KeptIsFromPlaces

LEMMA RepliesAre ==
  ASSUME NEW asked, NEW vs \in Reply(asked)
  PROVE  \E n \in 0..Len(asked), good \in SUBSET DOMAIN asked :
           vs = [i \in 1..n |-> IF i \in good THEN asked[i] ELSE NoVector]
  BY DEF Reply

(* An answer is paired with what was asked.                                *)
LEMMA AnsweredPairs ==
  ASSUME NEW asked \in Seq(Tables), NEW vs \in Reply(asked)
  PROVE  /\ Answered(asked, vs) \in Seq(Tables \X Texts)
         /\ \A j \in DOMAIN Answered(asked, vs) :
              Answered(asked, vs)[j][1] = Answered(asked, vs)[j][2]
<1>1. PICK n \in 0..Len(asked), good \in SUBSET DOMAIN asked :
         vs = [i \in 1..n |-> IF i \in good THEN asked[i] ELSE NoVector]
  BY RepliesAre
<1>2. Len(asked) \in Nat /\ DOMAIN asked = 1..Len(asked)
  OBVIOUS
<1>3. DOMAIN vs = 1..n /\ \A i \in 1..n : i \in DOMAIN asked /\ asked[i] \in Tables
  BY <1>1, <1>2
<1>4. \A i \in 1..n : vs[i] \in {asked[i], NoVector}
  BY <1>1
<1> DEFINE s == [i \in DOMAIN vs |-> << asked[i], vs[i] >>]
           kept == Keep(s, Good(vs))
<1>5. \A i \in DOMAIN vs : s[i] \in Tables \X Vectors
  BY <1>3, <1>4 DEF Vectors, Texts
<1>6. s \in Seq(Tables \X Vectors) /\ DOMAIN s = 1..n
  BY <1>2, <1>3, <1>5
<1>7. \A i \in Good(vs) \cap DOMAIN s :
         /\ s[i] \in Tables \X Texts
         /\ s[i][1] = s[i][2]
  BY <1>3, <1>4, <1>6 DEF Good, Texts
<1> HIDE DEF s
<1> DEFINE W == Tables \X Vectors
<1> HIDE DEF W
<1>8. /\ kept \in Seq(W)
      /\ \A j \in DOMAIN kept : \E i \in Good(vs) \cap DOMAIN s : kept[j] = s[i]
  <2>1. s \in Seq(W)
    BY <1>6 DEF W
  <2>2. QED
    BY <2>1, KeptIsFromPlaces
<1> HIDE DEF kept
<1>9. \A j \in DOMAIN kept : kept[j] \in Tables \X Texts /\ kept[j][1] = kept[j][2]
  BY <1>7, <1>8
<1>10. kept \in Seq(Tables \X Texts)
  BY <1>8, <1>9
<1>11. QED
  BY <1>9, <1>10 DEF Answered, kept, s

(* With one client everybody who has a client has that one, and one        *)
(* request at most saves.                                                  *)
LEMMA OneClient ==
  ASSUME TypeOK, Owned, Locked, created = 1
  PROVE  /\ 1 \in Clients
         /\ \A q \in Requests : pc[q] \in HasClient => mine[q] = 1
         /\ \A q \in Requests : pc[q] \in Saves <=> q \in holder[1]
         /\ \A p, q \in Requests : pc[p] \in Saves /\ pc[q] \in Saves => p = q
<1>1. 1 \in Clients
  BY DEF TypeOK, NoClient
<1>2. \A q \in Requests : pc[q] \in HasClient => mine[q] = 1
  BY DEF Owned, NoClient
<1>3. \A q \in Requests : pc[q] \in Saves => pc[q] \in HasClient
  BY DEF Saves, HasClient
<1>4. \A q \in Requests : pc[q] \in Saves <=> q \in holder[1]
  BY <1>1, <1>2, <1>3 DEF Locked
<1>5. \A p, q \in Requests : pc[p] \in Saves /\ pc[q] \in Saves => p = q
  BY <1>1, <1>4 DEF Locked
<1>6. QED
  BY <1>1, <1>2, <1>4, <1>5

LEMMA MineIsAClient ==
  ASSUME TypeOK, Owned, NEW r \in Requests, pc[r] \in HasClient
  PROVE  mine[r] \in Clients /\ created # 0 /\ ~(mine[r] > created)
<1>1. mine[r] \in Clients /\ mine[r] \in 0..created /\ mine[r] # 0
  BY DEF TypeOK, Owned, NoClient
<1>2. QED
  BY <1>1 DEF TypeOK, Clients, NoClient

LEMMA GetClientStep ==
  ASSUME IInv, NEW r \in Requests, GetClient(r)
  PROVE  IInv'
<1> USE DEF GetClient, Goto, process, disk, client, batch, history
<1>0. TypeOK /\ VectorsAreOfTheirTexts /\ CleanIsSaved /\ WarmLinksAskOnce /\ Owned /\ Locked /\ Paired /\ Saved /\ Spared
  BY DEF IInv, CacheIsTrue
<1>1. TypeOK'
  BY <1>0 DEF TypeOK, Places
<1>2. VectorsAreOfTheirTexts'
  BY <1>0 DEF TypeOK, VectorsAreOfTheirTexts, Paired
<1>3. CleanIsSaved'
  BY <1>0 DEF TypeOK, Owned, Locked, Saved, Saves, HasClient, CleanIsSaved
<1>4. WarmLinksAskOnce'
  BY <1>0 DEF TypeOK, Spared, Early, WarmLinksAskOnce
<1>5. Owned'
  <2>1. Cardinality(Past') \in Nat /\ Cardinality(Past) \in Nat
        /\ Cardinality(Past') >= Cardinality(Past)
    <3>1. CASE singleton = NoClient
      <4>1. Past' = Past
        BY <1>0, <3>1 DEF Past, TypeOK
      <4>2. QED
        BY <1>0, <4>1, PastFacts
    <3>2. CASE singleton # NoClient
      <4>1. pc'[r] = "return" /\ \A q \in Requests : q # r => pc'[q] = pc[q]
        BY <1>0, <3>2 DEF TypeOK
      <4>2. QED
        BY <1>0, <4>1, PastGrows
    <3>3. QED
      BY <3>1, <3>2
  <2>2. QED
    BY <1>0, <2>1 DEF TypeOK, Owned, HasClient
<1>6. Locked'
  BY <1>0 DEF TypeOK, Owned, Locked, Saves
<1>7. Paired'
  BY <1>0 DEF TypeOK, Paired
<1>8. Saved'
  BY <1>0 DEF TypeOK, Owned, Locked, Saved, Saves, HasClient
<1>9. Spared'
  BY <1>0 DEF TypeOK, Spared, Early
<1>10. QED
  BY <1>1, <1>2, <1>3, <1>4, <1>5, <1>6, <1>7, <1>8, <1>9 DEF IInv, CacheIsTrue

LEMMA CatalogueFailsStep ==
  ASSUME IInv, NEW r \in Requests, CatalogueFails(r)
  PROVE  IInv'
<1> USE DEF CatalogueFails, Goto, process, disk, client, batch, history
<1>0. TypeOK /\ VectorsAreOfTheirTexts /\ CleanIsSaved /\ WarmLinksAskOnce /\ Owned /\ Locked /\ Paired /\ Saved /\ Spared
  BY DEF IInv, CacheIsTrue
<1>1. TypeOK'
  BY <1>0 DEF TypeOK, Places
<1>2. VectorsAreOfTheirTexts'
  BY <1>0 DEF TypeOK, VectorsAreOfTheirTexts, Paired
<1>3. CleanIsSaved'
  BY <1>0 DEF TypeOK, Owned, Locked, Saved, Saves, HasClient, CleanIsSaved
<1>4. WarmLinksAskOnce'
  BY <1>0 DEF TypeOK, Spared, Early, WarmLinksAskOnce
<1>5. Owned'
  <2>1. Cardinality(Past') \in Nat /\ Cardinality(Past) \in Nat
        /\ Cardinality(Past') >= Cardinality(Past)
    <3>1. pc'[r] = "raised" /\ \A q \in Requests : q # r => pc'[q] = pc[q]
      BY <1>0 DEF TypeOK
    <3>2. QED
      BY <1>0, <3>1, PastGrows
  <2>2. QED
    BY <1>0, <2>1 DEF TypeOK, Owned, HasClient
<1>6. Locked'
  BY <1>0 DEF TypeOK, Owned, Locked, Saves
<1>7. Paired'
  BY <1>0 DEF TypeOK, Paired
<1>8. Saved'
  BY <1>0 DEF TypeOK, Owned, Locked, Saved, Saves, HasClient
<1>9. Spared'
  BY <1>0 DEF TypeOK, Spared, Early
<1>10. QED
  BY <1>1, <1>2, <1>3, <1>4, <1>5, <1>6, <1>7, <1>8, <1>9 DEF IInv, CacheIsTrue

LEMMA CreateClientStep ==
  ASSUME IInv, NEW r \in Requests, CreateClient(r)
  PROVE  IInv'
<1> USE DEF CreateClient, Goto, process, disk, client, batch, history
<1>0. TypeOK /\ VectorsAreOfTheirTexts /\ CleanIsSaved /\ WarmLinksAskOnce /\ Owned /\ Locked /\ Paired /\ Saved /\ Spared
  BY DEF IInv, CacheIsTrue
<1>a. created \in Nat /\ created + 1 \in Clients /\ created + 1 # created
      /\ created' <= Cardinality(Past')
  <2>1. r \notin Past
    BY DEF Past
  <2>2. /\ Cardinality(Past') \in Nat /\ Cardinality(Past) \in Nat
        /\ Cardinality(Past') = Cardinality(Past) + 1
    <3>1. pc'[r] = "assign" /\ \A q \in Requests : q # r => pc'[q] = pc[q]
      BY <1>0 DEF TypeOK
    <3>2. QED
      BY <1>0, <2>1, <3>1, PastGrows
  <2>3. created \in Nat /\ created <= Cardinality(Past)
    BY <1>0, PastFacts DEF TypeOK, Owned, Clients, NoClient
  <2>4. Cardinality(Past) + 1 <= Cardinality(Requests) /\ Cardinality(Requests) \in Nat
    BY <1>0, <2>1, PastFacts
  <2>5. created + 1 \in 1..Cardinality(Requests)
    BY <2>2, <2>3, <2>4
  <2>6. QED
    BY <2>2, <2>3, <2>5 DEF Clients
<1>1. TypeOK'
  BY <1>0, <1>a DEF TypeOK, Places
<1>2. VectorsAreOfTheirTexts'
  BY <1>0 DEF TypeOK, VectorsAreOfTheirTexts, Paired
<1>3. CleanIsSaved'
  <2>1. created' = 1 => created = 0 /\ cache'[1] = file
    BY <1>0, <1>a DEF TypeOK
  <2>2. QED
    BY <2>1 DEF CleanIsSaved
<1>4. WarmLinksAskOnce'
  BY <1>0 DEF TypeOK, Spared, Early, WarmLinksAskOnce
<1>5. Owned'
  BY <1>0, <1>a DEF TypeOK, Owned, HasClient, NoClient
<1>6. Locked'
  BY <1>0 DEF TypeOK, Owned, Locked, Saves
<1>7. Paired'
  BY <1>0 DEF TypeOK, Paired
<1>8. Saved'
  <2>1. created' # 0 /\ (created' = 1 => created = 0)
    BY <1>a
  <2>2. created = 0 => \A q \in Requests : pc'[q] \notin Saves
    BY <1>0 DEF TypeOK, Owned, HasClient, NoClient, Saves
  <2>3. \A c \in Clients : c > created' => ~dirty'[c]
    BY <1>0, <1>a DEF Saved, Clients
  <2>4. QED
    BY <1>0, <2>1, <2>2, <2>3 DEF Saved, Saves
<1>9. Spared'
  <2>1. \A q \in Requests : q # r => cache'[mine'[q]] = cache[mine[q]]
    BY <1>0, <1>a DEF TypeOK, Owned
  <2>2. \A q \in Requests : q # r => pc'[q] = pc[q] /\ warm'[q] = warm[q] /\ calls'[q] = calls[q]
    BY <1>0 DEF TypeOK
  <2>3. pc'[r] = "assign" /\ ~warm'[r] /\ calls'[r] = 0
    BY <1>0 DEF TypeOK, Spared, Early
  <2>4. QED
    BY <1>0, <2>1, <2>2, <2>3 DEF Spared, Early
<1>10. QED
  BY <1>1, <1>2, <1>3, <1>4, <1>5, <1>6, <1>7, <1>8, <1>9 DEF IInv, CacheIsTrue

LEMMA CreateFailsStep ==
  ASSUME IInv, NEW r \in Requests, CreateFails(r)
  PROVE  IInv'
<1> USE DEF CreateFails, Goto, process, disk, client, batch, history
<1>0. TypeOK /\ VectorsAreOfTheirTexts /\ CleanIsSaved /\ WarmLinksAskOnce /\ Owned /\ Locked /\ Paired /\ Saved /\ Spared
  BY DEF IInv, CacheIsTrue
<1>1. TypeOK'
  BY <1>0 DEF TypeOK, Places
<1>2. VectorsAreOfTheirTexts'
  BY <1>0 DEF TypeOK, VectorsAreOfTheirTexts, Paired
<1>3. CleanIsSaved'
  BY <1>0 DEF TypeOK, Owned, Locked, Saved, Saves, HasClient, CleanIsSaved
<1>4. WarmLinksAskOnce'
  BY <1>0 DEF TypeOK, Spared, Early, WarmLinksAskOnce
<1>5. Owned'
  <2>1. Cardinality(Past') \in Nat /\ Cardinality(Past) \in Nat
        /\ Cardinality(Past') >= Cardinality(Past)
    <3>1. pc'[r] = "words" /\ \A q \in Requests : q # r => pc'[q] = pc[q]
      BY <1>0 DEF TypeOK
    <3>2. QED
      BY <1>0, <3>1, PastGrows
  <2>2. QED
    <3>1. \A q \in Requests : pc'[q] \in HasClient \cup {"return"} => pc[q] = pc'[q]
      BY <1>0 DEF TypeOK, HasClient
    <3>2. created \in Nat
      BY <1>0 DEF TypeOK, Clients, NoClient
    <3>3. QED
      BY <1>0, <2>1, <3>1, <3>2 DEF Owned, HasClient
<1>6. Locked'
  BY <1>0 DEF TypeOK, Owned, Locked, Saves
<1>7. Paired'
  BY <1>0 DEF TypeOK, Paired
<1>8. Saved'
  BY <1>0 DEF TypeOK, Owned, Locked, Saved, Saves, HasClient
<1>9. Spared'
  BY <1>0 DEF TypeOK, Spared, Early
<1>10. QED
  BY <1>1, <1>2, <1>3, <1>4, <1>5, <1>6, <1>7, <1>8, <1>9 DEF IInv, CacheIsTrue

LEMMA AssignClientStep ==
  ASSUME IInv, NEW r \in Requests, AssignClient(r)
  PROVE  IInv'
<1> USE DEF AssignClient, Goto, process, disk, client, batch, history
<1>0. TypeOK /\ VectorsAreOfTheirTexts /\ CleanIsSaved /\ WarmLinksAskOnce /\ Owned /\ Locked /\ Paired /\ Saved /\ Spared
  BY DEF IInv, CacheIsTrue
<1>1. TypeOK'
  BY <1>0 DEF TypeOK, Places
<1>2. VectorsAreOfTheirTexts'
  BY <1>0 DEF TypeOK, VectorsAreOfTheirTexts, Paired
<1>3. CleanIsSaved'
  BY <1>0 DEF TypeOK, Owned, Locked, Saved, Saves, HasClient, CleanIsSaved
<1>4. WarmLinksAskOnce'
  BY <1>0 DEF TypeOK, Spared, Early, WarmLinksAskOnce
<1>5. Owned'
  BY <1>0, PastFacts DEF TypeOK, Owned, Past, HasClient
<1>6. Locked'
  BY <1>0 DEF TypeOK, Owned, Locked, Saves
<1>7. Paired'
  BY <1>0 DEF TypeOK, Paired
<1>8. Saved'
  BY <1>0 DEF TypeOK, Owned, Locked, Saved, Saves, HasClient
<1>9. Spared'
  BY <1>0 DEF TypeOK, Spared, Early
<1>10. QED
  BY <1>1, <1>2, <1>3, <1>4, <1>5, <1>6, <1>7, <1>8, <1>9 DEF IInv, CacheIsTrue

LEMMA ReturnClientStep ==
  ASSUME IInv, NEW r \in Requests, ReturnClient(r)
  PROVE  IInv'
<1> USE DEF ReturnClient, Goto, process, disk, client, batch, history
<1>0. TypeOK /\ VectorsAreOfTheirTexts /\ CleanIsSaved /\ WarmLinksAskOnce /\ Owned /\ Locked /\ Paired /\ Saved /\ Spared
  BY DEF IInv, CacheIsTrue
<1>1. TypeOK'
  BY <1>0 DEF TypeOK, Places
<1>2. VectorsAreOfTheirTexts'
  BY <1>0 DEF TypeOK, VectorsAreOfTheirTexts, Paired
<1>3. CleanIsSaved'
  BY <1>0 DEF TypeOK, Owned, Locked, Saved, Saves, HasClient, CleanIsSaved
<1>4. WarmLinksAskOnce'
  BY <1>0 DEF TypeOK, Spared, Early, WarmLinksAskOnce
<1>5. Owned'
  BY <1>0, PastFacts DEF TypeOK, Owned, Past, HasClient
<1>6. Locked'
  BY <1>0 DEF TypeOK, Owned, Locked, Saves
<1>7. Paired'
  BY <1>0 DEF TypeOK, Paired
<1>8. Saved'
  BY <1>0 DEF TypeOK, Owned, Locked, Saved, Saves, HasClient
<1>9. Spared'
  BY <1>0 DEF TypeOK, Spared, Early
<1>10. QED
  BY <1>1, <1>2, <1>3, <1>4, <1>5, <1>6, <1>7, <1>8, <1>9 DEF IInv, CacheIsTrue

LEMMA LookupBatchStep ==
  ASSUME IInv, NEW r \in Requests, LookupBatch(r)
  PROVE  IInv'
<1> USE DEF LookupBatch, Goto, process, disk, client, batch, history, Cached
<1>0. TypeOK /\ VectorsAreOfTheirTexts /\ CleanIsSaved /\ WarmLinksAskOnce /\ Owned /\ Locked /\ Paired /\ Saved /\ Spared
  BY DEF IInv, CacheIsTrue
<1>a. /\ Missing(mine[r]) \in Seq(Tables)
      /\ (\A t \in Tables : cache[mine[r]][t] # NoVector) => Missing(mine[r]) = << >>
  BY MissingTables
<1>b. mine[r] \in Clients
  BY <1>0 DEF TypeOK, Owned, HasClient
<1>1. TypeOK'
  <2>1. [t \in Tables |-> cache[mine[r]][t]] \in [Tables -> Vectors]
    BY <1>0, <1>b DEF TypeOK, Texts
  <2>2. missing' \in [Requests -> Seq(Tables)]
    BY <1>0, <1>a DEF TypeOK
  <2>3. pc' \in [Requests -> Places]
    BY <1>0 DEF TypeOK, Places
  <2>4. QED
    BY <1>0, <2>1, <2>2, <2>3 DEF TypeOK
<1>2. VectorsAreOfTheirTexts'
  <2>1. \A t \in Tables : found'[r][t] \in {t, NoVector}
    BY <1>0, <1>b DEF TypeOK, VectorsAreOfTheirTexts, Texts
  <2>2. \A q \in Requests : q # r => found'[q] = found[q]
    BY <1>0 DEF TypeOK
  <2>3. QED
    BY <1>0, <2>1, <2>2 DEF VectorsAreOfTheirTexts
<1>3. CleanIsSaved'
  BY <1>0 DEF TypeOK, Owned, Locked, Saved, Saves, HasClient, CleanIsSaved
<1>4. WarmLinksAskOnce'
  BY <1>0 DEF TypeOK, Spared, Early, WarmLinksAskOnce
<1>5. Owned'
  BY <1>0, PastFacts DEF TypeOK, Owned, Past, HasClient
<1>6. Locked'
  BY <1>0 DEF TypeOK, Owned, Locked, Saves
<1>7. Paired'
  BY <1>0 DEF TypeOK, Paired
<1>8. Saved'
  BY <1>0 DEF TypeOK, Owned, Locked, Saved, Saves, HasClient
<1>9. Spared'
  <2>1. warm[r] => pc'[r] = "vectors" /\ calls[r] = 0
    BY <1>0, <1>a DEF TypeOK, Spared
  <2>2. QED
    BY <1>0, <2>1 DEF TypeOK, Spared, Early
<1>10. QED
  BY <1>1, <1>2, <1>3, <1>4, <1>5, <1>6, <1>7, <1>8, <1>9 DEF IInv, CacheIsTrue

LEMMA FetchBatchStep ==
  ASSUME IInv, NEW r \in Requests, FetchBatch(r)
  PROVE  IInv'
<1> USE DEF FetchBatch, Goto, process, disk, client, batch, history
<1>0. TypeOK /\ VectorsAreOfTheirTexts /\ CleanIsSaved /\ WarmLinksAskOnce /\ Owned /\ Locked /\ Paired /\ Saved /\ Spared
  BY DEF IInv, CacheIsTrue
<1>a. PICK vs \in Reply(missing[r]) :
        LET answered == Answered(missing[r], vs)
        IN  /\ pairs' = [pairs EXCEPT ![r] = answered]
            /\ failed' = [failed EXCEPT ![r] = Len(answered) < Len(missing[r])]
            /\ pc' = [pc EXCEPT ![r] = IF answered = << >> THEN "vectors" ELSE "store"]
  OBVIOUS
<1>b. /\ Answered(missing[r], vs) \in Seq(Tables \X Texts)
      /\ \A j \in DOMAIN Answered(missing[r], vs) :
           Answered(missing[r], vs)[j][1] = Answered(missing[r], vs)[j][2]
  BY <1>0, AnsweredPairs DEF TypeOK
<1>1. TypeOK'
  <2>1. pairs' \in [Requests -> Seq(Tables \X Texts)]
    BY <1>0, <1>a, <1>b DEF TypeOK
  <2>2. missing' \in [Requests -> Seq(Tables)]
    BY <1>0 DEF TypeOK
  <2>3. pc' \in [Requests -> Places] /\ failed' \in [Requests -> BOOLEAN]
        /\ calls' \in [Requests -> Nat]
    BY <1>0, <1>a DEF TypeOK, Places
  <2>4. QED
    BY <1>0, <2>1, <2>2, <2>3 DEF TypeOK
<1>2. VectorsAreOfTheirTexts'
  BY <1>0 DEF TypeOK, VectorsAreOfTheirTexts, Paired
<1>3. CleanIsSaved'
  BY <1>0 DEF TypeOK, Owned, Locked, Saved, Saves, HasClient, CleanIsSaved
<1>4. WarmLinksAskOnce'
  BY <1>0 DEF TypeOK, Spared, Early, WarmLinksAskOnce
<1>5. Owned'
  <2>1. pc[r] = "fetch" /\ pc'[r] \in {"vectors", "store"}
        /\ \A q \in Requests : q # r => pc'[q] = pc[q]
    BY <1>0, <1>a DEF TypeOK
  <2>2. Past' = Past
    BY <2>1 DEF Past
  <2>3. QED
    BY <1>0, <2>1, <2>2 DEF Owned, HasClient
<1>6. Locked'
  BY <1>0 DEF TypeOK, Owned, Locked, Saves
<1>7. Paired'
  <2>1. \A q \in Requests : q # r => pairs'[q] = pairs[q] /\ pc'[q] = pc[q]
    BY <1>0, <1>a DEF TypeOK
  <2>2. /\ pc'[r] = "store" => pairs'[r] # << >>
        /\ pairs'[r] = Answered(missing[r], vs)
    <3> DEFINE answered == Answered(missing[r], vs)
    <3>1. /\ pairs' = [pairs EXCEPT ![r] = answered]
          /\ pc' = [pc EXCEPT ![r] = IF answered = << >> THEN "vectors" ELSE "store"]
      BY <1>a
    <3> HIDE DEF answered
    <3>2. pairs'[r] = answered /\ (pc'[r] = "store" => answered # << >>)
      BY <1>0, <3>1 DEF TypeOK
    <3>3. QED
      BY <3>2 DEF answered
  <2>3. QED
    BY <1>0, <1>b, <2>1, <2>2 DEF Paired
<1>8. Saved'
  BY <1>0 DEF TypeOK, Owned, Locked, Saved, Saves, HasClient
<1>9. Spared'
  BY <1>0 DEF TypeOK, Spared, Early
<1>10. QED
  BY <1>1, <1>2, <1>3, <1>4, <1>5, <1>6, <1>7, <1>8, <1>9 DEF IInv, CacheIsTrue

LEMMA StoreVectorStep ==
  ASSUME IInv, NEW r \in Requests, StoreVector(r)
  PROVE  IInv'
<1> USE DEF StoreVector, Goto, process, disk, client, batch, history, Store, LockFree
<1>0. TypeOK /\ VectorsAreOfTheirTexts /\ CleanIsSaved /\ WarmLinksAskOnce /\ Owned /\ Locked /\ Paired /\ Saved /\ Spared
  BY DEF IInv, CacheIsTrue
<1> DEFINE c == mine[r]
           t == Head(pairs[r])[1]
           v == Head(pairs[r])[2]
<1>a. /\ t \in Tables /\ t = v /\ v \in Texts /\ v # NoVector
      /\ Tail(pairs[r]) \in Seq(Tables \X Texts)
      /\ \A i \in DOMAIN Tail(pairs[r]) : Tail(pairs[r])[i][1] = Tail(pairs[r])[i][2]
      /\ Len(pairs[r]) # 1 => Tail(pairs[r]) # << >>
  <2>1. pairs[r] \in Seq(Tables \X Texts) /\ pairs[r] # << >>
        /\ \A i \in DOMAIN pairs[r] : pairs[r][i][1] = pairs[r][i][2]
    BY <1>0 DEF TypeOK, Paired
  <2>2. /\ Len(pairs[r]) \in Nat \ {0} /\ DOMAIN pairs[r] = 1..Len(pairs[r])
        /\ Head(pairs[r]) = pairs[r][1]
        /\ Tail(pairs[r]) \in Seq(Tables \X Texts)
        /\ DOMAIN Tail(pairs[r]) = 1..(Len(pairs[r]) - 1)
        /\ \A i \in 1..(Len(pairs[r]) - 1) : Tail(pairs[r])[i] = pairs[r][i + 1]
    BY <2>1
  <2>3. Head(pairs[r]) \in Tables \X Texts /\ t = v
    BY <2>1, <2>2
  <2>4. t \in Tables /\ v \in Texts /\ v # NoVector
    BY <2>3, LinkerAssumption
  <2>5. \A i \in DOMAIN Tail(pairs[r]) : i + 1 \in DOMAIN pairs[r]
    BY <2>2
  <2>6. Len(pairs[r]) # 1 => Tail(pairs[r]) # << >>
    BY <2>1, MoreThanOneLeft
  <2>7. QED
    <3>1. ASSUME NEW i \in DOMAIN Tail(pairs[r])
          PROVE  Tail(pairs[r])[i][1] = Tail(pairs[r])[i][2]
      <4>1. Tail(pairs[r])[i] = pairs[r][i + 1]
        BY <2>2
      <4>2. QED
        BY <2>1, <2>5, <4>1
    <3> HIDE DEF t, v
    <3>2. QED
      BY <2>2, <2>3, <2>4, <2>6, <3>1, Zenon
<1> HIDE DEF t, v
<1>b. c \in Clients /\ created # 0 /\ ~(c > created)
  BY <1>0, MineIsAClient DEF HasClient
<1> HIDE DEF c
<1>c. /\ found' = [found EXCEPT ![r] = [found[r] EXCEPT ![t] = v]]
      /\ cache' = [cache EXCEPT ![c] = [cache[c] EXCEPT ![t] = v]]
      /\ dirty' = [dirty EXCEPT ![c] = TRUE]
      /\ holder[c] = {}
      /\ pairs' = [pairs EXCEPT ![r] = Tail(pairs[r])]
      /\ pc' = [pc EXCEPT ![r] = IF Len(pairs[r]) = 1 THEN "vectors" ELSE "store"]
      /\ UNCHANGED << process, disk, singleton, created, holder, mine, missing, history >>
  BY DEF c, t, v
<1>d. \A x \in Clients, y \in Texts :
        cache'[x][y] = IF x = c /\ y = t THEN v ELSE cache[x][y]
  BY <1>0, <1>a, <1>b, <1>c DEF TypeOK, Texts
<1>1. TypeOK'
  <2>1. found' \in [Requests -> [Tables -> Vectors]]
    BY <1>0, <1>a, <1>c DEF TypeOK, Vectors
  <2>2. cache' \in [Clients -> [Texts -> Vectors]] /\ dirty' \in [Clients -> BOOLEAN]
    <3>1. cache \in [Clients -> [Texts -> Vectors]] /\ t \in Texts /\ v \in Vectors
      BY <1>0, <1>a DEF TypeOK, Vectors, Texts
    <3>2. cache' \in [Clients -> [Texts -> Vectors]]
      <4>1. [cache EXCEPT ![c] = [cache[c] EXCEPT ![t] = v]] \in [Clients -> [Texts -> Vectors]]
        BY <1>b, <3>1, SetAt
      <4>2. QED
        BY <1>c, <4>1, Zenon
    <3>3. QED
      BY <1>0, <1>c, <3>2 DEF TypeOK
  <2>3. pairs' \in [Requests -> Seq(Tables \X Texts)]
    BY <1>0, <1>a, <1>c DEF TypeOK
  <2>4. pc' \in [Requests -> Places]
    BY <1>0, <1>c DEF TypeOK, Places
  <2>5. QED
    BY <1>0, <1>c, <2>1, <2>2, <2>3, <2>4 DEF TypeOK
<1>2. VectorsAreOfTheirTexts'
  <2>1. \A q \in Requests, u \in Tables :
          found'[q][u] = IF q = r /\ u = t THEN v ELSE found[q][u]
    BY <1>0, <1>a, <1>c DEF TypeOK
  <2>2. QED
    BY <1>0, <1>a, <1>c, <1>d, <2>1 DEF VectorsAreOfTheirTexts
<1>3. CleanIsSaved'
  <2>1. created = 1 => c = 1
    BY <1>0, OneClient DEF c, HasClient
  <2>2. QED
    BY <1>0, <1>b, <1>c, <2>1 DEF CleanIsSaved, TypeOK
<1>4. WarmLinksAskOnce'
  BY <1>0 DEF TypeOK, Spared, Early, WarmLinksAskOnce
<1>5. Owned'
  BY <1>0, PastFacts DEF TypeOK, Owned, Past, HasClient
<1>6. Locked'
  BY <1>0 DEF TypeOK, Owned, Locked, Saves
<1>7. Paired'
  <2>1. \A q \in Requests : q # r => pairs'[q] = pairs[q] /\ pc'[q] = pc[q]
    BY <1>0, <1>c DEF TypeOK
  <2>2. pc'[r] = "store" => Len(pairs[r]) # 1
    BY <1>0, <1>c DEF TypeOK
  <2>3. pairs'[r] = Tail(pairs[r])
    BY <1>0, <1>c DEF TypeOK
  <2>4. QED
    BY <1>0, <1>a, <2>1, <2>2, <2>3 DEF Paired
<1>8. Saved'
  <2>1. \A q \in Requests : pc'[q] \in Saves \/ pc[q] \in Saves => pc'[q] = pc[q]
    BY <1>0, <1>c DEF TypeOK, Saves
  <2>2. \A x \in Clients : x > created => ~dirty'[x]
    <3>1. TAKE x \in Clients
    <3>2. x > created => x # c /\ ~dirty[x]
      BY <1>0, <1>b DEF Saved
    <3>3. x # c => dirty'[x] = dirty[x]
      BY <1>0, <1>c DEF TypeOK
    <3>4. QED
      BY <3>2, <3>3, Zenon
  <2>3. ASSUME created = 1
        PROVE  c = 1 /\ 1 \in Clients /\ \A q \in Requests : pc[q] \notin Saves
    BY <1>0, <1>c, <2>3, OneClient DEF c, HasClient
  <2>4. created = 1 => dirty'[1]
    BY <1>0, <1>c, <2>3 DEF TypeOK
  <2>5. QED
    BY <1>0, <1>b, <1>c, <2>1, <2>2, <2>3, <2>4 DEF Saved, Saves
<1>9. Spared'
  <2>1. \A q \in Requests : q # r => pc'[q] = pc[q]
    BY <1>0, <1>c DEF TypeOK
  <2>2. \A q \in Requests : pc[q] = "lookup" => mine[q] \in Clients
    BY <1>0, MineIsAClient DEF HasClient
  <2>3. ~warm[r] /\ pc'[r] \in {"store", "vectors"}
    BY <1>0, <1>c DEF TypeOK, Spared
  <2>4. \A x \in Clients, u \in Tables : cache[x][u] # NoVector => cache'[x][u] # NoVector
    BY <1>a, <1>d DEF Texts
  <2>5. QED
    BY <1>0, <1>c, <2>1, <2>2, <2>3, <2>4 DEF Spared, Early
<1>10. QED
  BY <1>1, <1>2, <1>3, <1>4, <1>5, <1>6, <1>7, <1>8, <1>9 DEF IInv, CacheIsTrue

LEMMA KeepVectorsStep ==
  ASSUME IInv, NEW r \in Requests, KeepVectors(r)
  PROVE  IInv'
<1> USE DEF KeepVectors, Goto, process, disk, client, batch, history, AnyVector
<1>0. TypeOK /\ VectorsAreOfTheirTexts /\ CleanIsSaved /\ WarmLinksAskOnce /\ Owned /\ Locked /\ Paired /\ Saved /\ Spared
  BY DEF IInv, CacheIsTrue
<1>1. TypeOK'
  BY <1>0 DEF TypeOK, Places
<1>2. VectorsAreOfTheirTexts'
  BY <1>0 DEF TypeOK, VectorsAreOfTheirTexts, Paired
<1>3. CleanIsSaved'
  BY <1>0 DEF TypeOK, Owned, Locked, Saved, Saves, HasClient, CleanIsSaved
<1>4. WarmLinksAskOnce'
  BY <1>0 DEF TypeOK, Spared, Early, WarmLinksAskOnce
<1>5. Owned'
  BY <1>0, PastFacts DEF TypeOK, Owned, Past, HasClient
<1>6. Locked'
  BY <1>0 DEF TypeOK, Owned, Locked, Saves
<1>7. Paired'
  BY <1>0 DEF TypeOK, Paired
<1>8. Saved'
  BY <1>0 DEF TypeOK, Owned, Locked, Saved, Saves, HasClient
<1>9. Spared'
  BY <1>0 DEF TypeOK, Spared, Early
<1>10. QED
  BY <1>1, <1>2, <1>3, <1>4, <1>5, <1>6, <1>7, <1>8, <1>9 DEF IInv, CacheIsTrue

LEMMA OpenForWritingStep ==
  ASSUME IInv, NEW r \in Requests, OpenForWriting(r)
  PROVE  IInv'
<1> USE DEF OpenForWriting, Goto, process, disk, client, batch, history, LockFree
<1>0. TypeOK /\ VectorsAreOfTheirTexts /\ CleanIsSaved /\ WarmLinksAskOnce /\ Owned /\ Locked /\ Paired /\ Saved /\ Spared
  BY DEF IInv, CacheIsTrue
<1>a. mine[r] \in Clients /\ created # 0
  BY <1>0, MineIsAClient DEF HasClient
<1>1. TypeOK'
  <2>1. file' \in [Texts -> Vectors] /\ writers' \subseteq Clients /\ clashed' \subseteq Clients
    BY <1>0, <1>a DEF TypeOK, Empty, Vectors
  <2>2. holder' = [holder EXCEPT ![mine[r]] = {r}]
    BY <1>0 DEF TypeOK
  <2>3. holder' \in [Clients -> SUBSET Requests]
    <3>1. {r} \in SUBSET Requests
      OBVIOUS
    <3>2. holder \in [Clients -> SUBSET Requests]
      BY <1>0 DEF TypeOK
    <3>3. QED
      BY <1>a, <2>2, <3>1, <3>2
  <2>4. \A c \in Clients : Cardinality(holder'[c]) <= 1
    <3>1. TAKE c \in Clients
    <3>2. CASE c = mine[r]
      <4>1. holder'[c] = {r}
        BY <1>0, <2>2, <3>2 DEF TypeOK
      <4>2. Cardinality({r}) = 1
        BY FS_Singleton, Zenon
      <4>3. QED
        BY <4>1, <4>2
    <3>3. CASE c # mine[r]
      <4>1. holder'[c] = holder[c]
        BY <1>0, <2>2, <3>3 DEF TypeOK
      <4>2. QED
        BY <1>0, <4>1 DEF TypeOK
    <3>4. QED
      BY <3>2, <3>3
  <2>5. pc' \in [Requests -> Places]
    BY <1>0 DEF TypeOK, Places
  <2>6. QED
    BY <1>0, <2>1, <2>3, <2>4, <2>5 DEF TypeOK
<1>2. VectorsAreOfTheirTexts'
  BY <1>0 DEF VectorsAreOfTheirTexts, Empty
<1>3. CleanIsSaved'
  <2>1. created = 1 => mine[r] = 1 /\ 1 \in Clients
    BY <1>0, OneClient DEF HasClient
  <2>2. created = 1 => r \in holder'[1]
    BY <1>0, <2>1 DEF TypeOK
  <2>3. QED
    BY <2>2 DEF CleanIsSaved
<1>4. WarmLinksAskOnce'
  BY <1>0 DEF TypeOK, Spared, Early, WarmLinksAskOnce
<1>5. Owned'
  BY <1>0, PastFacts DEF TypeOK, Owned, Past, HasClient
<1>6. Locked'
  BY <1>0 DEF TypeOK, Owned, Locked, Saves
<1>7. Paired'
  BY <1>0 DEF TypeOK, Paired
<1>8. Saved'
  <2>1. \A q \in Requests : pc'[q] \in Saves <=> pc[q] \in Saves \/ q = r
    BY <1>0 DEF TypeOK, Saves
  <2>2. pc'[r] = "saving"
    BY <1>0 DEF TypeOK
  <2>3. ASSUME created = 1
        PROVE  /\ mine[r] = 1 /\ \A q \in Requests : pc[q] \notin Saves
               /\ dirty[1] /\ writers = {}
    <3>1. mine[r] = 1 /\ \A q \in Requests : pc[q] \notin Saves
      BY <1>0, <2>3, OneClient DEF HasClient
    <3>2. QED
      BY <1>0, <2>3, <3>1 DEF Saved, Saves
  <2>4. QED
    BY <1>0, <1>a, <2>1, <2>2, <2>3 DEF Saved, Saves
<1>9. Spared'
  BY <1>0 DEF TypeOK, Spared, Early
<1>10. QED
  BY <1>1, <1>2, <1>3, <1>4, <1>5, <1>6, <1>7, <1>8, <1>9 DEF IInv, CacheIsTrue

LEMMA NothingToSaveStep ==
  ASSUME IInv, NEW r \in Requests, NothingToSave(r)
  PROVE  IInv'
<1> USE DEF NothingToSave, Goto, process, disk, client, batch, history, LockFree
<1>0. TypeOK /\ VectorsAreOfTheirTexts /\ CleanIsSaved /\ WarmLinksAskOnce /\ Owned /\ Locked /\ Paired /\ Saved /\ Spared
  BY DEF IInv, CacheIsTrue
<1>1. TypeOK'
  BY <1>0 DEF TypeOK, Places
<1>2. VectorsAreOfTheirTexts'
  BY <1>0 DEF TypeOK, VectorsAreOfTheirTexts, Paired
<1>3. CleanIsSaved'
  BY <1>0 DEF TypeOK, Owned, Locked, Saved, Saves, HasClient, CleanIsSaved
<1>4. WarmLinksAskOnce'
  BY <1>0 DEF TypeOK, Spared, Early, WarmLinksAskOnce
<1>5. Owned'
  BY <1>0, PastFacts DEF TypeOK, Owned, Past, HasClient
<1>6. Locked'
  BY <1>0 DEF TypeOK, Owned, Locked, Saves
<1>7. Paired'
  BY <1>0 DEF TypeOK, Paired
<1>8. Saved'
  BY <1>0 DEF TypeOK, Owned, Locked, Saved, Saves, HasClient
<1>9. Spared'
  BY <1>0 DEF TypeOK, Spared, Early
<1>10. QED
  BY <1>1, <1>2, <1>3, <1>4, <1>5, <1>6, <1>7, <1>8, <1>9 DEF IInv, CacheIsTrue

LEMMA WriteFileStep ==
  ASSUME IInv, NEW r \in Requests, WriteFile(r)
  PROVE  IInv'
<1> USE DEF WriteFile, Goto, process, disk, client, batch, history, Written
<1>0. TypeOK /\ VectorsAreOfTheirTexts /\ CleanIsSaved /\ WarmLinksAskOnce /\ Owned /\ Locked /\ Paired /\ Saved /\ Spared
  BY DEF IInv, CacheIsTrue
<1>a. mine[r] \in Clients /\ created # 0
  BY <1>0, MineIsAClient DEF HasClient
<1>b. file' \in {cache[mine[r]], Empty}
  OBVIOUS
<1>1. TypeOK'
  <2>1. file' \in [Texts -> Vectors] /\ writers' \subseteq Clients
    BY <1>0, <1>a, <1>b DEF TypeOK, Empty, Vectors
  <2>2. pc' \in [Requests -> Places]
    BY <1>0 DEF TypeOK, Places
  <2>3. QED
    BY <1>0, <2>1, <2>2 DEF TypeOK
<1>2. VectorsAreOfTheirTexts'
  BY <1>0, <1>a, <1>b DEF VectorsAreOfTheirTexts, Empty
<1>3. CleanIsSaved'
  BY <1>0 DEF TypeOK, Owned, Locked, Saved, Saves, HasClient, CleanIsSaved
<1>4. WarmLinksAskOnce'
  BY <1>0 DEF TypeOK, Spared, Early, WarmLinksAskOnce
<1>5. Owned'
  BY <1>0, PastFacts DEF TypeOK, Owned, Past, HasClient
<1>6. Locked'
  BY <1>0 DEF TypeOK, Owned, Locked, Saves
<1>7. Paired'
  BY <1>0 DEF TypeOK, Paired
<1>8. Saved'
  <2>1. \A q \in Requests : q # r => pc'[q] = pc[q]
    BY <1>0 DEF TypeOK
  <2>2. pc'[r] = "saved"
    BY <1>0 DEF TypeOK
  <2>3. ASSUME created = 1
        PROVE  /\ mine[r] = 1 /\ \A q \in Requests : q # r => pc[q] \notin Saves
               /\ file' = cache[1]
    <3>1. mine[r] = 1 /\ \A q \in Requests : q # r => pc[q] \notin Saves
      BY <1>0, <2>3, OneClient DEF HasClient, Saves
    <3>2. QED
      BY <1>0, <2>3, <3>1 DEF Saved
  <2>4. QED
    BY <1>0, <1>a, <2>1, <2>2, <2>3 DEF Saved, Saves
<1>9. Spared'
  BY <1>0 DEF TypeOK, Spared, Early
<1>10. QED
  BY <1>1, <1>2, <1>3, <1>4, <1>5, <1>6, <1>7, <1>8, <1>9 DEF IInv, CacheIsTrue

LEMMA EndSaveStep ==
  ASSUME IInv, NEW r \in Requests, EndSave(r)
  PROVE  IInv'
<1> USE DEF EndSave, Goto, process, disk, client, batch, history
<1>0. TypeOK /\ VectorsAreOfTheirTexts /\ CleanIsSaved /\ WarmLinksAskOnce /\ Owned /\ Locked /\ Paired /\ Saved /\ Spared
  BY DEF IInv, CacheIsTrue
<1>a. mine[r] \in Clients /\ created # 0
  BY <1>0, MineIsAClient DEF HasClient
<1>b. holder' = [holder EXCEPT ![mine[r]] = {}]
  <2>1. holder[mine[r]] \ {r} = {}
    BY <1>0, <1>a DEF TypeOK, Locked, Saves
  <2>2. QED
    BY <2>1
<1>1. TypeOK'
  <2>1. holder' \in [Clients -> SUBSET Requests]
    BY <1>0, <1>b DEF TypeOK
  <2>2. \A c \in Clients : Cardinality(holder'[c]) <= 1
    <3>1. Cardinality({}) = 0
      BY FS_EmptySet
    <3>2. \A c \in Clients : holder'[c] \in {{}, holder[c]}
      BY <1>0, <1>b DEF TypeOK
    <3>3. QED
      <4>1. TAKE c \in Clients
      <4>2. CASE holder'[c] = {}
        BY <3>1, <4>2
      <4>3. CASE holder'[c] = holder[c]
        BY <1>0, <4>3 DEF TypeOK
      <4>4. QED
        BY <3>2, <4>2, <4>3
  <2>3. pc' \in [Requests -> Places]
    BY <1>0 DEF TypeOK, Places
  <2>4. dirty' \in [Clients -> BOOLEAN]
    BY <1>0 DEF TypeOK
  <2>5. QED
    BY <1>0, <2>1, <2>2, <2>3, <2>4 DEF TypeOK
<1>2. VectorsAreOfTheirTexts'
  BY <1>0 DEF TypeOK, VectorsAreOfTheirTexts, Paired
<1>3. CleanIsSaved'
  BY <1>0 DEF TypeOK, Owned, Locked, Saved, Saves, HasClient, CleanIsSaved
<1>4. WarmLinksAskOnce'
  BY <1>0 DEF TypeOK, Spared, Early, WarmLinksAskOnce
<1>5. Owned'
  BY <1>0, PastFacts DEF TypeOK, Owned, Past, HasClient
<1>6. Locked'
  BY <1>0 DEF TypeOK, Owned, Locked, Saves
<1>7. Paired'
  BY <1>0 DEF TypeOK, Paired
<1>8. Saved'
  <2>1. \A q \in Requests : q # r => pc'[q] = pc[q]
    BY <1>0 DEF TypeOK
  <2>2. pc'[r] = "query"
    BY <1>0 DEF TypeOK
  <2>3. ASSUME created = 1
        PROVE  /\ \A q \in Requests : pc'[q] \notin Saves
               /\ writers = {}
    <3>1. \A q \in Requests : q # r => pc[q] \notin Saves
      BY <1>0, <2>3, OneClient DEF Saves
    <3>2. QED
      BY <1>0, <2>1, <2>2, <2>3, <3>1 DEF Saved, Saves
  <2>4. \A c \in Clients : c > created => ~dirty'[c]
    BY <1>0 DEF TypeOK, Saved
  <2>5. QED
    BY <1>0, <1>a, <2>3, <2>4 DEF Saved, Saves
<1>9. Spared'
  BY <1>0 DEF TypeOK, Spared, Early
<1>10. QED
  BY <1>1, <1>2, <1>3, <1>4, <1>5, <1>6, <1>7, <1>8, <1>9 DEF IInv, CacheIsTrue

LEMMA SaveFailsStep ==
  ASSUME IInv, NEW r \in Requests, SaveFails(r)
  PROVE  IInv'
<1> USE DEF SaveFails, Goto, process, disk, client, batch, history, LockFree, HolderAfterFailure
<1>0. TypeOK /\ VectorsAreOfTheirTexts /\ CleanIsSaved /\ WarmLinksAskOnce /\ Owned /\ Locked /\ Paired /\ Saved /\ Spared
  BY DEF IInv, CacheIsTrue
<1>a. mine[r] \in Clients /\ created # 0
  BY <1>0, MineIsAClient DEF HasClient
<1>b. holder' = [holder EXCEPT ![mine[r]] = {}]
  <2>1. holder[mine[r]] \ {r} = {}
    BY <1>0, <1>a DEF TypeOK, Locked, Saves
  <2>2. QED
    BY <2>1
<1>c. file' \in {file, Empty}
  OBVIOUS
<1>1. TypeOK'
  <2>1. holder' \in [Clients -> SUBSET Requests]
    BY <1>0, <1>b DEF TypeOK
  <2>2. \A c \in Clients : Cardinality(holder'[c]) <= 1
    <3>1. Cardinality({}) = 0
      BY FS_EmptySet
    <3>2. \A c \in Clients : holder'[c] \in {{}, holder[c]}
      BY <1>0, <1>b DEF TypeOK
    <3>3. QED
      <4>1. TAKE c \in Clients
      <4>2. CASE holder'[c] = {}
        BY <3>1, <4>2
      <4>3. CASE holder'[c] = holder[c]
        BY <1>0, <4>3 DEF TypeOK
      <4>4. QED
        BY <3>2, <4>2, <4>3
  <2>3. pc' \in [Requests -> Places]
    BY <1>0 DEF TypeOK, Places
  <2>4. file' \in [Texts -> Vectors] /\ writers' \subseteq Clients
    BY <1>0, <1>c DEF TypeOK, Empty, Vectors
  <2>5. QED
    BY <1>0, <2>1, <2>2, <2>3, <2>4 DEF TypeOK
<1>2. VectorsAreOfTheirTexts'
  BY <1>0, <1>c DEF VectorsAreOfTheirTexts, Empty
<1>3. CleanIsSaved'
  BY <1>0 DEF TypeOK, Owned, Locked, Saved, Saves, HasClient, CleanIsSaved
<1>4. WarmLinksAskOnce'
  BY <1>0 DEF TypeOK, Spared, Early, WarmLinksAskOnce
<1>5. Owned'
  BY <1>0, PastFacts DEF TypeOK, Owned, Past, HasClient
<1>6. Locked'
  BY <1>0 DEF TypeOK, Owned, Locked, Saves
<1>7. Paired'
  BY <1>0 DEF TypeOK, Paired
<1>8. Saved'
  <2>1. \A q \in Requests : q # r => pc'[q] = pc[q]
    BY <1>0 DEF TypeOK
  <2>2. pc'[r] = "raised"
    BY <1>0 DEF TypeOK
  <2>3. ASSUME created = 1
        PROVE  /\ mine[r] = 1 /\ \A q \in Requests : pc'[q] \notin Saves
               /\ writers' = {}
    <3>1. mine[r] = 1 /\ \A q \in Requests : q # r => pc[q] \notin Saves
      BY <1>0, <2>3, OneClient DEF HasClient, Saves
    <3>2. QED
      BY <1>0, <2>1, <2>2, <2>3, <3>1 DEF Saved, Saves
  <2>4. QED
    BY <1>0, <1>a, <2>3 DEF Saved, Saves
<1>9. Spared'
  BY <1>0 DEF TypeOK, Spared, Early
<1>10. QED
  BY <1>1, <1>2, <1>3, <1>4, <1>5, <1>6, <1>7, <1>8, <1>9 DEF IInv, CacheIsTrue

LEMMA LookupQueryStep ==
  ASSUME IInv, NEW r \in Requests, LookupQuery(r)
  PROVE  IInv'
<1> USE DEF LookupQuery, Goto, process, disk, client, batch, history, LockFree, Cached
<1>0. TypeOK /\ VectorsAreOfTheirTexts /\ CleanIsSaved /\ WarmLinksAskOnce /\ Owned /\ Locked /\ Paired /\ Saved /\ Spared
  BY DEF IInv, CacheIsTrue
<1>1. TypeOK'
  BY <1>0 DEF TypeOK, Places
<1>2. VectorsAreOfTheirTexts'
  BY <1>0 DEF TypeOK, VectorsAreOfTheirTexts, Paired
<1>3. CleanIsSaved'
  BY <1>0 DEF TypeOK, Owned, Locked, Saved, Saves, HasClient, CleanIsSaved
<1>4. WarmLinksAskOnce'
  BY <1>0 DEF TypeOK, Spared, Early, WarmLinksAskOnce
<1>5. Owned'
  BY <1>0, PastFacts DEF TypeOK, Owned, Past, HasClient
<1>6. Locked'
  BY <1>0 DEF TypeOK, Owned, Locked, Saves
<1>7. Paired'
  BY <1>0 DEF TypeOK, Paired
<1>8. Saved'
  BY <1>0 DEF TypeOK, Owned, Locked, Saved, Saves, HasClient
<1>9. Spared'
  BY <1>0 DEF TypeOK, Spared, Early
<1>10. QED
  BY <1>1, <1>2, <1>3, <1>4, <1>5, <1>6, <1>7, <1>8, <1>9 DEF IInv, CacheIsTrue

LEMMA FetchQueryStep ==
  ASSUME IInv, NEW r \in Requests, FetchQuery(r)
  PROVE  IInv'
<1> USE DEF FetchQuery, Goto, process, disk, client, batch, history
<1>0. TypeOK /\ VectorsAreOfTheirTexts /\ CleanIsSaved /\ WarmLinksAskOnce /\ Owned /\ Locked /\ Paired /\ Saved /\ Spared
  BY DEF IInv, CacheIsTrue
<1>1. TypeOK'
  <2>1. pc' = [pc EXCEPT ![r] = "keep"] \/ pc' = [pc EXCEPT ![r] = "words"]
    OBVIOUS
  <2>2. pc' \in [Requests -> Places]
    <3>1. "keep" \in Places /\ "words" \in Places /\ pc \in [Requests -> Places]
      BY <1>0 DEF TypeOK, Places
    <3>2. QED
      BY <2>1, <3>1
  <2>3. calls' \in [Requests -> Nat]
    BY <1>0 DEF TypeOK
  <2>4. QED
    BY <1>0, <2>2, <2>3 DEF TypeOK
<1>2. VectorsAreOfTheirTexts'
  BY <1>0 DEF TypeOK, VectorsAreOfTheirTexts, Paired
<1>3. CleanIsSaved'
  BY <1>0 DEF TypeOK, Owned, Locked, Saved, Saves, HasClient, CleanIsSaved
<1>4. WarmLinksAskOnce'
  BY <1>0 DEF TypeOK, Spared, Early, WarmLinksAskOnce
<1>5. Owned'
  BY <1>0, PastFacts DEF TypeOK, Owned, Past, HasClient
<1>6. Locked'
  BY <1>0 DEF TypeOK, Owned, Locked, Saves
<1>7. Paired'
  BY <1>0 DEF TypeOK, Paired
<1>8. Saved'
  BY <1>0 DEF TypeOK, Owned, Locked, Saved, Saves, HasClient
<1>9. Spared'
  BY <1>0 DEF TypeOK, Spared, Early
<1>10. QED
  BY <1>1, <1>2, <1>3, <1>4, <1>5, <1>6, <1>7, <1>8, <1>9 DEF IInv, CacheIsTrue

LEMMA FetchRaisesStep ==
  ASSUME IInv, NEW r \in Requests, FetchRaises(r)
  PROVE  IInv'
<1> USE DEF FetchRaises, Goto, process, disk, client, batch, history
<1>0. TypeOK /\ VectorsAreOfTheirTexts /\ CleanIsSaved /\ WarmLinksAskOnce /\ Owned /\ Locked /\ Paired /\ Saved /\ Spared
  BY DEF IInv, CacheIsTrue
<1>1. TypeOK'
  BY <1>0 DEF TypeOK, Places
<1>2. VectorsAreOfTheirTexts'
  BY <1>0 DEF TypeOK, VectorsAreOfTheirTexts, Paired
<1>3. CleanIsSaved'
  BY <1>0 DEF TypeOK, Owned, Locked, Saved, Saves, HasClient, CleanIsSaved
<1>4. WarmLinksAskOnce'
  BY <1>0 DEF TypeOK, Spared, Early, WarmLinksAskOnce
<1>5. Owned'
  BY <1>0, PastFacts DEF TypeOK, Owned, Past, HasClient
<1>6. Locked'
  BY <1>0 DEF TypeOK, Owned, Locked, Saves
<1>7. Paired'
  BY <1>0 DEF TypeOK, Paired
<1>8. Saved'
  BY <1>0 DEF TypeOK, Owned, Locked, Saved, Saves, HasClient
<1>9. Spared'
  BY <1>0 DEF TypeOK, Spared, Early
<1>10. QED
  BY <1>1, <1>2, <1>3, <1>4, <1>5, <1>6, <1>7, <1>8, <1>9 DEF IInv, CacheIsTrue

LEMMA StoreQueryStep ==
  ASSUME IInv, NEW r \in Requests, StoreQuery(r)
  PROVE  IInv'
<1> USE DEF StoreQuery, Goto, process, disk, client, batch, history, Store, LockFree
<1>0. TypeOK /\ VectorsAreOfTheirTexts /\ CleanIsSaved /\ WarmLinksAskOnce /\ Owned /\ Locked /\ Paired /\ Saved /\ Spared
  BY DEF IInv, CacheIsTrue
<1> DEFINE c == mine[r]
           t == Task[r]
<1>a. t \in Texts /\ t # NoVector
  BY SchemaLinkingAssumption, LinkerAssumption DEF Texts
<1>b. c \in Clients /\ created # 0 /\ ~(c > created)
  BY <1>0, MineIsAClient DEF HasClient
<1> HIDE DEF c, t
<1>c. /\ cache' = [cache EXCEPT ![c] = [cache[c] EXCEPT ![t] = t]]
      /\ dirty' = [dirty EXCEPT ![c] = TRUE]
      /\ holder[c] = {}
      /\ pc' = [pc EXCEPT ![r] = "meaning"]
      /\ UNCHANGED << process, disk, singleton, created, holder, mine, batch, history >>
  BY DEF c, t
<1>d. \A x \in Clients, y \in Texts :
        cache'[x][y] = IF x = c /\ y = t THEN t ELSE cache[x][y]
  BY <1>0, <1>a, <1>b, <1>c DEF TypeOK
<1>1. TypeOK'
  <2>1. cache' \in [Clients -> [Texts -> Vectors]] /\ dirty' \in [Clients -> BOOLEAN]
    <3>1. cache \in [Clients -> [Texts -> Vectors]] /\ t \in Vectors
      BY <1>0, <1>a DEF TypeOK, Vectors
    <3>2. cache' \in [Clients -> [Texts -> Vectors]]
      <4>1. [cache EXCEPT ![c] = [cache[c] EXCEPT ![t] = t]] \in [Clients -> [Texts -> Vectors]]
        BY <1>a, <1>b, <3>1, SetAt
      <4>2. QED
        BY <1>c, <4>1, Zenon
    <3>3. QED
      BY <1>0, <1>c, <3>2 DEF TypeOK
  <2>2. pc' \in [Requests -> Places]
    BY <1>0, <1>c DEF TypeOK, Places
  <2>3. QED
    BY <1>0, <1>c, <2>1, <2>2 DEF TypeOK
<1>2. VectorsAreOfTheirTexts'
  BY <1>0, <1>c, <1>d DEF VectorsAreOfTheirTexts
<1>3. CleanIsSaved'
  <2>1. created = 1 => c = 1
    BY <1>0, OneClient DEF c, HasClient
  <2>2. QED
    BY <1>0, <1>b, <1>c, <2>1 DEF CleanIsSaved, TypeOK
<1>4. WarmLinksAskOnce'
  BY <1>0 DEF TypeOK, Spared, Early, WarmLinksAskOnce
<1>5. Owned'
  BY <1>0, PastFacts DEF TypeOK, Owned, Past, HasClient
<1>6. Locked'
  BY <1>0 DEF TypeOK, Owned, Locked, Saves
<1>7. Paired'
  BY <1>0 DEF TypeOK, Paired
<1>8. Saved'
  <2>1. \A q \in Requests : pc'[q] \in Saves \/ pc[q] \in Saves => pc'[q] = pc[q]
    BY <1>0, <1>c DEF TypeOK, Saves
  <2>2. \A x \in Clients : x > created => ~dirty'[x]
    <3>1. TAKE x \in Clients
    <3>2. x > created => x # c /\ ~dirty[x]
      BY <1>0, <1>b DEF Saved
    <3>3. x # c => dirty'[x] = dirty[x]
      BY <1>0, <1>c DEF TypeOK
    <3>4. QED
      BY <3>2, <3>3, Zenon
  <2>3. ASSUME created = 1
        PROVE  c = 1 /\ 1 \in Clients /\ \A q \in Requests : pc[q] \notin Saves
    BY <1>0, <1>c, <2>3, OneClient DEF c, HasClient
  <2>4. created = 1 => dirty'[1]
    BY <1>0, <1>c, <2>3 DEF TypeOK
  <2>5. QED
    BY <1>0, <1>b, <1>c, <2>1, <2>2, <2>3, <2>4 DEF Saved, Saves
<1>9. Spared'
  <2>1. \A q \in Requests : q # r => pc'[q] = pc[q]
    BY <1>0, <1>c DEF TypeOK
  <2>2. \A q \in Requests : pc[q] = "lookup" => mine[q] \in Clients
    BY <1>0, MineIsAClient DEF HasClient
  <2>3. pc'[r] = "meaning"
    BY <1>0, <1>c DEF TypeOK
  <2>4. \A x \in Clients, u \in Tables : cache[x][u] # NoVector => cache'[x][u] # NoVector
    BY <1>a, <1>d DEF Texts
  <2>5. QED
    BY <1>0, <1>c, <2>1, <2>2, <2>3, <2>4 DEF Spared, Early
<1>10. QED
  BY <1>1, <1>2, <1>3, <1>4, <1>5, <1>6, <1>7, <1>8, <1>9 DEF IInv, CacheIsTrue

LEMMA LinkStep ==
  ASSUME IInv, NEW r \in Requests, Link(r)
  PROVE  IInv'
<1> USE DEF Link, Goto, process, disk, client, batch, history
<1>0. TypeOK /\ VectorsAreOfTheirTexts /\ CleanIsSaved /\ WarmLinksAskOnce /\ Owned /\ Locked /\ Paired /\ Saved /\ Spared
  BY DEF IInv, CacheIsTrue
<1>1. TypeOK'
  BY <1>0 DEF TypeOK, Places
<1>2. VectorsAreOfTheirTexts'
  BY <1>0 DEF TypeOK, VectorsAreOfTheirTexts, Paired
<1>3. CleanIsSaved'
  BY <1>0 DEF TypeOK, Owned, Locked, Saved, Saves, HasClient, CleanIsSaved
<1>4. WarmLinksAskOnce'
  BY <1>0 DEF TypeOK, Spared, Early, WarmLinksAskOnce
<1>5. Owned'
  BY <1>0, PastFacts DEF TypeOK, Owned, Past, HasClient
<1>6. Locked'
  BY <1>0 DEF TypeOK, Owned, Locked, Saves
<1>7. Paired'
  BY <1>0 DEF TypeOK, Paired
<1>8. Saved'
  BY <1>0 DEF TypeOK, Owned, Locked, Saved, Saves, HasClient
<1>9. Spared'
  BY <1>0 DEF TypeOK, Spared, Early
<1>10. QED
  BY <1>1, <1>2, <1>3, <1>4, <1>5, <1>6, <1>7, <1>8, <1>9 DEF IInv, CacheIsTrue

(* The start, the process that starts again, and a step of nobody.         *)
Fresh ==
  /\ token \in BOOLEAN
  /\ file \in [Texts -> Vectors] /\ \A x \in Texts : file[x] \in {x, NoVector}
  /\ writers = {} /\ clashed = {}
  /\ singleton = NoClient /\ created = 0
  /\ cache = [c \in Clients |-> Empty]
  /\ dirty = [c \in Clients |-> FALSE]
  /\ holder = [c \in Clients |-> {}]
  /\ pc = [r \in Requests |-> "start"]
  /\ mine = [r \in Requests |-> NoClient]
  /\ found = [r \in Requests |-> NotFound]
  /\ missing = [r \in Requests |-> << >>]
  /\ pairs = [r \in Requests |-> << >>]
  /\ warm = [r \in Requests |-> FALSE] /\ failed = [r \in Requests |-> FALSE]
  /\ calls = [r \in Requests |-> 0] /\ meant = [r \in Requests |-> FALSE]
  /\ crashes \in 0..MaxCrashes

LEMMA FreshInv == Fresh => IInv
<1> SUFFICES ASSUME Fresh PROVE IInv
  OBVIOUS
<1> USE DEF Fresh
<1>1. TypeOK
  <2>1. Empty \in [Texts -> Vectors] /\ NotFound \in [Tables -> Vectors]
    BY DEF Empty, NotFound, Vectors
  <2>2. cache \in [Clients -> [Texts -> Vectors]] /\ found \in [Requests -> [Tables -> Vectors]]
    BY <2>1
  <2>3. \A c \in Clients : Cardinality(holder[c]) <= 1
    <3>1. Cardinality({}) = 0
      BY FS_EmptySet
    <3>2. \A c \in Clients : holder[c] = {}
      OBVIOUS
    <3>3. QED
      BY <3>1, <3>2
  <2>4. pc \in [Requests -> Places]
    BY DEF Places
  <2>5. /\ missing \in [Requests -> Seq(Tables)]
        /\ pairs \in [Requests -> Seq(Tables \X Texts)]
    OBVIOUS
  <2>6. /\ mine \in [Requests -> {NoClient} \cup Clients]
        /\ holder \in [Clients -> SUBSET Requests] /\ dirty \in [Clients -> BOOLEAN]
        /\ warm \in [Requests -> BOOLEAN] /\ failed \in [Requests -> BOOLEAN]
        /\ calls \in [Requests -> Nat] /\ meant \in [Requests -> BOOLEAN]
    OBVIOUS
  <2>7. QED
    BY <2>2, <2>3, <2>4, <2>5, <2>6 DEF TypeOK, NoClient
<1>2. VectorsAreOfTheirTexts
  BY DEF VectorsAreOfTheirTexts, Empty, NotFound
<1>3. CleanIsSaved /\ WarmLinksAskOnce
  BY DEF CleanIsSaved, WarmLinksAskOnce
<1>4. Owned
  <2>1. Past = {}
    BY DEF Past
  <2>2. Cardinality(Past) = 0
    BY <2>1, FS_EmptySet
  <2>3. QED
    BY <2>2 DEF Owned, HasClient, NoClient
<1>5. Locked
  BY DEF Locked, Saves
<1>6. Paired
  BY DEF Paired
<1>7. Saved
  BY DEF Saved
<1>8. Spared
  BY DEF Spared
<1>9. QED
  BY <1>1, <1>2, <1>3, <1>4, <1>5, <1>6, <1>7, <1>8 DEF IInv, CacheIsTrue

LEMMA InitInv ==
  ASSUME Init
  PROVE  IInv
<1>1. 0 \in 0..MaxCrashes
  BY SchemaLinkingAssumption
<1>2. file \in [Texts -> Vectors] /\ \A x \in Texts : file[x] \in {x, NoVector}
  BY DEF Init, Empty, Vectors
<1>3. QED
  BY <1>1, <1>2, FreshInv DEF Init, Fresh

LEMMA CrashStep ==
  ASSUME IInv, Crash
  PROVE  IInv'
<1>1. crashes' \in 0..MaxCrashes
  BY SchemaLinkingAssumption DEF Crash, IInv, CacheIsTrue, TypeOK
<1>2. /\ file' \in [Texts -> Vectors] /\ token' \in BOOLEAN
      /\ \A x \in Texts : file'[x] \in {x, NoVector}
  BY DEF Crash, IInv, CacheIsTrue, TypeOK, VectorsAreOfTheirTexts
<1>3. Fresh'
  BY <1>1, <1>2 DEF Crash, Fresh, Empty, NotFound, Clients, NoClient
<1>4. QED
  BY <1>3, FreshInv, PTL

LEMMA StutterStep ==
  ASSUME IInv, UNCHANGED vars
  PROVE  IInv'
<1> USE DEF vars, process, disk, client, batch, history
<1>1. CacheIsTrue'
  BY DEF IInv, CacheIsTrue, TypeOK, VectorsAreOfTheirTexts, CleanIsSaved, WarmLinksAskOnce
<1>2. Owned'
  <2>1. Past' = Past
    BY DEF Past
  <2>2. QED
    BY <2>1 DEF IInv, Owned
<1>3. QED
  BY <1>1, <1>2 DEF IInv, Locked, Paired, Saved, Spared

LEMMA NextInv ==
  ASSUME IInv, [Next]_vars
  PROVE  IInv'
<1>1. ASSUME NEW r \in Requests, LinkSchema(r) PROVE IInv'
  BY <1>1, GetClientStep, CatalogueFailsStep, CreateClientStep, CreateFailsStep,
     AssignClientStep, ReturnClientStep, LookupBatchStep, FetchBatchStep, StoreVectorStep,
     KeepVectorsStep, OpenForWritingStep, NothingToSaveStep, WriteFileStep, EndSaveStep,
     SaveFailsStep, LookupQueryStep, FetchQueryStep, FetchRaisesStep, StoreQueryStep,
     LinkStep, Zenon DEF LinkSchema
<1>2. CASE Crash
  BY <1>2, CrashStep
<1>3. CASE UNCHANGED vars
  BY <1>3, StutterStep
<1>4. QED
  BY <1>1, <1>2, <1>3 DEF Next

(* Whatever the requests do at the same time, the invariant holds.         *)
THEOREM Inductive == Spec => []IInv
<1>1. Init => IInv
  BY InitInv
<1>2. IInv /\ [Next]_vars => IInv'
  BY NextInv
<1>3. QED
  BY <1>1, <1>2, PTL DEF Spec

(* Every vector in memory and in the file is that of its text, a cache     *)
(* that is clean has been saved, and a request that finds the tables in it *)
(* asks the service for its task only (embeddings.py:105-137, linker.py:   *)
(* 62-63).                                                                 *)
THEOREM CacheCorrect == Spec => []CacheIsTrue
<1>1. IInv => CacheIsTrue
  BY DEF IInv
<1>2. QED
  BY <1>1, Inductive, PTL
-----------------------------------------------------------------------------
(* The tables in order.                                                    *)

(* A set whose members have different places in 1..Cardinality(S) fills    *)
(* these places.                                                           *)
LEMMA PlacesAreFilled ==
  ASSUME NEW S, IsFiniteSet(S), NEW f \in [S -> 1..Cardinality(S)],
         \A x, y \in S : f[x] = f[y] => x = y
  PROVE  \A i \in 1..Cardinality(S) : \E x \in S : f[x] = i
<1> DEFINE n == Cardinality(S)
           T == 1..n
<1>1. n \in Nat
  BY FS_CardinalityType
<1>2. IsFiniteSet(T) /\ Cardinality(T) = n
  <2> HIDE DEF n
  <2>1. 1 \in Int /\ n \in Int /\ (1 > n => n = 0) /\ n - 1 + 1 = n
    BY <1>1
  <2>2. /\ IsFiniteSet(1..n)
        /\ Cardinality(1..n) = IF 1 > n THEN 0 ELSE n - 1 + 1
    BY <2>1, FS_Interval
  <2> QED BY <2>1, <2>2
<1>3. f \in Injection(S, T)
  BY DEF Injection, IsInjective
<1> HIDE DEF T
<1>4. f \in Surjection(S, T)
  BY <1>2, <1>3, FS_Injection
<1> QED BY <1>4 DEF Surjection, T

(* One-to-one, and so many.                                                *)
LEMMA OneToOne ==
  ASSUME NEW S, IsFiniteSet(S), NEW T, NEW f \in [S -> T],
         \A x, y \in S : f[x] = f[y] => x = y,
         \A z \in T : \E x \in S : f[x] = z
  PROVE  IsFiniteSet(T) /\ Cardinality(T) = Cardinality(S)
<1>1. f \in Bijection(S, T)
  BY DEF Bijection, Injection, Surjection, IsInjective
<1>2. ExistsBijection(S, T)
  BY <1>1 DEF ExistsBijection
<1> QED BY <1>2, FS_Bijection

LEMMA TablesAreFinite == IsFiniteSet(Tables)
<1> DEFINE n == Len(Catalogue)
<1>1. Catalogue \in Seq(Tables) /\ n \in Nat /\ DOMAIN Catalogue = 1..n
  BY LinkerAssumption
<1>2. Catalogue \in Surjection(1..n, Tables)
  BY <1>1 DEF Surjection, Tables, ToSet
<1>3. IsFiniteSet(1..n)
  <2> HIDE DEF n
  <2>1. 1 \in Int /\ n \in Int
    BY <1>1
  <2> QED BY <2>1, FS_Interval
<1> HIDE DEF n
<1> QED BY <1>2, <1>3, FS_Surjection

(* A table has its own place.                                              *)
LEMMA PlaceOfATable ==
  ASSUME NEW t \in Tables
  PROVE  Place(t) \in Int /\ Catalogue[Place(t)] = t
<1>1. \E i \in DOMAIN Catalogue : Catalogue[i] = t
  BY DEF Tables, ToSet
<1>2. Place(t) \in DOMAIN Catalogue /\ Catalogue[Place(t)] = t
  BY <1>1, Zenon DEF Place
<1>3. DOMAIN Catalogue \subseteq Int
  BY LinkerAssumption
<1> QED BY <1>2, <1>3

Numbered(score) ==
  /\ score = [t \in DOMAIN score |-> score[t]]
  /\ DOMAIN score \subseteq Tables
  /\ \A t \in DOMAIN score : score[t] \in Int

(* The order of sorted() is a strict one of all the tables.                *)
LEMMA BeforeIsStrict ==
  ASSUME NEW score, Numbered(score),
         NEW a \in DOMAIN score, NEW b \in DOMAIN score, NEW c \in DOMAIN score
  PROVE  /\ ~Before(score, a, a)
         /\ Before(score, a, b) => ~Before(score, b, a)
         /\ a # b => Before(score, a, b) \/ Before(score, b, a)
         /\ Before(score, a, b) /\ Before(score, b, c) => Before(score, a, c)
         /\ Before(score, a, b) => score[a] >= score[b]
<1> DEFINE x == score[a]
           y == score[b]
           z == score[c]
           i == Place(a)
           j == Place(b)
           k == Place(c)
<1>1. x \in Int /\ y \in Int /\ z \in Int
  BY DEF Numbered
<1>2. i \in Int /\ j \in Int /\ k \in Int /\ Catalogue[i] = a /\ Catalogue[j] = b
  BY PlaceOfATable DEF Numbered
<1>3. /\ Before(score, a, b) <=> (x > y \/ (x = y /\ i < j))
      /\ Before(score, b, a) <=> (y > x \/ (y = x /\ j < i))
      /\ Before(score, b, c) <=> (y > z \/ (y = z /\ j < k))
      /\ Before(score, a, c) <=> (x > z \/ (x = z /\ i < k))
      /\ Before(score, a, a) <=> (x > x \/ (x = x /\ i < i))
  BY Zenon DEF Before
<1>4. a # b => i # j
  BY <1>2
<1> HIDE DEF x, y, z, i, j, k
<1>5. /\ ~(x > x \/ (x = x /\ i < i))
      /\ (x > y \/ (x = y /\ i < j)) => ~(y > x \/ (y = x /\ j < i))
      /\ i # j => (x > y \/ (x = y /\ i < j)) \/ (y > x \/ (y = x /\ j < i))
      /\ (x > y \/ (x = y /\ i < j)) /\ (y > z \/ (y = z /\ j < k))
           => (x > z \/ (x = z /\ i < k))
      /\ (x > y \/ (x = y /\ i < j)) => x >= y
  BY <1>1, <1>2
<1> QED BY <1>3, <1>4, <1>5, Zenon DEF x, y

LEMMA ScoredAreFinite ==
  ASSUME NEW score, Numbered(score)
  PROVE  /\ IsFiniteSet(Scored(score)) /\ Cardinality(Scored(score)) \in Nat
         /\ Scored(score) \subseteq DOMAIN score /\ Scored(score) \subseteq Tables
<1>1. Scored(score) \subseteq Tables /\ Scored(score) \subseteq DOMAIN score
  BY DEF Scored, Numbered
<1>2. IsFiniteSet(Scored(score))
  BY <1>1, TablesAreFinite, FS_Subset
<1> QED BY <1>1, <1>2, FS_CardinalityType

(* Whoever comes before another has a smaller number.                      *)
LEMMA RankIsANumber ==
  ASSUME NEW score, Numbered(score), NEW t \in Scored(score)
  PROVE  Rank(score, t) \in 1..Cardinality(Scored(score))
<1> DEFINE S == Scored(score)
           A == {u \in S : Before(score, u, t)}
<1>1. IsFiniteSet(S) /\ t \in DOMAIN score /\ Cardinality(S) \in Nat
  BY ScoredAreFinite
<1>2. A \in SUBSET (S \ {t})
  BY <1>1, BeforeIsStrict
<1>3. IsFiniteSet(S \ {t}) /\ Cardinality(S \ {t}) = Cardinality(S) - 1
  BY <1>1, FS_RemoveElement
<1>4. IsFiniteSet(A) /\ Cardinality(A) <= Cardinality(S) - 1
  <2> HIDE DEF A, S
  <2> QED BY <1>2, <1>3, FS_Subset
<1>5. Cardinality(A) \in Nat
  BY <1>4, FS_CardinalityType
<1>6. Rank(score, t) = Cardinality(A) + 1
  BY Zenon DEF Rank
<1> HIDE DEF A, S
<1> QED BY <1>1, <1>4, <1>5, <1>6 DEF S

LEMMA RankTellsTheOrder ==
  ASSUME NEW score, Numbered(score), NEW t \in Scored(score), NEW u \in Scored(score),
         Before(score, t, u)
  PROVE  Rank(score, t) < Rank(score, u)
<1> DEFINE S == Scored(score)
           A == {v \in S : Before(score, v, t)}
           B == {v \in S : Before(score, v, u)}
<1>1. IsFiniteSet(S) /\ S \subseteq DOMAIN score
  BY ScoredAreFinite
<1>2. t \notin A /\ A \cup {t} \subseteq B
  BY <1>1, BeforeIsStrict
<1>3. IsFiniteSet(A) /\ IsFiniteSet(B)
  <2>1. A \in SUBSET S /\ B \in SUBSET S
    OBVIOUS
  <2> HIDE DEF A, B, S
  <2> QED BY <1>1, <2>1, FS_Subset
<1>4. Rank(score, t) = Cardinality(A) + 1 /\ Rank(score, u) = Cardinality(B) + 1
  BY Zenon DEF Rank
<1> HIDE DEF A, B, S
<1>5. Cardinality(A \cup {t}) = Cardinality(A) + 1 /\ Cardinality(A \cup {t}) <= Cardinality(B)
  <2>1. Cardinality(A \cup {t}) = Cardinality(A) + 1
    BY <1>2, <1>3, FS_AddElement
  <2>2. A \cup {t} \in SUBSET B
    BY <1>2
  <2> QED BY <1>3, <2>1, <2>2, FS_Subset
<1>6. Cardinality(A) \in Nat /\ Cardinality(B) \in Nat
  BY <1>3, FS_CardinalityType
<1> QED BY <1>4, <1>5, <1>6

(* What sorted() returns: each of them once, a better one first.           *)
LEMMA SortedInOrder ==
  ASSUME NEW score, Numbered(score)
  PROVE  LET n == Cardinality(Scored(score))
             s == Sorted(score)
         IN  /\ s \in Seq(Tables) /\ Len(s) = n /\ DOMAIN s = 1..n
             /\ \A i \in 1..n : s[i] \in Scored(score)
             /\ \A t \in Scored(score) : \E i \in 1..n : s[i] = t
             /\ \A i, j \in 1..n : s[i] = s[j] => i = j
             /\ \A i, j \in 1..n : i < j => score[s[i]] >= score[s[j]]
<1> DEFINE S == Scored(score)
           n == Cardinality(S)
           s == Sorted(score)
           f == [t \in S |-> Rank(score, t)]
<1>1. IsFiniteSet(S) /\ n \in Nat /\ S \subseteq DOMAIN score /\ S \subseteq Tables
  BY ScoredAreFinite
<1>2. f \in [S -> 1..Cardinality(S)]
  BY RankIsANumber
<1>3. ASSUME NEW t \in S, NEW u \in S, Rank(score, t) = Rank(score, u) PROVE t = u
  <2>1. SUFFICES ASSUME t # u PROVE FALSE
    OBVIOUS
  <2>2. Before(score, t, u) \/ Before(score, u, t)
    BY <1>1, <2>1, BeforeIsStrict
  <2>3. Rank(score, t) < Rank(score, u) \/ Rank(score, u) < Rank(score, t)
    BY <2>2, RankTellsTheOrder
  <2>4. Rank(score, t) \in Int
    BY RankIsANumber
  <2> QED BY <1>3, <2>3, <2>4
<1>4. \A i \in 1..n : \E t \in S : f[t] = i
  <2>1. \A x, y \in S : f[x] = f[y] => x = y
    BY <1>3
  <2> HIDE DEF f, S
  <2> QED BY <1>1, <1>2, <2>1, PlacesAreFilled
<1>5. \A i \in 1..n : \E t \in S : Rank(score, t) = i
  BY <1>4
<1>6. s = [i \in 1..n |-> CHOOSE t \in S : Rank(score, t) = i]
  BY Zenon DEF Sorted
<1> HIDE DEF s, f
<1>7. ASSUME NEW i \in 1..n PROVE s[i] \in S /\ Rank(score, s[i]) = i
  <2>1. s[i] = CHOOSE t \in S : Rank(score, t) = i
    BY <1>6, Zenon
  <2> QED BY <1>5, <2>1, Zenon
<1>8. ASSUME NEW t \in S PROVE \E i \in 1..n : s[i] = t
  <2>1. Rank(score, t) \in 1..n
    BY RankIsANumber, Zenon
  <2>2. s[Rank(score, t)] = t
    BY <1>3, <1>7, <2>1, Zenon
  <2> QED BY <2>1, <2>2
<1>9. ASSUME NEW i \in 1..n, NEW j \in 1..n, s[i] = s[j] PROVE i = j
  BY <1>7, <1>9
<1>10. ASSUME NEW i \in 1..n, NEW j \in 1..n, i < j PROVE score[s[i]] >= score[s[j]]
  <2>1. s[i] \in S /\ s[j] \in S /\ Rank(score, s[i]) = i /\ Rank(score, s[j]) = j
    BY <1>7
  <2>2. s[i] # s[j] /\ i \in Int /\ j \in Int /\ ~(j < i)
    BY <1>9, <1>10
  <2>3. ~Before(score, s[j], s[i])
    BY <2>1, <2>2, RankTellsTheOrder, Zenon
  <2>4. Before(score, s[i], s[j])
    BY <1>1, <2>1, <2>2, <2>3, BeforeIsStrict
  <2> QED BY <1>1, <2>1, <2>4, BeforeIsStrict
<1>11. DOMAIN s = 1..n /\ s \in [1..n -> Tables]
  BY <1>1, <1>6, <1>7
<1> HIDE DEF n
<1>12. s \in Seq(Tables) /\ Len(s) = n
  BY <1>1, <1>11
<1> QED BY <1>7, <1>8, <1>9, <1>10, <1>11, <1>12 DEF s, n

LEMMA MinOf ==
  ASSUME NEW a \in Int, NEW b \in Int
  PROVE  /\ Min({a, b}) \in {a, b} /\ Min({a, b}) <= a /\ Min({a, b}) <= b
BY DEF Min

(* The first K of them: as many as there are, and the best.                *)
LEMMA TopAreBest ==
  ASSUME NEW score, Numbered(score)
  PROVE  LET top == TopK(score)
             best == {top[i] : i \in DOMAIN top}
         IN  /\ top \in Seq(Tables)
             /\ best \subseteq Scored(score)
             /\ Cardinality(best) = Min({K, Cardinality(Scored(score))})
             /\ \A t \in best, u \in Scored(score) \ best : score[t] >= score[u]
<1> DEFINE S == Scored(score)
           n == Cardinality(S)
           s == Sorted(score)
           m == Min({K, n})
           top == TopK(score)
           best == {top[i] : i \in DOMAIN top}
<1>1. /\ n \in Nat /\ s \in Seq(Tables) /\ Len(s) = n
      /\ \A i \in 1..n : s[i] \in S
      /\ \A t \in S : \E i \in 1..n : s[i] = t
      /\ \A i, j \in 1..n : s[i] = s[j] => i = j
      /\ \A i, j \in 1..n : i < j => score[s[i]] >= score[s[j]]
  BY SortedInOrder, ScoredAreFinite
<1>2. TopK(score) = SubSeq(s, 1, m)
  BY <1>1 DEF TopK
<1> HIDE DEF s, S, n
<1>3. m \in 0..n
  <2>1. K \in Int /\ n \in Int /\ K >= 0
    BY <1>1, LinkerAssumption
  <2>2. m \in {K, n} /\ m <= n
    BY <2>1, MinOf
  <2> QED BY <1>1, <2>1, <2>2
<1> HIDE DEF m, top
<1>4. top \in Seq(Tables) /\ Len(top) = m /\ \A i \in 1..m : top[i] = s[i]
  <2>1. 1 \in 1..(n + 1) /\ m \in (1 - 1)..Len(s) /\ \A i \in 1..m : 1 + i - 1 = i
    BY <1>1, <1>3
  <2>2. 1 \in 1..(Len(s) + 1)
    BY <1>1, <2>1
  <2> QED BY <1>1, <1>2, <2>1, <2>2, SubSeqProperties DEF top
<1>5. DOMAIN top = 1..m /\ m \in Nat /\ \A i \in 1..m : i \in 1..n
  BY <1>1, <1>3, <1>4
<1>6. best \subseteq S
  BY <1>1, <1>4, <1>5
<1>7. Cardinality(best) = m
  <2> DEFINE f == [i \in 1..m |-> top[i]]
  <2>1. f \in [1..m -> best]
    BY <1>5
  <2>2. ASSUME NEW x \in 1..m, NEW y \in 1..m, f[x] = f[y] PROVE x = y
    <3>1. s[x] = s[y]
      BY <1>4, <2>2
    <3> QED BY <1>1, <1>5, <3>1, Zenon
  <2>3. \A z \in best : \E x \in 1..m : f[x] = z
    BY <1>5
  <2>4. IsFiniteSet(1..m) /\ Cardinality(1..m) = m
    <3>1. 1 \in Int /\ m \in Int /\ (1 > m => m = 0) /\ m - 1 + 1 = m
      BY <1>5
    <3>2. IsFiniteSet(1..m) /\ Cardinality(1..m) = IF 1 > m THEN 0 ELSE m - 1 + 1
      BY <3>1, FS_Interval
    <3> QED BY <3>1, <3>2
  <2> DEFINE D == 1..m
  <2> HIDE DEF f, best, D
  <2>5. IsFiniteSet(D) /\ f \in [D -> best] /\ Cardinality(D) = m
    BY <2>1, <2>4 DEF D
  <2>6. (\A x, y \in D : f[x] = f[y] => x = y) /\ (\A z \in best : \E x \in D : f[x] = z)
    BY <2>2, <2>3 DEF D
  <2> QED BY <2>5, <2>6, OneToOne
<1>8. ASSUME NEW t \in best, NEW u \in S \ best PROVE score[t] >= score[u]
  <2>1. PICK i \in 1..m : t = s[i]
    BY <1>4, <1>5
  <2>2. PICK j \in 1..n : u = s[j]
    BY <1>1
  <2>3. j \notin 1..m
    BY <1>4, <1>5, <2>2
  <2>4. i \in 1..n /\ i < j
    BY <1>1, <1>3, <2>3
  <2> QED BY <1>1, <2>1, <2>2, <2>4, Zenon
<1> QED BY <1>4, <1>6, <1>7, <1>8 DEF top, m, n, S

(* The words a task shares with a table are finitely many.                 *)
LEMMA WordScoreIsANumber ==
  ASSUME NEW task \in Tasks, NEW t \in Tables
  PROVE  WordScore(task, t) \in Int
<1> DEFINE a == Cardinality(TaskTokens[task] \cap AllTokens[t])
           b == Cardinality(TaskTokens[task] \cap HeadTokens[t])
<1>1. IsFiniteSet(TaskTokens[task])
  BY ScoresAssumption
<1>2. /\ IsFiniteSet(TaskTokens[task] \cap AllTokens[t])
      /\ IsFiniteSet(TaskTokens[task] \cap HeadTokens[t])
  BY <1>1, FS_Intersection
<1>3. a \in Nat /\ b \in Nat
  BY <1>2, FS_CardinalityType
<1>4. WordScore(task, t) = a + 2 * b
  BY Zenon DEF WordScore
<1> HIDE DEF a, b
<1> QED BY <1>3, <1>4

(* What the tables are ranked by: once all have vectors, by the score of   *)
(* each.                                                                   *)
ScoreOf(r, t) ==
  Boost[t] * IF meant[r] THEN Cosine[Task[r]][t] ELSE WordScore(Task[r], t)

Complete(r) == \A t \in Tables : found[r][t] # NoVector

LEMMA RankedByScore ==
  ASSUME NEW r \in Requests, \A t \in Tables : found[r][t] \in {t, NoVector}
  PROVE  \E f : /\ Numbered(f) /\ Schema(r) = LinkText(TopK(f))
                /\ (meant[r] => Complete(r)) =>
                     DOMAIN f = Tables /\ \A t \in Tables : f[t] = ScoreOf(r, t)
<1>1. Task[r] \in Tasks
  BY SchemaLinkingAssumption
<1>2. \A t \in Tables : t # NoVector /\ Boost[t] \in Int /\ Cosine[Task[r]][t] \in Int
  BY <1>1, LinkerAssumption, ScoresAssumption DEF Texts
<1>3. \A a, b \in Int : a * b \in Int /\ a * b = b * a
  OBVIOUS
<1>4. CASE meant[r]
  <2> DEFINE all == {u \in Tables : found[r][u] # NoVector}
             f == [t \in all |-> Cosine[Task[r]][found[r][t]] * Boost[t]]
  <2>1. \A t \in all : t \in Tables /\ found[r][t] = t
    OBVIOUS
  <2>2. DOMAIN f = all /\ all \subseteq Tables /\ f = [t \in DOMAIN f |-> f[t]]
    OBVIOUS
  <2>3. \A t \in all : f[t] = Cosine[Task[r]][t] * Boost[t]
    BY <2>1
  <2>4. Complete(r) => all = Tables
    BY DEF Complete
  <2>5. Schema(r) = LinkText(TopK(f))
    BY <1>4, Zenon DEF Schema, RankByMeaning
  <2>6. \A t \in Tables : ScoreOf(r, t) = Boost[t] * Cosine[Task[r]][t]
    BY <1>4, Zenon DEF ScoreOf
  <2> HIDE DEF f, all
  <2>7. ASSUME NEW t \in all PROVE f[t] \in Int /\ f[t] = ScoreOf(r, t)
    <3>1. t \in Tables
      BY <2>1, Zenon
    <3>2. Boost[t] \in Int /\ Cosine[Task[r]][t] \in Int
      BY <1>2, <3>1, Zenon
    <3>3. /\ Cosine[Task[r]][t] * Boost[t] \in Int
          /\ Cosine[Task[r]][t] * Boost[t] = Boost[t] * Cosine[Task[r]][t]
      BY <1>3, <3>2, Zenon
    <3>4. f[t] = Cosine[Task[r]][t] * Boost[t]
      BY <2>3, Zenon
    <3>5. ScoreOf(r, t) = Boost[t] * Cosine[Task[r]][t]
      BY <2>6, <3>1, Zenon
    <3> QED BY <3>3, <3>4, <3>5, Zenon
  <2>8. Numbered(f)
    BY <2>2, <2>7 DEF Numbered
  <2> QED BY <1>4, <2>2, <2>4, <2>5, <2>7, <2>8, Zenon
<1>5. CASE ~meant[r]
  <2> DEFINE f == [t \in Tables |-> WordScore(Task[r], t) * Boost[t]]
  <2>1. DOMAIN f = Tables /\ f = [t \in DOMAIN f |-> f[t]]
    OBVIOUS
  <2>2. \A t \in Tables : f[t] = WordScore(Task[r], t) * Boost[t]
    OBVIOUS
  <2>3. Schema(r) = LinkText(TopK(f))
    BY <1>5, Zenon DEF Schema, RankByWords
  <2>4. \A t \in Tables : ScoreOf(r, t) = Boost[t] * WordScore(Task[r], t)
    BY <1>5, Zenon DEF ScoreOf
  <2>5. \A t \in Tables : WordScore(Task[r], t) \in Int
    BY <1>1, WordScoreIsANumber, Zenon
  <2> HIDE DEF f
  <2>6. ASSUME NEW t \in Tables PROVE f[t] \in Int /\ f[t] = ScoreOf(r, t)
    <3>1. Boost[t] \in Int /\ WordScore(Task[r], t) \in Int
      BY <1>2, <2>5, Zenon
    <3>2. /\ WordScore(Task[r], t) * Boost[t] \in Int
          /\ WordScore(Task[r], t) * Boost[t] = Boost[t] * WordScore(Task[r], t)
      BY <1>3, <3>1, Zenon
    <3>3. f[t] = WordScore(Task[r], t) * Boost[t]
      BY <2>2, Zenon
    <3>4. ScoreOf(r, t) = Boost[t] * WordScore(Task[r], t)
      BY <2>4, Zenon
    <3> QED BY <3>2, <3>3, <3>4, Zenon
  <2>7. Numbered(f)
    BY <2>1, <2>6 DEF Numbered
  <2> QED BY <2>1, <2>3, <2>6, <2>7, Zenon
<1> QED BY <1>4, <1>5

(* Whoever ranks with all it needs is given the best tables.               *)
LEMMA GivenTheBest ==
  ASSUME NEW r \in Requests, \A t \in Tables : found[r][t] \in {t, NoVector},
         meant[r] => Complete(r)
  PROVE  LET score(t) == Boost[t] * IF meant[r] THEN Cosine[Task[r]][t] ELSE WordScore(Task[r], t)
             related == {t \in Tables : score(t) > 0}
         IN  /\ LinkedTables(r) \subseteq related
             /\ Cardinality(LinkedTables(r)) = Min({K, Cardinality(related)})
             /\ \A t \in LinkedTables(r), u \in related \ LinkedTables(r) : score(t) >= score(u)
<1>1. PICK f : /\ Numbered(f) /\ DOMAIN f = Tables
               /\ \A t \in Tables : f[t] = ScoreOf(r, t)
               /\ Schema(r) = LinkText(TopK(f))
  BY RankedByScore
<1> DEFINE top == TopK(f)
           best == {top[i] : i \in DOMAIN top}
           related == {t \in Tables : ScoreOf(r, t) > 0}
<1>2. /\ best \subseteq Scored(f)
      /\ Cardinality(best) = Min({K, Cardinality(Scored(f))})
      /\ \A t \in best, u \in Scored(f) \ best : f[t] >= f[u]
  BY <1>1, TopAreBest, Zenon
<1>3. Scored(f) = related
  BY <1>1 DEF Scored
<1> HIDE DEF top
<1>4. Schema(r) = [i \in DOMAIN top |-> Block(top[i])]
  BY <1>1, Zenon DEF LinkText, top
<1>5. \A i \in DOMAIN top : Schema(r)[i].table = top[i]
  BY <1>4 DEF Block
<1>6. LinkedTables(r) = best
  BY <1>4, <1>5 DEF LinkedTables
<1> HIDE DEF best
<1>7. \A t \in best, u \in related \ best : ScoreOf(r, t) >= ScoreOf(r, u)
  BY <1>1, <1>2, <1>3
<1>8. /\ LinkedTables(r) \subseteq related
      /\ Cardinality(LinkedTables(r)) = Min({K, Cardinality(related)})
      /\ \A t \in LinkedTables(r), u \in related \ LinkedTables(r) : ScoreOf(r, t) >= ScoreOf(r, u)
  BY <1>2, <1>3, <1>6, <1>7, Zenon
<1> QED BY <1>8, Zenon DEF ScoreOf
-----------------------------------------------------------------------------
(* The columns of a table.                                                 *)

Once(s) == \A i, j \in DOMAIN s : s[i] = s[j] => i = j

KeptUpTo(s, places, i, k) ==
  /\ Len(k) <= i
  /\ Len(k) = i => 1..i \subseteq places
  /\ \A p \in 1..i : p \in places => \E j \in DOMAIN k : k[j] = s[p]
  /\ \A j \in DOMAIN k : \E p \in 1..i : p \in places /\ k[j] = s[p]
  /\ Once(s) => Once(k)

LEMMA KeptOneMore ==
  ASSUME NEW S, NEW s \in Seq(S), NEW places, NEW i \in Nat, i + 1 \in DOMAIN s,
         NEW k \in Seq(S), KeptUpTo(s, places, i, k)
  PROVE  /\ i + 1 \in places => KeptUpTo(s, places, i + 1, Append(k, s[i + 1]))
         /\ i + 1 \notin places => KeptUpTo(s, places, i + 1, k)
<1> DEFINE x == s[i + 1]
           l == Append(k, x)
           n == Len(k)
<1>1. /\ n \in Nat /\ DOMAIN k = 1..n /\ Len(l) = n + 1 /\ DOMAIN l = 1..(n + 1)
      /\ \A j \in 1..n : l[j] = k[j]
      /\ l[n + 1] = x
  OBVIOUS
<1>2. /\ \A p \in 1..(i + 1) : p \in 1..i \/ p = i + 1
      /\ \A p \in 1..i : p \in 1..(i + 1) /\ p # i + 1 /\ p \in DOMAIN s
      /\ i + 1 \in 1..(i + 1)
  BY <1>1
<1>3. /\ \A j \in 1..(n + 1) : j \in 1..n \/ j = n + 1
      /\ \A j \in 1..n : j \in 1..(n + 1)
      /\ n + 1 \in 1..(n + 1)
  BY <1>1
<1> HIDE DEF l, x
<1>4. /\ n <= i /\ (n = i => 1..i \subseteq places)
      /\ \A p \in 1..i : p \in places => \E j \in DOMAIN k : k[j] = s[p]
      /\ \A j \in DOMAIN k : \E p \in 1..i : p \in places /\ k[j] = s[p]
      /\ Once(s) => Once(k)
  BY DEF KeptUpTo
<1> HIDE DEF n
<1>5. CASE i + 1 \in places
  <2>1. Len(l) <= i + 1 /\ (Len(l) = i + 1 => n = i)
    BY <1>1, <1>4
  <2>2. Len(l) = i + 1 => 1..(i + 1) \subseteq places
    BY <1>2, <1>4, <1>5, <2>1
  <2>3. ASSUME NEW p \in 1..(i + 1), p \in places PROVE \E j \in DOMAIN l : l[j] = s[p]
    <3>1. CASE p = i + 1
      BY <1>1, <1>3, <3>1 DEF x
    <3>2. CASE p \in 1..i
      <4>1. PICK j \in 1..n : k[j] = s[p]
        BY <1>1, <1>4, <2>3, <3>2, Zenon
      <4> QED BY <1>1, <1>3, <4>1, Zenon
    <3> QED BY <1>2, <3>1, <3>2
  <2>4. ASSUME NEW j \in DOMAIN l PROVE \E p \in 1..(i + 1) : p \in places /\ l[j] = s[p]
    <3>1. CASE j = n + 1
      BY <1>1, <1>2, <1>5, <3>1 DEF x
    <3>2. CASE j \in 1..n
      <4>1. PICK p \in 1..i : p \in places /\ k[j] = s[p]
        BY <1>1, <1>4, <3>2, Zenon
      <4> QED BY <1>1, <1>2, <3>2, <4>1, Zenon
    <3> QED BY <1>1, <1>3, <3>1, <3>2
  <2>5. ASSUME Once(s) PROVE Once(l)
    <3>1. ASSUME NEW a \in 1..n PROVE l[a] # l[n + 1]
      <4>1. PICK p \in 1..i : p \in places /\ k[a] = s[p]
        BY <1>1, <1>4, Zenon
      <4>2. s[p] # s[i + 1]
        BY <1>2, <2>5, Zenon DEF Once
      <4> QED BY <1>1, <4>1, <4>2 DEF x
    <3>2. \A a, b \in 1..n : l[a] = l[b] => a = b
      BY <1>1, <1>4, <2>5 DEF Once
    <3>3. \A a, b \in 1..(n + 1) : l[a] = l[b] => a = b
      BY <1>3, <3>1, <3>2, Zenon
    <3> QED BY <1>1, <3>3, Zenon DEF Once
  <2>6. KeptUpTo(s, places, i + 1, l)
    BY <2>1, <2>2, <2>3, <2>4, <2>5, Zenon DEF KeptUpTo
  <2> QED BY <1>5, <2>6 DEF l, x
<1>6. CASE i + 1 \notin places
  <2>1. Len(k) <= i + 1 /\ Len(k) # i + 1
    BY <1>1, <1>4 DEF n
  <2>2. \A p \in 1..(i + 1) : p \in places => p \in 1..i
    BY <1>2, <1>6
  <2>3. KeptUpTo(s, places, i + 1, k)
    BY <1>2, <1>4, <2>1, <2>2, Zenon DEF KeptUpTo
  <2> QED BY <1>6, <2>3
<1> QED BY <1>5, <1>6

(* All that is at the places is kept, once if it was there once, and       *)
(* nothing is left out only if every place was one of them.                *)
LEMMA KeptInOrder ==
  ASSUME NEW S, NEW s \in Seq(S), NEW places
  PROVE  /\ Keep(s, places) \in Seq(S)
         /\ KeptUpTo(s, places, Len(s), Keep(s, places))
<1> DEFINE n == Len(s)
<1>1. n \in Nat /\ DOMAIN s = 1..n
  OBVIOUS
<1>2. PICK g : Unfolds(s, places, n, g) /\ Keep(s, places) = g[n]
  BY <1>1, KeepUnfolds
<1> HIDE DEF n
<1> DEFINE P == {i \in 0..n : g[i] \in Seq(S) /\ KeptUpTo(s, places, i, g[i])}
<1>3. \A i \in 0..n : g[i] = Body(s, places, g, i)
  BY <1>2 DEF Unfolds
<1>4. 0 \in P
  <2>1. 0 \in 0..n /\ g[0] = << >>
    BY <1>1, <1>3 DEF Body
  <2>2. << >> \in Seq(S) /\ Len(<< >>) = 0 /\ DOMAIN << >> = {} /\ 1..0 = {} /\ Len(<< >>) <= 0
    OBVIOUS
  <2>3. Once(<< >>)
    BY <2>2, Zenon DEF Once
  <2>4. KeptUpTo(s, places, 0, << >>)
    BY <2>2, <2>3, Zenon DEF KeptUpTo
  <2> QED BY <2>1, <2>2, <2>4, Zenon
<1>5. ASSUME NEW i \in 0..(n - 1), i \in P PROVE i + 1 \in P
  <2>1. i + 1 \in 0..n /\ i + 1 # 0 /\ (i + 1) - 1 = i /\ i + 1 \in DOMAIN s /\ i \in Nat
    BY <1>1
  <2>2. g[i + 1] = IF i + 1 \in places THEN Append(g[i], s[i + 1]) ELSE g[i]
    BY <1>3, <2>1 DEF Body
  <2>3. g[i] \in Seq(S) /\ KeptUpTo(s, places, i, g[i])
    BY <1>5, Zenon
  <2>4. /\ i + 1 \in places => KeptUpTo(s, places, i + 1, Append(g[i], s[i + 1]))
        /\ i + 1 \notin places => KeptUpTo(s, places, i + 1, g[i])
    BY <2>1, <2>3, KeptOneMore, Zenon
  <2>5. KeptUpTo(s, places, i + 1, g[i + 1])
    <3>1. CASE i + 1 \in places
      <4>1. g[i + 1] = Append(g[i], s[i + 1])
        BY <2>2, <3>1
      <4> QED BY <2>4, <3>1, <4>1, Zenon
    <3>2. CASE i + 1 \notin places
      <4>1. g[i + 1] = g[i]
        BY <2>2, <3>2
      <4> QED BY <2>4, <3>2, <4>1, Zenon
    <3> QED BY <3>1, <3>2
  <2>6. g[i + 1] \in Seq(S)
    BY <2>1, <2>2, <2>3
  <2> QED BY <2>1, <2>5, <2>6, Zenon
<1>6. n \in P
  <2> HIDE DEF P
  <2>1. 0..n \subseteq P
    BY <1>1, <1>4, <1>5, InductionUpTo
  <2> QED BY <1>1, <2>1
<1> QED BY <1>2, <1>6, Zenon DEF n

(* What is left of the columns when the first MaxCols are taken off.       *)
LEMMA Split ==
  ASSUME NEW S, NEW s \in Seq(S)
  PROVE  LET m == Min({MaxCols, Len(s)})
             front == SubSeq(s, 1, m)
             cut == SubSeq(s, MaxCols + 1, Len(s))
         IN  /\ m \in Nat /\ m <= MaxCols /\ m <= Len(s)
             /\ front \in Seq(S) /\ Len(front) = m /\ \A i \in 1..m : front[i] = s[i]
             /\ cut \in Seq(S) /\ Len(cut) = Len(s) - m
             /\ \A i \in 1..Len(cut) : cut[i] = s[m + i]
<1> DEFINE n == Len(s)
           m == Min({MaxCols, n})
           front == SubSeq(s, 1, m)
           cut == SubSeq(s, MaxCols + 1, n)
<1>1. n \in Nat /\ DOMAIN s = 1..n /\ Len(s) = n /\ MaxCols \in Nat
  BY LinkerAssumption
<1>2. m \in {MaxCols, n} /\ m <= MaxCols /\ m <= n
  <2> HIDE DEF n
  <2>1. MaxCols \in Int /\ n \in Int
    BY <1>1
  <2> QED BY <2>1, MinOf
<1> HIDE DEF m, n
<1>3. m \in Nat
  BY <1>1, <1>2
<1>4. front \in Seq(S) /\ Len(front) = m /\ \A i \in 1..m : front[i] = s[i]
  <2>1. 1 \in 1..(n + 1) /\ m \in (1 - 1)..n /\ m - 1 + 1 = m /\ \A i \in 1..m : 1 + i - 1 = i
    BY <1>1, <1>2, <1>3
  <2>2. 1 \in 1..(Len(s) + 1) /\ m \in (1 - 1)..Len(s)
    BY <1>1, <2>1, Zenon
  <2>3. front \in Seq(S)
    BY <2>2, SubSeqProperties
  <2>4. Len(front) = m - 1 + 1 /\ \A i \in 1..(m - 1 + 1) : front[i] = s[1 + i - 1]
    BY <2>2, SubSeqProperties
  <2> HIDE DEF front
  <2> QED BY <2>1, <2>3, <2>4
<1>5. cut \in Seq(S) /\ Len(cut) = n - m /\ \A i \in 1..Len(cut) : cut[i] = s[m + i]
  <2>1. CASE MaxCols <= n
    <3>1. m = MaxCols
      BY <1>1, <1>2, <2>1
    <3>2. /\ m + 1 \in 1..(n + 1) /\ n \in ((m + 1) - 1)..n
          /\ n - (m + 1) + 1 = n - m
          /\ \A i \in 1..(n - m) : (m + 1) + i - 1 = m + i
      BY <1>1, <1>2, <1>3
    <3>3. m + 1 \in 1..(Len(s) + 1) /\ n \in ((m + 1) - 1)..Len(s)
      BY <1>1, <3>2, Zenon
    <3>4. SubSeq(s, m + 1, n) \in Seq(S)
      BY <3>3, SubSeqProperties
    <3>5. /\ Len(SubSeq(s, m + 1, n)) = n - (m + 1) + 1
          /\ \A i \in 1..(n - (m + 1) + 1) : SubSeq(s, m + 1, n)[i] = s[(m + 1) + i - 1]
      BY <3>3, SubSeqProperties
    <3> QED BY <3>1, <3>2, <3>4, <3>5
  <2>2. CASE ~(MaxCols <= n)
    <3>1. m = n /\ MaxCols + 1 > n /\ n - m = 0
      BY <1>1, <1>2, <2>2
    <3>2. cut = << >>
      BY <1>1, <3>1
    <3>3. << >> \in Seq(S) /\ Len(<< >>) = 0 /\ 1..0 = {}
      OBVIOUS
    <3> QED BY <3>1, <3>2, <3>3
  <2> QED BY <2>1, <2>2
<1> QED BY <1>1, <1>2, <1>3, <1>4, <1>5 DEF m, n

IsKey(c) == c.ref # NoTable /\ ~c.noise

(* All keys are shown, nothing twice, and past the limit only keys.        *)
LEMMA ShownColumnsAre ==
  ASSUME NEW t \in Tables
  PROVE  LET s == ShownColumns(t)
             C == ToSet(Columns[t])
         IN  /\ s \in Seq(C)
             /\ Once(s)
             /\ \A c \in C : IsKey(c) => \E j \in DOMAIN s : s[j] = c
             /\ \A j \in DOMAIN s : j > MaxCols => IsKey(s[j])
<1> DEFINE C == ToSet(Columns[t])
           N == {i \in DOMAIN Columns[t] : ~Columns[t][i].noise}
           all == Keep(Columns[t], N)
           m == Min({MaxCols, Len(all)})
           front == SubSeq(all, 1, m)
           cut == SubSeq(all, MaxCols + 1, Len(all))
           F == {i \in DOMAIN cut : cut[i].ref # NoTable}
           rest == Keep(cut, F)
           s == ShownColumns(t)
<1>1. Columns[t] \in Seq(C) /\ Once(Columns[t])
  BY ColumnsAssumption DEF Once
<1>2. s = front \o rest
  BY Zenon DEF ShownColumns
<1> HIDE DEF s, rest
(* The columns that are not boilerplate.                                   *)
<1>3. /\ all \in Seq(C) /\ Once(all)
      /\ \A c \in C : IsKey(c) => \E p \in DOMAIN all : all[p] = c
      /\ \A p \in DOMAIN all : ~all[p].noise
  <2>1. all \in Seq(C) /\ KeptUpTo(Columns[t], N, Len(Columns[t]), all)
    BY <1>1, KeptInOrder, Zenon
  <2>2. DOMAIN Columns[t] = 1..Len(Columns[t])
    BY <1>1
  <2> HIDE DEF all
  <2>3. ASSUME NEW c \in C, IsKey(c) PROVE \E p \in DOMAIN all : all[p] = c
    <3>1. PICK i \in DOMAIN Columns[t] : Columns[t][i] = c
      BY DEF ToSet
    <3>2. i \in N /\ i \in 1..Len(Columns[t])
      BY <2>2, <2>3, <3>1 DEF IsKey
    <3> HIDE DEF N
    <3> QED BY <2>1, <3>1, <3>2, Zenon DEF KeptUpTo
  <2>4. ASSUME NEW p \in DOMAIN all PROVE ~all[p].noise
    <3>1. PICK i \in N : all[p] = Columns[t][i]
      BY <2>1, Zenon DEF KeptUpTo
    <3> QED BY <3>1
  <2> QED BY <1>1, <2>1, <2>3, <2>4, Zenon DEF KeptUpTo
<1> HIDE DEF all
<1>4. /\ m \in Nat /\ m <= MaxCols /\ m <= Len(all)
      /\ front \in Seq(C) /\ Len(front) = m /\ \A i \in 1..m : front[i] = all[i]
      /\ cut \in Seq(C) /\ Len(cut) = Len(all) - m
      /\ \A i \in 1..Len(cut) : cut[i] = all[m + i]
  BY <1>3, Split, Zenon
<1>5. Len(all) \in Nat /\ DOMAIN all = 1..Len(all)
  BY <1>3
<1> HIDE DEF m, front, cut
<1>6. /\ \A i \in 1..m : i \in DOMAIN all
      /\ \A i \in DOMAIN cut : m + i \in DOMAIN all /\ m + i > m /\ cut[i] = all[m + i]
      /\ \A p \in DOMAIN all : p \in 1..m \/ (p - m \in DOMAIN cut /\ m + (p - m) = p)
  BY <1>4, <1>5
(* The keys past the limit.                                                *)
<1>7. rest \in Seq(C) /\ KeptUpTo(cut, F, Len(cut), rest)
  BY <1>4, KeptInOrder, Zenon DEF rest
<1>8. Once(cut)
  <2>1. ASSUME NEW i \in DOMAIN cut, NEW j \in DOMAIN cut, cut[i] = cut[j] PROVE i = j
    <3>1. m + i = m + j
      BY <1>3, <1>6, <2>1, Zenon DEF Once
    <3>2. i \in Int /\ j \in Int
      BY <1>4
    <3> QED BY <1>4, <3>1, <3>2
  <2> QED BY <2>1, Zenon DEF Once
<1>9. /\ Once(rest)
      /\ \A j \in DOMAIN rest : \E i \in DOMAIN cut : cut[i].ref # NoTable /\ rest[j] = cut[i]
      /\ \A i \in DOMAIN cut : cut[i].ref # NoTable => \E j \in DOMAIN rest : rest[j] = cut[i]
  <2>1. DOMAIN cut = 1..Len(cut)
    BY <1>4
  <2>2. ASSUME NEW j \in DOMAIN rest
        PROVE  \E i \in DOMAIN cut : cut[i].ref # NoTable /\ rest[j] = cut[i]
    <3>1. PICK i \in 1..Len(cut) : i \in F /\ rest[j] = cut[i]
      BY <1>7, Zenon DEF KeptUpTo
    <3> QED BY <3>1
  <2>3. ASSUME NEW i \in DOMAIN cut, cut[i].ref # NoTable
        PROVE  \E j \in DOMAIN rest : rest[j] = cut[i]
    <3>1. i \in F /\ i \in 1..Len(cut)
      BY <2>1, <2>3
    <3> HIDE DEF F
    <3> QED BY <1>7, <3>1, Zenon DEF KeptUpTo
  <2> QED BY <1>7, <1>8, <2>2, <2>3, Zenon DEF KeptUpTo
<1> HIDE DEF F
(* Both together.                                                          *)
<1> DEFINE k == Len(rest)
<1>10. /\ k \in Nat /\ DOMAIN rest = 1..k /\ DOMAIN front = 1..m
       /\ s \in Seq(C) /\ Len(s) = m + k
       /\ \A i \in 1..m : s[i] = front[i]
       /\ \A i \in 1..k : s[m + i] = rest[i]
  <2>1. k \in Nat /\ DOMAIN rest = 1..k /\ DOMAIN front = 1..m
    BY <1>4, <1>7
  <2>2. /\ s \in Seq(C) /\ Len(s) = Len(front) + Len(rest)
        /\ \A i \in 1..(Len(front) + Len(rest)) :
              s[i] = IF i <= Len(front) THEN front[i] ELSE rest[i - Len(front)]
    <3>1. front \in Seq(C) /\ rest \in Seq(C)
      BY <1>4, <1>7, Zenon
    <3> HIDE DEF C, k
    <3>2. /\ front \o rest \in Seq(C) /\ Len(front \o rest) = Len(front) + Len(rest)
          /\ \A i \in 1..(Len(front) + Len(rest)) :
                (front \o rest)[i] = IF i <= Len(front) THEN front[i] ELSE rest[i - Len(front)]
      BY <3>1, ConcatProperties, Zenon
    <3> QED BY <1>2, <3>2, Zenon
  <2> HIDE DEF k
  <2>3. \A i \in 1..m : i \in 1..(m + k) /\ i <= m
    BY <1>4, <2>1
  <2>4. \A i \in 1..k : m + i \in 1..(m + k) /\ ~(m + i <= m) /\ (m + i) - m = i
    BY <1>4, <2>1
  <2>5. Len(front) = m /\ Len(rest) = k
    BY <1>4 DEF k
  <2>6. \A i \in 1..(m + k) : s[i] = IF i <= m THEN front[i] ELSE rest[i - m]
    BY <2>2, <2>5, Zenon
  <2>7. \A i \in 1..m : s[i] = front[i]
    BY <2>3, <2>6
  <2>8. \A i \in 1..k : s[m + i] = rest[i]
    BY <2>4, <2>6
  <2>9. Len(s) = m + k
    BY <2>2, <2>5, Zenon
  <2> QED BY <2>1, <2>2, <2>7, <2>8, <2>9, Zenon
<1> HIDE DEF k
<1>11. /\ DOMAIN s = 1..(m + k)
       /\ \A j \in DOMAIN s : j \in 1..m \/ (j - m \in 1..k /\ m + (j - m) = j)
       /\ \A i \in 1..m : i \in DOMAIN s
       /\ \A i \in 1..k : m + i \in DOMAIN s
  BY <1>4, <1>10
(* Where in all a column that is shown comes from.                         *)
<1>12. ASSUME NEW i \in 1..m PROVE i \in DOMAIN all /\ s[i] = all[i]
  BY <1>4, <1>6, <1>10, Zenon
<1>13. ASSUME NEW i \in 1..k
       PROVE  \E p \in DOMAIN cut : /\ s[m + i] = all[m + p] /\ s[m + i].ref # NoTable
                                    /\ m + p \in DOMAIN all /\ m + p > m
  <2>1. s[m + i] = rest[i] /\ i \in DOMAIN rest
    BY <1>10, Zenon
  <2>2. PICK p \in DOMAIN cut : cut[p].ref # NoTable /\ rest[i] = cut[p]
    BY <1>9, <2>1, Zenon
  <2>3. m + p \in DOMAIN all /\ m + p > m /\ cut[p] = all[m + p]
    BY <1>6, Zenon
  <2> QED BY <2>1, <2>2, <2>3, Zenon
<1>14. Once(s)
  <2>1. ASSUME NEW i \in 1..m, NEW j \in 1..k PROVE s[i] # s[m + j]
    <3>1. PICK p \in DOMAIN cut : s[m + j] = all[m + p] /\ m + p \in DOMAIN all /\ m + p > m
      BY <1>13
    <3>2. i # m + p
      BY <1>4, <3>1
    <3> QED BY <1>3, <1>12, <3>1, <3>2, Zenon DEF Once
  <2>2. ASSUME NEW i \in DOMAIN s, NEW j \in DOMAIN s, s[i] = s[j] PROVE i = j
    <3>1. CASE i \in 1..m /\ j \in 1..m
      BY <1>3, <1>12, <2>2, <3>1, Zenon DEF Once
    <3>2. CASE i - m \in 1..k /\ j - m \in 1..k /\ m + (i - m) = i /\ m + (j - m) = j
      <4>1. rest[i - m] = rest[j - m]
        BY <1>10, <2>2, <3>2, Zenon
      <4>2. i - m = j - m
        BY <1>9, <1>10, <3>2, <4>1, Zenon DEF Once
      <4> QED BY <3>2, <4>2, Zenon
    <3>3. CASE i \in 1..m /\ j - m \in 1..k /\ m + (j - m) = j
      BY <2>1, <2>2, <3>3, Zenon
    <3>4. CASE j \in 1..m /\ i - m \in 1..k /\ m + (i - m) = i
      BY <2>1, <2>2, <3>4, Zenon
    <3> QED BY <1>11, <3>1, <3>2, <3>3, <3>4, Zenon
  <2> QED BY <2>2, Zenon DEF Once
<1>15. ASSUME NEW c \in C, IsKey(c) PROVE \E j \in DOMAIN s : s[j] = c
  <2>1. PICK p \in DOMAIN all : all[p] = c
    BY <1>3, <1>15, Zenon
  <2>2. CASE p \in 1..m
    BY <1>11, <1>12, <2>1, <2>2, Zenon
  <2>3. CASE p - m \in DOMAIN cut /\ m + (p - m) = p
    <3>1. cut[p - m] = c
      BY <1>6, <2>1, <2>3, Zenon
    <3>2. PICK j \in DOMAIN rest : rest[j] = c
      BY <1>9, <1>15, <2>3, <3>1, Zenon DEF IsKey
    <3> QED BY <1>10, <1>11, <3>2, Zenon
  <2> QED BY <1>6, <2>1, <2>2, <2>3, Zenon
<1>16. ASSUME NEW j \in DOMAIN s, j > MaxCols PROVE IsKey(s[j])
  <2>1. j \notin 1..m
    BY <1>4, <1>16, LinkerAssumption
  <2>2. j - m \in 1..k /\ m + (j - m) = j
    BY <1>11, <2>1, Zenon
  <2>3. PICK p \in DOMAIN cut : s[j] = all[m + p] /\ s[j].ref # NoTable /\ m + p \in DOMAIN all
    BY <1>13, <2>2, Zenon
  <2> QED BY <1>3, <2>3, Zenon DEF IsKey
<1> QED BY <1>10, <1>14, <1>15, <1>16, Zenon DEF s

(* What a block says of its table.                                         *)
LEMMA KeysAreShown ==
  ASSUME NEW t \in Tables
  PROVE  LET block == Block(t)
             keys == {c.name : c \in {c \in ToSet(Columns[t]) : c.ref # NoTable /\ ~c.noise}}
             shown == {n \in DOMAIN block.columns : block.columns[n] \in keys}
         IN  /\ block.table = t
             /\ keys \subseteq ToSet(block.columns)
             /\ Cardinality(shown) = Cardinality(keys)
             /\ Len(block.columns) <= MaxCols + Cardinality(shown)
<1> DEFINE C == ToSet(Columns[t])
           s == ShownColumns(t)
           names == Block(t).columns
           keys == {c.name : c \in {c \in C : c.ref # NoTable /\ ~c.noise}}
           shown == {n \in DOMAIN names : names[n] \in keys}
<1>1. /\ s \in Seq(C) /\ Once(s)
      /\ \A c \in C : IsKey(c) => \E j \in DOMAIN s : s[j] = c
      /\ \A j \in DOMAIN s : j > MaxCols => IsKey(s[j])
  BY ShownColumnsAre, Zenon
<1>2. \A c, d \in C : c.name = d.name => c = d
  BY ColumnsAssumption DEF ToSet
<1>3. Block(t).table = t /\ names = [i \in DOMAIN s |-> s[i].name]
  BY DEF Block
<1> HIDE DEF s
<1> DEFINE k == Len(s)
<1>4. k \in Nat /\ DOMAIN s = 1..k /\ \A j \in 1..k : s[j] \in C
  BY <1>1
<1> HIDE DEF k, names
<1>5. DOMAIN names = 1..k /\ Len(names) = k /\ \A j \in 1..k : names[j] = s[j].name
  BY <1>3, <1>4
<1>6. ASSUME NEW i \in 1..k, NEW j \in 1..k, names[i] = names[j] PROVE i = j
  <2>1. s[i] \in C /\ s[j] \in C /\ s[i].name = s[j].name
    BY <1>4, <1>5, <1>6, Zenon
  <2>2. s[i] = s[j] /\ i \in DOMAIN s /\ j \in DOMAIN s
    BY <1>2, <1>4, <2>1, Zenon
  <2> QED BY <1>1, <2>2, Zenon DEF Once
<1>7. \A z \in keys : \E c \in C : IsKey(c) /\ z = c.name
  BY DEF IsKey
<1>8. \A c \in C : IsKey(c) => c.name \in keys
  BY DEF IsKey
<1> HIDE DEF C, keys
<1>9. ASSUME NEW z \in keys PROVE \E j \in 1..k : names[j] = z
  <2>1. PICK c \in C : IsKey(c) /\ z = c.name
    BY <1>7, Zenon
  <2>2. PICK j \in DOMAIN s : s[j] = c
    BY <1>1, <2>1, Zenon
  <2>3. j \in 1..k /\ names[j] = s[j].name
    BY <1>4, <1>5, <2>2, Zenon
  <2> QED BY <2>1, <2>2, <2>3, Zenon
<1>10. keys \subseteq ToSet(names)
  BY <1>5, <1>9 DEF ToSet
<1>11. IsFiniteSet(1..k)
  <2>1. 1 \in Int /\ k \in Int
    BY <1>4
  <2> QED BY <2>1, FS_Interval
<1>12. shown \in SUBSET (1..k)
  BY <1>5
<1>13. IsFiniteSet(shown) /\ Cardinality(shown) \in Nat
  <2> HIDE DEF shown
  <2>1. IsFiniteSet(shown)
    BY <1>11, <1>12, FS_Subset
  <2> QED BY <2>1, FS_CardinalityType
<1>14. Cardinality(shown) = Cardinality(keys)
  <2> DEFINE f == [n \in shown |-> names[n]]
  <2>1. f \in [shown -> keys]
    OBVIOUS
  <2>2. \A x, y \in shown : f[x] = f[y] => x = y
    BY <1>6, <1>12
  <2>3. \A z \in keys : \E x \in shown : f[x] = z
    BY <1>5, <1>9
  <2> HIDE DEF f, shown
  <2> QED BY <1>13, <2>1, <2>2, <2>3, OneToOne
<1>15. k <= MaxCols + Cardinality(shown)
  <2>1. MaxCols \in Nat
    BY LinkerAssumption
  <2>2. CASE k <= MaxCols
    BY <1>4, <1>13, <2>1, <2>2
  <2>3. CASE ~(k <= MaxCols)
    <3>1. MaxCols + 1 \in Int /\ k \in Int /\ ~(MaxCols + 1 > k) /\ k - (MaxCols + 1) + 1 = k - MaxCols
      BY <1>4, <2>1, <2>3
    <3>2. /\ IsFiniteSet((MaxCols + 1)..k)
          /\ Cardinality((MaxCols + 1)..k)
               = IF MaxCols + 1 > k THEN 0 ELSE k - (MaxCols + 1) + 1
      BY <3>1, FS_Interval
    <3>3. ASSUME NEW j \in (MaxCols + 1)..k PROVE j \in shown
      <4>1. j \in 1..k /\ j > MaxCols
        BY <1>4, <2>1
      <4>2. s[j] \in C /\ IsKey(s[j])
        BY <1>1, <1>4, <4>1, Zenon
      <4>3. names[j] \in keys
        BY <1>5, <1>8, <4>1, <4>2, Zenon
      <4> QED BY <1>5, <4>1, <4>3
    <3>4. (MaxCols + 1)..k \in SUBSET shown
      BY <3>3
    <3>5. Cardinality((MaxCols + 1)..k) <= Cardinality(shown)
      <4> HIDE DEF shown
      <4> QED BY <1>13, <3>4, FS_Subset
    <3>6. k - MaxCols <= Cardinality(shown)
      BY <3>1, <3>2, <3>5
    <3> QED BY <1>4, <1>13, <2>1, <3>6
  <2> QED BY <2>2, <2>3
<1> QED BY <1>3, <1>5, <1>10, <1>14, <1>15 DEF names, keys, C

LEMMA BlocksAreOfTables ==
  ASSUME NEW r \in Requests, \A t \in Tables : found[r][t] \in {t, NoVector}
  PROVE  \A i \in DOMAIN Schema(r) : \E t \in Tables : Schema(r)[i] = Block(t)
<1>1. PICK f : Numbered(f) /\ Schema(r) = LinkText(TopK(f))
  BY RankedByScore, Zenon
<1> DEFINE top == TopK(f)
<1>2. top \in Seq(Tables)
  BY <1>1, TopAreBest, Zenon
<1> HIDE DEF top
<1>3. Schema(r) = [i \in DOMAIN top |-> Block(top[i])]
  BY <1>1, Zenon DEF LinkText, top
<1> QED BY <1>2, <1>3
-----------------------------------------------------------------------------
(* The vectors a request ranks with: what is not found yet is missing, or  *)
(* about to be stored, unless the service left it out.                     *)
Ranking == {"vectors", "save", "saving", "saved", "query", "ask", "keep", "meaning"}

Outstanding(r) ==
  /\ meant[r] => pc[r] = "linked"
  /\ pc[r] = "fetch" =>
       \A t \in Tables : found[r][t] = NoVector => \E i \in DOMAIN missing[r] : missing[r][i] = t
  /\ pc[r] = "store" /\ ~failed[r] =>
       \A t \in Tables : found[r][t] = NoVector => \E i \in DOMAIN pairs[r] : pairs[r][i][1] = t
  /\ (pc[r] \in Ranking \/ meant[r]) /\ ~failed[r] => Complete(r)

LEMMA AllMissing ==
  ASSUME NEW c, NEW t \in Tables, cache[c][t] = NoVector
  PROVE  \E i \in DOMAIN Missing(c) : Missing(c)[i] = t
<1> DEFINE places == {i \in DOMAIN Catalogue : cache[c][Catalogue[i]] = NoVector}
<1>1. Catalogue \in Seq(Tables) /\ DOMAIN Catalogue = 1..Len(Catalogue)
  BY LinkerAssumption
<1>2. Missing(c) = Keep(Catalogue, places)
  BY DEF Missing, Cached
<1>3. PICK p \in DOMAIN Catalogue : Catalogue[p] = t
  BY DEF Tables, ToSet
<1>4. p \in places
  BY <1>3
<1> HIDE DEF places
<1>5. KeptUpTo(Catalogue, places, Len(Catalogue), Keep(Catalogue, places))
  BY <1>1, KeptInOrder, Zenon
<1> QED BY <1>1, <1>2, <1>3, <1>4, <1>5, Zenon DEF KeptUpTo

(* An answer that is as long as what was asked answers all of it.          *)
LEMMA AllAnswered ==
  ASSUME NEW asked \in Seq(Tables), NEW vs \in Reply(asked),
         ~(Len(Answered(asked, vs)) < Len(asked)), NEW p \in DOMAIN asked
  PROVE  \E j \in DOMAIN Answered(asked, vs) : Answered(asked, vs)[j][1] = asked[p]
<1>1. PICK n \in 0..Len(asked), good \in SUBSET DOMAIN asked :
         vs = [i \in 1..n |-> IF i \in good THEN asked[i] ELSE NoVector]
  BY SMT DEF Reply
<1> DEFINE l == Len(asked)
           s == [k \in DOMAIN vs |-> << asked[k], vs[k] >>]
           S == {s[k] : k \in 1..n}
           kept == Keep(s, Good(vs))
<1>2. l \in Nat /\ DOMAIN asked = 1..l /\ n \in Nat /\ n <= l
  OBVIOUS
<1>3. DOMAIN vs = 1..n
  BY <1>1
<1>4. s \in Seq(S) /\ Len(s) = n /\ \A k \in 1..n : s[k] = << asked[k], vs[k] >>
  BY <1>2, <1>3
<1> HIDE DEF s, S
<1>5. kept \in Seq(S) /\ KeptUpTo(s, Good(vs), n, kept)
  BY <1>4, KeptInOrder
<1>6. Answered(asked, vs) = kept
  BY Zenon DEF Answered, s
<1> HIDE DEF kept
<1>7. Len(kept) \in Nat /\ ~(Len(kept) < l) /\ Len(kept) <= n
  BY <1>5, <1>6 DEF KeptUpTo
<1> HIDE DEF l
<1>8. Len(kept) = n /\ n = l
  BY <1>2, <1>7
<1>9. p \in 1..n /\ p \in Good(vs)
  BY <1>2, <1>5, <1>8 DEF KeptUpTo
<1>10. PICK j \in DOMAIN kept : kept[j] = s[p]
  BY <1>5, <1>9, Zenon DEF KeptUpTo
<1>11. s[p][1] = asked[p]
  BY <1>4, <1>9
<1> QED BY <1>6, <1>10, <1>11, Zenon

(* A step that touches none of it, neither toward the ranking nor to the   *)
(* end of it.                                                              *)
LEMMA Onward ==
  ASSUME NEW r \in Requests, Outstanding(r), pc[r] # "linked",
         pc'[r] \notin {"fetch", "store", "linked"},
         pc'[r] \in Ranking => pc[r] \in Ranking,
         found'[r] = found[r], failed'[r] = failed[r], meant'[r] = meant[r]
  PROVE  Outstanding(r)'
<1>1. ~meant[r]
  BY DEF Outstanding
<1>2. pc[r] \in Ranking /\ ~failed[r] => Complete(r)
  BY DEF Outstanding
<1> QED BY <1>1, <1>2 DEF Outstanding, Complete, Ranking

(* The requests that do not take the step keep what they have.             *)
LEMMA OthersKeep ==
  ASSUME TypeOK, NEW r \in Requests, NEW q \in Requests, q # r, LinkSchema(r),
         Outstanding(q)
  PROVE  Outstanding(q)'
<1> USE DEF Goto, process, disk, client, batch, history
<1>1. pc'[q] = pc[q]
  BY DEF TypeOK, LinkSchema, GetClient, CatalogueFails, CreateClient, CreateFails, AssignClient,
     ReturnClient, LookupBatch, FetchBatch, StoreVector, KeepVectors, OpenForWriting,
     NothingToSave, WriteFile, EndSave, SaveFails, LookupQuery, FetchQuery, FetchRaises,
     StoreQuery, Link
<1>2. found'[q] = found[q] /\ missing'[q] = missing[q] /\ pairs'[q] = pairs[q]
  BY DEF TypeOK, LinkSchema, GetClient, CatalogueFails, CreateClient, CreateFails, AssignClient,
     ReturnClient, LookupBatch, FetchBatch, StoreVector, KeepVectors, OpenForWriting,
     NothingToSave, WriteFile, EndSave, SaveFails, LookupQuery, FetchQuery, FetchRaises,
     StoreQuery, Link
<1>3. failed'[q] = failed[q] /\ meant'[q] = meant[q]
  BY DEF TypeOK, LinkSchema, GetClient, CatalogueFails, CreateClient, CreateFails, AssignClient,
     ReturnClient, LookupBatch, FetchBatch, StoreVector, KeepVectors, OpenForWriting,
     NothingToSave, WriteFile, EndSave, SaveFails, LookupQuery, FetchQuery, FetchRaises,
     StoreQuery, Link
<1> QED BY <1>1, <1>2, <1>3 DEF Outstanding, Complete

(* The steps that find, miss and store nothing.                            *)
LEMMA OnwardSteps ==
  ASSUME TypeOK, NEW r \in Requests, Outstanding(r),
         \/ GetClient(r) \/ CatalogueFails(r) \/ CreateClient(r) \/ CreateFails(r)
         \/ AssignClient(r) \/ ReturnClient(r) \/ KeepVectors(r)
         \/ OpenForWriting(r) \/ NothingToSave(r) \/ WriteFile(r) \/ EndSave(r)
         \/ SaveFails(r) \/ LookupQuery(r) \/ FetchQuery(r) \/ FetchRaises(r) \/ StoreQuery(r)
  PROVE  Outstanding(r)'
<1> USE DEF Goto, process, disk, client, batch, history
<1>1. found'[r] = found[r] /\ failed'[r] = failed[r] /\ meant'[r] = meant[r]
  BY DEF TypeOK, GetClient, CatalogueFails, CreateClient, CreateFails, AssignClient,
     ReturnClient, KeepVectors, OpenForWriting, NothingToSave, WriteFile, EndSave, SaveFails,
     LookupQuery, FetchQuery, FetchRaises, StoreQuery
<1>2. /\ pc[r] # "linked" /\ pc'[r] \notin {"fetch", "store", "linked"}
      /\ pc'[r] \in Ranking => pc[r] \in Ranking
  <2>1. CASE GetClient(r) \/ CatalogueFails(r) \/ CreateClient(r) \/ CreateFails(r)
             \/ AssignClient(r) \/ ReturnClient(r)
    BY <2>1 DEF TypeOK, Ranking, GetClient, CatalogueFails, CreateClient, CreateFails,
       AssignClient, ReturnClient
  <2>2. CASE KeepVectors(r) \/ OpenForWriting(r) \/ NothingToSave(r) \/ WriteFile(r) \/ EndSave(r)
    BY <2>2 DEF TypeOK, Ranking, KeepVectors, OpenForWriting, NothingToSave, WriteFile, EndSave
  <2>3. CASE SaveFails(r) \/ LookupQuery(r) \/ FetchQuery(r) \/ FetchRaises(r) \/ StoreQuery(r)
    BY <2>3 DEF TypeOK, Ranking, SaveFails, LookupQuery, FetchQuery, FetchRaises, StoreQuery
  <2> QED BY <2>1, <2>2, <2>3
<1> QED BY <1>1, <1>2, Onward

LEMMA LinkOutstanding ==
  ASSUME TypeOK, NEW r \in Requests, Outstanding(r), Link(r)
  PROVE  Outstanding(r)'
<1>1. /\ found' = found /\ failed' = failed /\ pc'[r] = "linked"
      /\ meant'[r] = (pc[r] = "meaning") /\ pc[r] \in {"meaning", "words"}
  BY DEF TypeOK, Link, Goto, batch
<1>2. meant'[r] /\ ~failed[r] => Complete(r)
  BY <1>1 DEF Outstanding, Ranking
<1> QED BY <1>1, <1>2 DEF Outstanding, Complete, Ranking

LEMMA LookupOutstanding ==
  ASSUME IInv, NEW r \in Requests, Outstanding(r), LookupBatch(r)
  PROVE  Outstanding(r)'
<1> DEFINE c == mine[r]
           none == Missing(c) = << >>
<1>1. TypeOK /\ pc[r] = "lookup"
  BY DEF IInv, CacheIsTrue, LookupBatch
<1>2. /\ \A t \in Tables : found'[r][t] = cache[c][t]
      /\ missing'[r] = Missing(c)
      /\ pc'[r] = IF none THEN "vectors" ELSE "fetch"
      /\ meant'[r] = meant[r]
  BY <1>1 DEF TypeOK, LookupBatch, Cached, Goto, history
<1>3. ~meant'[r]
  BY <1>1, <1>2 DEF Outstanding
<1>4. ASSUME NEW t \in Tables, found'[r][t] = NoVector
      PROVE  \E i \in DOMAIN missing'[r] : missing'[r][i] = t
  BY <1>2, <1>4, AllMissing
<1>5. CASE none
  <2>1. pc'[r] = "vectors" /\ DOMAIN missing'[r] = {}
    BY <1>2, <1>5
  <2>2. \A t \in Tables : found'[r][t] # NoVector
    BY <1>4, <2>1
  <2> QED BY <1>3, <2>1, <2>2 DEF Outstanding, Complete
<1>6. CASE ~none
  <2>1. pc'[r] = "fetch"
    BY <1>2, <1>6
  <2> QED BY <1>3, <1>4, <2>1 DEF Outstanding, Ranking
<1> QED BY <1>5, <1>6

LEMMA FetchOutstanding ==
  ASSUME IInv, NEW r \in Requests, Outstanding(r), FetchBatch(r)
  PROVE  Outstanding(r)'
<1>1. TypeOK /\ pc[r] = "fetch" /\ missing[r] \in Seq(Tables)
  BY DEF IInv, CacheIsTrue, TypeOK, FetchBatch
<1>2. PICK vs \in Reply(missing[r]) :
        /\ pairs' = [pairs EXCEPT ![r] = Answered(missing[r], vs)]
        /\ failed' = [failed EXCEPT ![r] = Len(Answered(missing[r], vs)) < Len(missing[r])]
        /\ Goto(r, IF Answered(missing[r], vs) = << >> THEN "vectors" ELSE "store")
  BY DEF FetchBatch
<1> DEFINE answered == Answered(missing[r], vs)
<1> HIDE DEF answered
<1>3. /\ pairs'[r] = answered /\ found' = found /\ meant' = meant
      /\ failed'[r] = (Len(answered) < Len(missing[r]))
      /\ pc'[r] = IF answered = << >> THEN "vectors" ELSE "store"
  BY <1>1, <1>2 DEF TypeOK, FetchBatch, Goto, answered
<1>4. /\ ~meant[r]
      /\ \A t \in Tables : found[r][t] = NoVector => \E i \in DOMAIN missing[r] : missing[r][i] = t
  BY <1>1 DEF Outstanding
<1>5. ASSUME ~failed'[r], NEW t \in Tables, found[r][t] = NoVector
      PROVE  \E j \in DOMAIN answered : answered[j][1] = t
  <2>1. PICK i \in DOMAIN missing[r] : missing[r][i] = t
    BY <1>4, <1>5
  <2>2. ~(Len(Answered(missing[r], vs)) < Len(missing[r]))
    BY <1>3, <1>5 DEF answered
  <2>3. \E j \in DOMAIN Answered(missing[r], vs) : Answered(missing[r], vs)[j][1] = missing[r][i]
    BY <1>1, <2>2, AllAnswered
  <2> QED BY <2>1, <2>3 DEF answered
<1>6. CASE answered = << >>
  <2>1. pc'[r] = "vectors" /\ DOMAIN answered = {}
    BY <1>3, <1>6
  <2>2. ~failed'[r] => \A t \in Tables : found'[r][t] # NoVector
    BY <1>3, <1>5, <2>1
  <2> QED BY <1>3, <1>4, <2>1, <2>2 DEF Outstanding, Complete
<1>7. CASE answered # << >>
  <2>1. pc'[r] = "store"
    BY <1>3, <1>7
  <2> QED BY <1>3, <1>4, <1>5, <2>1 DEF Outstanding, Ranking
<1> QED BY <1>6, <1>7

LEMMA StoreOutstanding ==
  ASSUME IInv, NEW r \in Requests, Outstanding(r), StoreVector(r)
  PROVE  Outstanding(r)'
<1> DEFINE s == pairs[r]
           n == Len(s)
           t == s[1][1]
           v == s[1][2]
<1>1. /\ TypeOK /\ pc[r] = "store" /\ s \in Seq(Tables \X Texts) /\ s # << >>
      /\ found[r] \in [Tables -> Vectors]
  BY DEF IInv, CacheIsTrue, TypeOK, Paired, StoreVector
<1>2. /\ n \in Nat /\ n >= 1 /\ DOMAIN s = 1..n /\ s[1] \in Tables \X Texts /\ Head(s) = s[1]
      /\ Len(Tail(s)) = n - 1 /\ DOMAIN Tail(s) = 1..(n - 1)
      /\ \A i \in 1..(n - 1) : Tail(s)[i] = s[i + 1]
  BY <1>1
<1>3. t \in Tables /\ v # NoVector
  BY <1>2, LinkerAssumption
<1>4. /\ found' = [found EXCEPT ![r] = [found[r] EXCEPT ![t] = v]]
      /\ pairs'[r] = Tail(s) /\ failed' = failed /\ meant' = meant
      /\ pc'[r] = IF n = 1 THEN "vectors" ELSE "store"
  <2>1. /\ found' = [found EXCEPT ![r] = [found[r] EXCEPT ![Head(s)[1]] = Head(s)[2]]]
        /\ pairs' = [pairs EXCEPT ![r] = Tail(s)] /\ failed' = failed /\ meant' = meant
        /\ pc' = [pc EXCEPT ![r] = IF n = 1 THEN "vectors" ELSE "store"]
    BY DEF StoreVector, Goto, history
  <2>2. Head(s)[1] = t /\ Head(s)[2] = v
    BY <1>2
  <2> HIDE DEF s, n, t, v
  <2> QED BY <1>1, <2>1, <2>2 DEF TypeOK, s
<1> HIDE DEF s, v
<1>5. /\ found'[r][t] # NoVector
      /\ \A u \in Tables \ {t} : found'[r][u] = found[r][u]
  <2> HIDE DEF t
  <2>1. found'[r] = [found[r] EXCEPT ![t] = v]
    BY <1>1, <1>4 DEF TypeOK
  <2> QED BY <1>1, <1>3, <2>1
<1>6. /\ ~meant[r]
      /\ ~failed[r] =>
           \A u \in Tables : found[r][u] = NoVector => \E i \in DOMAIN s : s[i][1] = u
  BY <1>1 DEF Outstanding, s
<1>7. ASSUME ~failed[r], NEW u \in Tables, found'[r][u] = NoVector
      PROVE  \E i \in DOMAIN Tail(s) : Tail(s)[i][1] = u
  <2>1. u # t /\ found[r][u] = NoVector
    BY <1>5, <1>7
  <2>2. PICK i \in DOMAIN s : s[i][1] = u
    BY <1>6, <1>7, <2>1
  <2>3. i # 1
    BY <2>1, <2>2
  <2>4. i - 1 \in 1..(n - 1) /\ (i - 1) + 1 = i
    BY <1>2, <2>2, <2>3
  <2>5. Tail(s)[i - 1] = s[i]
    BY <1>2, <2>4
  <2> QED BY <1>2, <2>2, <2>4, <2>5, Zenon
<1> HIDE DEF t
<1>8. CASE n = 1
  <2>1. pc'[r] = "vectors" /\ DOMAIN Tail(s) = {}
    BY <1>2, <1>4, <1>8
  <2>2. ~failed[r] => \A u \in Tables : found'[r][u] # NoVector
    BY <1>7, <2>1
  <2> QED BY <1>4, <1>6, <2>1, <2>2 DEF Outstanding, Complete
<1>9. CASE n # 1
  <2>1. pc'[r] = "store"
    BY <1>4, <1>9
  <2> QED BY <1>4, <1>6, <1>7, <2>1 DEF Outstanding, Ranking
<1> QED BY <1>8, <1>9

LEMMA OutstandingAtFirst ==
  ASSUME pc = [r \in Requests |-> "start"], meant = [r \in Requests |-> FALSE]
  PROVE  \A r \in Requests : Outstanding(r)
BY DEF Outstanding, Ranking

LEMMA OutstandingNext ==
  ASSUME IInv, \A r \in Requests : Outstanding(r), [Next]_vars
  PROVE  \A r \in Requests : Outstanding(r)'
<1>0. TypeOK
  BY DEF IInv, CacheIsTrue
<1>1. ASSUME NEW r \in Requests, LinkSchema(r), NEW q \in Requests PROVE Outstanding(q)'
  <2>1. CASE q # r
    BY <1>0, <1>1, <2>1, OthersKeep
  <2>2. CASE q = r
    <3>1. Outstanding(r)
      OBVIOUS
    <3>2. Outstanding(r)'
      BY <1>0, <1>1, <3>1, OnwardSteps, LinkOutstanding, LookupOutstanding, FetchOutstanding,
         StoreOutstanding, Zenon DEF LinkSchema
    <3> QED BY <2>2, <3>2
  <2> QED BY <2>1, <2>2
<1>2. CASE Crash
  <2>1. pc' = [r \in Requests |-> "start"] /\ meant' = [r \in Requests |-> FALSE]
    BY <1>2 DEF Crash
  <2> QED BY <2>1 DEF Outstanding, Ranking
<1>3. CASE UNCHANGED vars
  BY <1>3 DEF vars, batch, history, Outstanding, Complete
<1> QED BY <1>1, <1>2, <1>3 DEF Next

(* Whatever other requests, the service and the disk do meanwhile, the     *)
(* prompt has the tables that score best and all their keys: rank and      *)
(* link_text of SchemaLinker (linker.py:134-193) over what embed_batch     *)
(* found or was given (embeddings.py:105-126).                             *)
THEOREM BestIsLinked == Spec => []BestSchemaIsLinked
<1> DEFINE I == IInv /\ \A r \in Requests : Outstanding(r)
<1>1. Init => I
  BY InitInv, OutstandingAtFirst DEF Init
<1>2. I /\ [Next]_vars => I'
  BY NextInv, OutstandingNext
<1>3. ASSUME I PROVE BestSchemaIsLinked
  <2>1. \A r \in Requests : \A t \in Tables : found[r][t] \in {t, NoVector}
    BY <1>3 DEF IInv, CacheIsTrue, VectorsAreOfTheirTexts
  <2>2. BestTablesAreLinked
    <3>1. SUFFICES ASSUME NEW r \in Requests, pc[r] = "linked", meant[r] => ~failed[r]
          PROVE  LET score(t) == Boost[t] * IF meant[r] THEN Cosine[Task[r]][t]
                                            ELSE WordScore(Task[r], t)
                     related == {t \in Tables : score(t) > 0}
                 IN  /\ LinkedTables(r) \subseteq related
                     /\ Cardinality(LinkedTables(r)) = Min({K, Cardinality(related)})
                     /\ \A t \in LinkedTables(r), u \in related \ LinkedTables(r) :
                          score(t) >= score(u)
      BY Zenon DEF BestTablesAreLinked
    <3>2. meant[r] => Complete(r)
      BY <1>3, <3>1 DEF Outstanding
    <3> QED BY <2>1, <3>2, GivenTheBest, Zenon
  <2>3. ForeignKeysAreShown
    <3>1. SUFFICES ASSUME NEW r \in Requests, NEW i \in DOMAIN Schema(r)
          PROVE  LET block == Schema(r)[i]
                     keys == {c.name : c \in {c \in ToSet(Columns[block.table]) :
                                                c.ref # NoTable /\ ~c.noise}}
                     shown == {n \in DOMAIN block.columns : block.columns[n] \in keys}
                 IN  /\ keys \subseteq ToSet(block.columns)
                     /\ Cardinality(shown) = Cardinality(keys)
                     /\ Len(block.columns) <= MaxCols + Cardinality(shown)
      BY Zenon DEF ForeignKeysAreShown
    <3>2. PICK t \in Tables : Schema(r)[i] = Block(t)
      BY <2>1, BlocksAreOfTables, Zenon
    <3>3. Block(t).table = t
      BY KeysAreShown, Zenon
    <3> QED BY <3>2, <3>3, KeysAreShown, Zenon
  <2> QED BY <2>2, <2>3 DEF BestSchemaIsLinked
<1> QED BY <1>1, <1>2, <1>3, PTL DEF Spec
=============================================================================
