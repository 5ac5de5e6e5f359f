----------------------- MODULE ActorDirectoryProofs -----------------------
(* Proofs about ActorDirectory, for any number of requests, keys and actors   *)
(* and every choice of drivers.                                               *)
EXTENDS ActorDirectory, FiniteSetTheorems, TLAPS

USE ConstantsAssumption DEF ConstantsAssumption

(* Abbreviations that every step below needs expanded.                        *)
USE DEF Goto, Fail, Fault, Unresolved, Resolved, Stages, Named, Actors, Told,
        Failure, directory, request

(* A drawn id is new, and what is read back from tags is a key.               *)
LEMMA DrawnIsFresh == Fresh # {} => Drawn \in Ids /\ store[Drawn] = "none"
<1>1. Fresh # {} => Drawn \in Fresh
  BY DEF Drawn
<1> QED
  BY <1>1 DEF Fresh

LEMMA TagsNameKeys ==
    ASSUME NEW k \in Keys
    PROVE  deserializeKeyFromTag(k) \in Keys /\ Mistaken(k) \subseteq Keys
BY DEF deserializeKeyFromTag, Mistaken

(* What a request does of its own, apart from creation and loading.           *)
Arrives(r) ==
    \E e \in Endpoints \cup Methods, stage \in {"authenticating", "failed"} : Accept(r, e, stage)

Queries(r) ==
    \E granted \in SUBSET Intents :
        ("create" \in granted => MayCreate(r)) /\ queryActor(r, granted)

(* The steps of the handlers, of the inline client and of the drivers.        *)
LEMMA Steps ==
    ASSUME Next
    PROVE  \/ \E r \in Requests :
                 \/ Arrives(r) \/ sendHttpMessage(r) \/ Denied(r) \/ Queries(r)
                 \/ createActor(r) \/ MemoryCreate(r) \/ RedisCreate(r)
                 \/ FileSystemCreate(r) \/ saveActorState(r)
                 \/ initialize(r) \/ CloudflareCreate(r)
                 \/ RivetCreate(r) \/ RivetInitialize(r) \/ RivetDestroy(r)
                 \/ Answered(r) \/ getActor(r) \/ loadActor(r) \/ getActorId(r)
                 \/ LoadEnds(r) \/ LoadThrows(r) \/ Serve(r)
           \/ \E a \in Actors : startActor(a) \/ ActorRestarts(a)
           \/ ProcessRestarts
<1>1. ASSUME NEW r \in Requests, createManagerRouter(r)
      PROVE  \/ Arrives(r) \/ sendHttpMessage(r) \/ Denied(r) \/ Queries(r)
             \/ Answered(r) \/ getActor(r) \/ loadActor(r) \/ getActorId(r)
  <2>1. ASSUME NEW e \in Endpoints,
               Accept(r, e, "authenticating") \/ Accept(r, e, "failed")
        PROVE  Arrives(r)
    BY <2>1 DEF Arrives
  <2>2. ASSUME NEW asks, authenticateEndpoint(r, asks) PROVE Denied(r) \/ Queries(r)
    BY <2>2 DEF authenticateEndpoint, Queries, MayCreate
  <2> QED
    BY <1>1, <2>1, <2>2
    DEF createManagerRouter, ConnectRoutes, CallRoutes, handleSseConnectRequest,
        handleWebSocketConnectRequest, handleActionRequest, handleResolveRequest,
        handleMessageRequest, Route, Endpoints
<1>2. ASSUME NEW r \in Requests, createInlineClientDriver(r)
      PROVE  \/ Arrives(r) \/ Queries(r)
             \/ Answered(r) \/ getActor(r) \/ loadActor(r) \/ getActorId(r)
  BY <1>2 DEF createInlineClientDriver, inlineAction, inlineQueryActor, resolveActorId,
              Arrives, Queries, MayCreate, Methods, Route
<1> QED
  BY <1>1, <1>2 DEF Next, Step, Create, Load

(* The driver is chosen once, and a key in dispute stays in dispute.          *)
LEMMA Lasting ==
    ASSUME [Next]_vars
    PROVE  driver' = driver /\ disputed \subseteq disputed'
<1>1. ASSUME NEW r \in Requests,
             \/ Arrives(r) \/ sendHttpMessage(r) \/ Denied(r) \/ MemoryCreate(r) \/ RedisCreate(r)
             \/ FileSystemCreate(r) \/ saveActorState(r) \/ initialize(r) \/ CloudflareCreate(r)
             \/ RivetInitialize(r) \/ RivetDestroy(r) \/ Answered(r) \/ getActor(r) \/ loadActor(r)
             \/ getActorId(r) \/ LoadEnds(r) \/ LoadThrows(r) \/ Serve(r)
      PROVE  UNCHANGED <<driver, disputed>>
  BY <1>1
  DEF Arrives, Accept, sendHttpMessage, Denied, MemoryCreate, RedisCreate, FileSystemCreate,
      saveActorState, initialize, CloudflareCreate, RivetInitialize, RivetDestroy, Answered,
      getActor, loadActor, getActorId, LoadEnds, LoadThrows, Serve
<1>2. ASSUME NEW r \in Requests, Queries(r) \/ createActor(r) \/ RivetCreate(r)
      PROVE  driver' = driver /\ disputed \subseteq disputed'
  BY <1>2
  DEF Queries, queryActor, getForId, Looked, get, getOrCreate, create, createActor, RivetCreate,
      Disputes
<1>3. ASSUME NEW a \in Actors, startActor(a) \/ ActorRestarts(a)
      PROVE  UNCHANGED <<driver, disputed>>
  BY <1>3 DEF startActor, ActorRestarts
<1>4. ASSUME ProcessRestarts PROVE driver' = driver /\ disputed \subseteq disputed'
  BY <1>4 DEF ProcessRestarts, FileSystemRestarts, RivetManagerRestarts, Disputes
<1> QED
  BY <1>1, <1>2, <1>3, <1>4, Steps DEF vars

(* The initial state satisfies the invariants. *)
LEMMA InitInv == Init => IInv /\ FoundByKey /\ UsedIsIndexed
<1> SUFFICES ASSUME Init PROVE IInv /\ FoundByKey /\ UsedIsIndexed
  OBVIOUS
<1>1. TypeOK /\ StagesFit /\ NamedByKey
  BY DEF Init, TypeOK, StagesFit, NamedByKey
<1>2. OneLoader
  BY DEF Init, OneLoader, Loaders
<1>3. FoundByKey
  BY DEF Init, FoundByKey, KnownAs, KnownExist, KnownApart, KnownOnce, KnownFound,
         InsertsAlone, InitializesItsOwn
<1>4. UsedIsIndexed
  BY DEF Init, UsedIsIndexed
<1> QED
  BY <1>1, <1>2, <1>3, <1>4 DEF IInv

-----------------------------------------------------------------------------
(* Stages, and the drivers that derive the id from the key                    *)

StagesInv == TypeOK /\ StagesFit /\ NamedByKey

(* A request only moves along the stages its driver has, holding what they    *)
(* require.                                                                   *)
LEMMA StagesStep == StagesInv /\ [Next]_vars => StagesInv'
<1> SUFFICES ASSUME StagesInv, [Next]_vars PROVE StagesInv'
  OBVIOUS
<1> USE DEF StagesInv, TypeOK, StagesFit, NamedByKey
<1>1. ASSUME NEW r \in Requests, Arrives(r) PROVE StagesInv'
  BY <1>1 DEF Arrives, Accept, Endpoints, Methods
<1>2. ASSUME NEW r \in Requests, sendHttpMessage(r) PROVE StagesInv'
  BY <1>2 DEF sendHttpMessage
<1>3. ASSUME NEW r \in Requests, Denied(r) PROVE StagesInv'
  BY <1>3 DEF Denied
<1>4. ASSUME NEW r \in Requests, Queries(r) PROVE StagesInv'
  BY <1>4, TagsNameKeys DEF Queries, queryActor, getForId, Looked, get, getOrCreate, create,
        Found, CacheAnswer, Disputes, getWithKey, MemoryLookup, RedisLookup,
        FileSystemLookup, CloudflareLookup, RivetLookup, ById, HeldIds
<1>5. ASSUME NEW r \in Requests, createActor(r) PROVE StagesInv'
  BY <1>5, TagsNameKeys DEF createActor, CacheAnswer, Disputes, MissedOne, getWithKey, MemoryLookup,
        RedisLookup, FileSystemLookup, CloudflareLookup, RivetLookup
<1>6. ASSUME NEW r \in Requests, MemoryCreate(r) PROVE StagesInv'
  BY <1>6, DrawnIsFresh DEF MemoryCreate, Becomes
<1>7. ASSUME NEW r \in Requests, RedisCreate(r) PROVE StagesInv'
  BY <1>7, DrawnIsFresh DEF RedisCreate, Becomes
<1>8. ASSUME NEW r \in Requests, FileSystemCreate(r) PROVE StagesInv'
  BY <1>8 DEF FileSystemCreate, Becomes
<1>9. ASSUME NEW r \in Requests, saveActorState(r) PROVE StagesInv'
  BY <1>9 DEF saveActorState
<1>10. ASSUME NEW r \in Requests, initialize(r) PROVE StagesInv'
  BY <1>10 DEF initialize
<1>11. ASSUME NEW r \in Requests, CloudflareCreate(r) PROVE StagesInv'
  BY <1>11 DEF CloudflareCreate
<1>12. ASSUME NEW r \in Requests, RivetCreate(r) PROVE StagesInv'
  BY <1>12, DrawnIsFresh, TagsNameKeys, SMTT(30) DEF RivetCreate, Becomes, populateCache, Disputes
<1>13. ASSUME NEW r \in Requests, RivetInitialize(r) PROVE StagesInv'
  BY <1>13 DEF RivetInitialize
<1>14. ASSUME NEW r \in Requests, RivetDestroy(r) PROVE StagesInv'
  BY <1>14 DEF RivetDestroy, Others
<1>15. ASSUME NEW r \in Requests, Answered(r) PROVE StagesInv'
  BY <1>15 DEF Answered
<1>16. ASSUME NEW r \in Requests, getActor(r) PROVE StagesInv'
  BY <1>16 DEF getActor, Sent
<1>17. ASSUME NEW r \in Requests, loadActor(r) PROVE StagesInv'
  BY <1>17 DEF loadActor, Sent
<1>18. ASSUME NEW r \in Requests, getActorId(r) PROVE StagesInv'
  BY <1>18 DEF getActorId, Sent
<1>19. ASSUME NEW r \in Requests, LoadEnds(r) PROVE StagesInv'
  BY <1>19 DEF LoadEnds, Started
<1>20. ASSUME NEW r \in Requests, LoadThrows(r) PROVE StagesInv'
  BY <1>20 DEF LoadThrows, Started
<1>21. ASSUME NEW r \in Requests, Serve(r) PROVE StagesInv'
  BY <1>21 DEF Serve, NotReturned
<1>22. ASSUME NEW a \in Actors, startActor(a) PROVE StagesInv'
  BY <1>22 DEF startActor, Started
<1>23. ASSUME NEW a \in Actors, ActorRestarts(a) PROVE StagesInv'
  BY <1>23 DEF ActorRestarts, Restarted
<1>24. ASSUME ProcessRestarts PROVE StagesInv'
  BY <1>24 DEF ProcessRestarts, FileSystemRestarts, RivetManagerRestarts,
        Torn, Disputes, Restarted
<1>25. CASE UNCHANGED vars
  BY <1>25 DEF vars
<1> QED
  BY <1>1, <1>2, <1>3, <1>4, <1>5, <1>6, <1>7, <1>8, <1>9, <1>10, <1>11,
        <1>12, <1>13, <1>14, <1>15, <1>16, <1>17, <1>18, <1>19, <1>20, <1>21,
        <1>22, <1>23, <1>24, <1>25, Steps

-----------------------------------------------------------------------------
(* The loader of an actor                                                     *)

(* The request that finds no placeholder leaves one and is the only loader    *)
(* until the load settles; a restart takes placeholder and loaders together.  *)
LEMMA LoaderStep == IInv /\ [Next]_vars => OneLoader'
<1> SUFFICES ASSUME IInv, [Next]_vars PROVE OneLoader'
  OBVIOUS
<1> USE DEF IInv, TypeOK, StagesFit, OneLoader, Loaders
<1>1. ASSUME NEW r \in Requests, Arrives(r) PROVE OneLoader'
  BY <1>1 DEF Arrives, Accept
<1>2. ASSUME NEW r \in Requests, sendHttpMessage(r) PROVE OneLoader'
  BY <1>2 DEF sendHttpMessage
<1>3. ASSUME NEW r \in Requests, Queries(r) PROVE OneLoader'
  BY <1>3 DEF Queries, queryActor, getForId, Looked, get, getOrCreate, create,
        Found, CacheAnswer, Disputes, Mistaken, getWithKey, MemoryLookup, RedisLookup,
        FileSystemLookup, CloudflareLookup, RivetLookup, ById, HeldIds
<1>4. ASSUME NEW r \in Requests, initialize(r) PROVE OneLoader'
  BY <1>4 DEF initialize
<1>5. ASSUME NEW r \in Requests, RivetInitialize(r) PROVE OneLoader'
  BY <1>5 DEF RivetInitialize
<1>6. ASSUME NEW r \in Requests, getActor(r) PROVE OneLoader'
  BY <1>6 DEF getActor, Sent
<1>7. ASSUME NEW r \in Requests, loadActor(r) PROVE OneLoader'
  BY <1>7 DEF loadActor, Sent
<1>8. ASSUME NEW r \in Requests, LoadEnds(r) PROVE OneLoader'
  BY <1>8 DEF LoadEnds, Started
<1>9. ASSUME NEW r \in Requests, LoadThrows(r) PROVE OneLoader'
  BY <1>9 DEF LoadThrows, Started
<1>10. ASSUME NEW a \in Actors, startActor(a) PROVE OneLoader'
  BY <1>10 DEF startActor, Started
<1>11. ASSUME NEW a \in Actors, ActorRestarts(a) PROVE OneLoader'
  BY <1>11 DEF ActorRestarts, Restarted
<1>12. ASSUME ProcessRestarts PROVE OneLoader'
  BY <1>12 DEF ProcessRestarts, FileSystemRestarts, RivetManagerRestarts,
        Torn, Disputes, Restarted
<1>13. ASSUME NEW r \in Requests,
             Denied(r) \/ createActor(r) \/ MemoryCreate(r) \/ RedisCreate(r)
              \/ FileSystemCreate(r) \/ saveActorState(r)
              \/ CloudflareCreate(r) \/ RivetCreate(r) \/ RivetDestroy(r)
              \/ Answered(r) \/ getActorId(r) \/ Serve(r)
      PROVE  OneLoader'
  BY <1>13, SMTT(30) DEF Denied, createActor, CacheAnswer, Disputes, Mistaken, MissedOne,
     getWithKey, MemoryLookup,
        RedisLookup, FileSystemLookup, CloudflareLookup, RivetLookup,
        MemoryCreate, Becomes, RedisCreate, FileSystemCreate,
        saveActorState, CloudflareCreate, RivetCreate, RivetDestroy, Others,
        Answered, getActorId, Sent, Serve, NotReturned
<1>14. CASE UNCHANGED vars
  BY <1>14 DEF vars
<1> QED
  BY <1>1, <1>2, <1>3, <1>4, <1>5, <1>6, <1>7, <1>8, <1>9, <1>10, <1>11,
        <1>12, <1>13, <1>14, Steps

(* The inductive invariant is one. *)
LEMMA InvStep == IInv /\ [Next]_vars => IInv'
BY StagesStep, LoaderStep DEF IInv, StagesInv

-----------------------------------------------------------------------------
(* The drivers with random ids                                                *)

(* A step that moves no actor to another name, and nobody to a creation.      *)
LEMMA SameNames ==
    ASSUME IInv, FoundByKey, UNCHANGED <<driver, key, id, owner, index, cache, disputed>>,
           \A a \in Actors : store[a] # "none" => store'[a] # "none",
           \A r \in Requests : pc'[r] \in {"inserting", "initializing"} => pc'[r] = pc[r]
    PROVE  FoundByKey'
<1>1. \A k \in Keys, a \in Actors : KnownAs(k, a)' <=> KnownAs(k, a)
  BY DEF KnownAs
<1>2. driver \notin Named => KnownExist' /\ KnownApart' /\ KnownOnce' /\ KnownFound'
  BY <1>1 DEF FoundByKey, KnownExist, KnownApart, KnownOnce, KnownFound
<1>3. driver \notin Named => InsertsAlone'
  BY <1>1 DEF FoundByKey, InsertsAlone, IInv, TypeOK, StagesFit
<1>4. driver \notin Named => InitializesItsOwn'
  BY DEF FoundByKey, InitializesItsOwn
<1> QED
  BY <1>2, <1>3, <1>4 DEF FoundByKey

(* A step by which actors are known by fewer names.                           *)
LEMMA FewerNames ==
    ASSUME IInv, IInv', FoundByKey, UNCHANGED <<driver, disputed>>,
           \A k \in Keys, a \in Actors : KnownAs(k, a)' => KnownAs(k, a),
           \A k \in Keys : index'[k] = index[k] /\ cache'[k] = cache[k],
           owner' = owner, store' = store,
           \A r \in Requests : pc'[r] \in {"inserting", "initializing"} =>
                pc'[r] = pc[r] /\ key'[r] = key[r] /\ id'[r] = id[r]
    PROVE  FoundByKey'
BY DEF FoundByKey, KnownExist, KnownApart, KnownOnce, KnownFound, InsertsAlone,
       InitializesItsOwn, IInv, TypeOK, StagesFit

(* What a lookup of random ids returns is known for the key.                  *)
LEMMA LookupsKnow ==
    ASSUME IInv, FoundByKey, driver \notin Named, NEW k \in Keys, NEW a \in getWithKey(k)
    PROVE  /\ a \in Actors \cup {None}
           /\ a # None => KnownAs(k, a)
           /\ a = None => index[k] = None /\ cache[k] = None
BY DEF IInv, TypeOK, FoundByKey, getWithKey, MemoryLookup, RedisLookup, RivetLookup, KnownAs

(* The cache learns that a, known for k, is the actor of k, or of the key     *)
(* that k is mistaken for.                                                    *)
LEMMA CachesAnswer ==
    ASSUME IInv, IInv', FoundByKey, driver \notin Named,
           NEW k \in Keys, NEW a \in Actors, KnownAs(k, a),
           NEW r \in Requests, key[r] = k, pc[r] \in {"authenticating", "creating"},
           CacheAnswer(k, a), Disputes(Mistaken(k)),
           UNCHANGED <<driver, key, owner, index, store>>,
           \A s \in Requests \ {r} : pc'[s] = pc[s] /\ id'[s] = id[s],
           id'[r] \in {None, a}, pc'[r] \notin {"inserting", "initializing"}
    PROVE  FoundByKey'
<1> DEFINE l == deserializeKeyFromTag(k)
<1> USE DEF IInv, TypeOK
<1>1. l \in Keys /\ Mistaken(k) \subseteq Keys /\ disputed' = disputed \cup Mistaken(k)
  BY TagsNameKeys DEF Disputes
<1>2. l # k /\ driver = "rivet" => Mistaken(k) = {k, l}
  BY DEF Mistaken
<1>3. cache' = IF driver = "rivet" THEN [cache EXCEPT ![l] = a, ![k] = a] ELSE cache
  BY DEF CacheAnswer
<1> HIDE DEF l
<1>4. ASSUME NEW m \in Keys, NEW b \in Actors, KnownAs(m, b)'
      PROVE  KnownAs(m, b) \/ (b = a /\ m = l /\ driver = "rivet")
  BY <1>1, <1>3, <1>4 DEF KnownAs
<1>5. ASSUME NEW m \in Keys \ disputed', NEW b \in Actors, KnownAs(m, b)'
      PROVE  KnownAs(m, b)
  BY <1>1, <1>2, <1>4, <1>5
<1>6. KnownExist' /\ KnownOnce'
  BY <1>1, <1>4, <1>5 DEF FoundByKey, KnownExist, KnownOnce
<1>7. KnownApart'
  BY <1>1, <1>2, <1>4 DEF FoundByKey, KnownApart
<1>8. KnownFound'
  BY <1>1, <1>3, <1>5 DEF FoundByKey, KnownFound
<1>9. InsertsAlone'
  <2>1. \A s \in Requests : pc'[s] = "inserting" =>
            s # r /\ pc[s] = "inserting" /\ key'[s] = key[s] /\ key[s] \in Keys
    BY DEF StagesFit
  <2> QED
    BY <1>1, <1>5, <2>1 DEF FoundByKey, InsertsAlone
<1>10. InitializesItsOwn'
  <2>1. ASSUME NEW s \in Requests, pc'[s] = "initializing"
        PROVE  s # r /\ pc[s] = "initializing" /\ id'[s] = id[s] /\ key'[s] = key[s]
    BY <2>1
  <2>2. ASSUME NEW s \in Requests, pc'[s] = "initializing", key[s] \notin disputed'
        PROVE  cache'[key[s]] = id'[s]
    <3>1. key[s] \notin disputed /\ cache[key[s]] = id[s] /\ key[s] \in Keys /\ id[s] \in Actors
      BY <1>1, <2>1, <2>2 DEF FoundByKey, InitializesItsOwn, StagesFit
    <3>2. CASE key[s] = k
      BY <2>1, <2>2, <3>1, <3>2, <1>3 DEF FoundByKey, KnownOnce, KnownAs
    <3>3. CASE key[s] # k
      BY <2>1, <2>2, <3>1, <3>3, <1>1, <1>2, <1>3
    <3> QED
      BY <3>2, <3>3
  <2> QED
    BY <2>1, <2>2 DEF FoundByKey, InitializesItsOwn
<1> QED
  BY <1>3, <1>6, <1>7, <1>8, <1>9, <1>10 DEF FoundByKey

(* Request r creates a, which from now on is known by the names in ks: the    *)
(* key of r, and if that is in dispute maybe others that are.                 *)
Creating(r, a, ks) ==
    /\ driver \notin Named /\ pc[r] = "inserting" /\ store[a] = "none"
    /\ key[r] \in ks /\ (ks \subseteq disputed' \/ ks = {key[r]})
    /\ disputed \subseteq disputed' /\ disputed' \subseteq Keys
    /\ driver' = driver /\ key' = key
    /\ id' = [id EXCEPT ![r] = a] /\ owner' = [owner EXCEPT ![a] = key[r]]
    /\ store'[a] # "none" /\ \A b \in Actors \ {a} : store'[b] = store[b]
    /\ \A k \in Keys : index'[k] = index[k] \/ (k = key[r] /\ index'[k] = a)
    /\ \A k \in Keys : cache'[k] = cache[k] \/ (k \in ks /\ cache'[k] = a)
    /\ index'[key[r]] # None /\ (driver # "rivet" => cache' = cache)
    /\ \A s \in Requests \ {r} : pc'[s] = pc[s]
    /\ pc'[r] # "inserting"
    /\ pc'[r] = "initializing" => key[r] \in disputed' \/ cache'[key[r]] = a

(* An actor that is created is known by no name before, and by that of its    *)
(* request afterwards; the request was alone, unless its key is in dispute.   *)
LEMMA Creates ==
    ASSUME IInv, IInv', FoundByKey, NEW r \in Requests, NEW a \in Ids, NEW ks \in SUBSET Keys,
           Creating(r, a, ks)
    PROVE  FoundByKey'
<1> USE DEF Creating
<1> USE DEF IInv, TypeOK
<1>1. a \in Actors /\ key[r] \in Keys /\ \A k \in Keys : ~KnownAs(k, a)
  BY DEF FoundByKey, KnownExist, StagesFit
<1>2. ASSUME NEW k \in Keys, NEW b \in Actors, KnownAs(k, b)'
      PROVE  (KnownAs(k, b) /\ b # a) \/ (b = a /\ k \in ks)
  BY <1>1, <1>2 DEF KnownAs
<1>3. ASSUME NEW k \in Keys \ disputed'
      PROVE  /\ k \notin disputed
             /\ k \in ks => k = key[r] /\ \A b \in Actors : ~KnownAs(k, b)
  BY <1>3 DEF FoundByKey, InsertsAlone
<1>4. KnownExist'
  BY <1>1, <1>2 DEF FoundByKey, KnownExist
<1>5. KnownApart'
  BY <1>2 DEF FoundByKey, KnownApart
<1>6. KnownOnce'
  BY <1>2, <1>3 DEF FoundByKey, KnownOnce
<1>7. KnownFound'
  <2> SUFFICES ASSUME NEW k \in Keys \ disputed', NEW b \in Actors, KnownAs(k, b)'
               PROVE  index'[k] # None \/ cache'[k] # None
    BY DEF KnownFound
  <2>1. CASE k = key[r]
    BY <2>1
  <2>2. CASE k # key[r]
    <3>1. KnownAs(k, b) /\ k \notin disputed
      BY <1>2, <1>3, <2>2
    <3> QED
      BY <3>1, ConstantsAssumption DEF FoundByKey, KnownFound
  <2> QED
    BY <2>1, <2>2
<1>8. InsertsAlone'
  <2> SUFFICES ASSUME NEW s \in Requests, pc'[s] = "inserting", key[s] \notin disputed'
               PROVE  /\ \A b \in Actors : ~KnownAs(key[s], b)'
                      /\ \A u \in Requests : pc'[u] = "inserting" /\ key[u] = key[s] => u = s
    BY DEF InsertsAlone
  <2>1. s # r /\ pc[s] = "inserting" /\ key[s] \notin disputed /\ key[s] \in Keys
    BY DEF StagesFit
  <2>2. key[s] # key[r]
    BY <2>1 DEF FoundByKey, InsertsAlone
  <2> QED
    BY <1>2, <1>3, <2>1, <2>2 DEF FoundByKey, InsertsAlone
<1>9. InitializesItsOwn'
  <2>1. ASSUME NEW s \in Requests, s # r, pc'[s] = "initializing"
        PROVE  /\ pc[s] = "initializing" /\ id'[s] = id[s] /\ id[s] \in Actors /\ key[s] \in Keys
               /\ KnownAs(key[s], id[s]) /\ id[s] # a
    BY <1>1, <2>1 DEF StagesFit, KnownAs
  <2>2. ASSUME NEW s \in Requests, s # r, pc'[s] = "initializing", key[s] \notin disputed'
        PROVE  cache'[key[s]] = id'[s]
    BY <1>3, <2>1, <2>2 DEF FoundByKey, InitializesItsOwn
  <2> QED
    BY <1>1, <2>1, <2>2 DEF FoundByKey, InitializesItsOwn
<1> QED
  BY <1>4, <1>5, <1>6, <1>7, <1>8, <1>9 DEF FoundByKey

(* An actor is created for a key only while no lookup of the key finds one,   *)
(* and if two requests are about to create one the key is in dispute.         *)
LEMMA FoundByKeyStep == IInv /\ FoundByKey /\ [Next]_vars => FoundByKey'
<1> SUFFICES ASSUME IInv, FoundByKey, [Next]_vars PROVE FoundByKey'
  OBVIOUS
<1>0. IInv'
  BY InvStep
<1> USE DEF IInv, TypeOK
<1>1. CASE driver \in Named /\ driver' = driver
  BY <1>1 DEF FoundByKey
<1>2. ASSUME NEW r \in Requests, Arrives(r) \/ sendHttpMessage(r) PROVE FoundByKey'
  <2>1. \A k \in Keys, a \in Actors : KnownAs(k, a)' => KnownAs(k, a)
    BY <1>2 DEF Arrives, Accept, sendHttpMessage, KnownAs, StagesFit
  <2> QED
    BY <1>0, <1>2, <2>1, FewerNames DEF Arrives, Accept, sendHttpMessage
<1>3. ASSUME NEW r \in Requests, Queries(r), driver \notin Named PROVE FoundByKey'
  <2>1. pc[r] = "authenticating" /\ key[r] \in Keys /\ UNCHANGED <<driver, key, owner, index, store>>
    BY <1>3 DEF Queries, queryActor, StagesFit
  <2>2. CASE getForId(r)
    <3>1. PICK a \in ById(key[r]) : Found(r, a, Failure(r))
      BY <2>2 DEF getForId
    <3>2. a = None \/ \E s \in Requests : key[s] = key[r] /\ id[s] = a
      BY <2>1, <3>1 DEF ById, HeldIds
    <3>3. \A k \in Keys, b \in Actors : KnownAs(k, b)' => KnownAs(k, b)
      BY <2>1, <2>2, <3>1, <3>2 DEF getForId, Found, KnownAs
    <3> QED
      BY <1>0, <2>1, <2>2, <3>1, <3>3, FewerNames DEF getForId, Found
  <2>3. CASE create(r)
    BY <2>1, <2>3, SameNames DEF create
  <2>4. ASSUME NEW otherwise \in {"failed", "refused", "creating"}, Looked(r, otherwise)
        PROVE  FoundByKey'
    <3>1. PICK a \in getWithKey(key[r]) :
               /\ Found(r, a, otherwise) /\ CacheAnswer(key[r], a)
               /\ Disputes(IF a = None THEN {} ELSE Mistaken(key[r]))
      BY <2>4 DEF Looked
    <3>2. /\ a \in Actors \cup {None}
          /\ a # None => KnownAs(key[r], a)
      BY <1>3, <2>1, <3>1, LookupsKnow
    <3>3. CASE a = None
      <4>1. UNCHANGED <<id, cache, disputed>>
        BY <2>1, <3>1, <3>3 DEF Found, CacheAnswer, Disputes, StagesFit
      <4> QED
        BY <2>1, <3>1, <3>3, <4>1, SameNames DEF Found
    <3>4. CASE a # None
      BY <1>0, <1>3, <2>1, <3>1, <3>2, <3>4, CachesAnswer DEF Found, StagesFit
    <3> QED
      BY <3>3, <3>4
  <2> QED
    BY <1>3, <2>2, <2>3, <2>4 DEF Queries, queryActor, get, getOrCreate
<1>4. ASSUME NEW r \in Requests, createActor(r), driver \notin Named PROVE FoundByKey'
  <2>1. /\ pc[r] = "creating" /\ key[r] \in Keys /\ id[r] = None
        /\ UNCHANGED <<driver, key, id, owner, index, store>>
    BY <1>4 DEF createActor, StagesFit
  <2>2. PICK a \in getWithKey(key[r]) :
             /\ Goto(r, IF a = None THEN "inserting" ELSE Failure(r))
             /\ CacheAnswer(key[r], a)
             /\ Disputes(IF a # None THEN Mistaken(key[r])
                         ELSE IF MissedOne(r) THEN {key[r]} ELSE {})
    BY <1>4 DEF createActor
  <2>3. /\ a \in Actors \cup {None}
        /\ a # None => KnownAs(key[r], a)
        /\ a = None => index[key[r]] = None /\ cache[key[r]] = None
    BY <1>4, <2>1, <2>2, LookupsKnow
  <2>4. CASE a # None
    BY <1>0, <1>4, <2>1, <2>2, <2>3, <2>4, CachesAnswer
  <2>5. CASE a = None
    <3>1. /\ cache' = cache /\ disputed \subseteq disputed' /\ disputed' \subseteq Keys
          /\ key[r] \in disputed' \/ ~MissedOne(r)
      BY <2>1, <2>2, <2>5 DEF CacheAnswer, Disputes
    <3>2. \A k \in Keys, b \in Actors : KnownAs(k, b)' <=> KnownAs(k, b)
      BY <2>1, <3>1 DEF KnownAs
    <3>3. KnownExist' /\ KnownApart' /\ KnownOnce' /\ KnownFound'
      BY <1>4, <2>1, <3>1, <3>2 DEF FoundByKey, KnownExist, KnownApart, KnownOnce, KnownFound
    <3>4. InsertsAlone'
      <4> SUFFICES ASSUME NEW s \in Requests, pc'[s] = "inserting", key[s] \notin disputed'
                   PROVE  /\ \A b \in Actors : ~KnownAs(key[s], b)
                          /\ \A u \in Requests :
                                pc'[u] = "inserting" /\ key[u] = key[s] => u = s
        BY <1>0, <2>1, <3>2 DEF InsertsAlone, StagesFit
      <4>1. pc' = [pc EXCEPT ![r] = "inserting"]
        BY <2>2, <2>5
      <4>2. CASE key[s] = key[r]
        <5>1. \A u \in Requests \ {r} : pc[u] = "inserting" => key[u] # key[r]
          BY <3>1, <4>2 DEF MissedOne
        <5>2. \A b \in Actors : ~KnownAs(key[r], b)
          BY <1>4, <2>1, <2>3, <2>5, <3>1, <4>2 DEF FoundByKey, KnownFound
        <5> QED
          BY <4>1, <4>2, <5>1, <5>2
      <4>3. CASE key[s] # key[r]
        BY <1>4, <3>1, <4>1, <4>3 DEF FoundByKey, InsertsAlone
      <4> QED
        BY <4>2, <4>3
    <3>5. InitializesItsOwn'
      <4>1. \A s \in Requests : pc'[s] = "initializing" => pc[s] = "initializing"
        BY <2>2, <2>5
      <4> QED
        BY <1>4, <2>1, <3>1, <4>1 DEF FoundByKey, InitializesItsOwn
    <3> QED
      BY <1>4, <2>1, <3>1, <3>3, <3>4, <3>5 DEF FoundByKey
  <2> QED
    BY <2>4, <2>5
<1>5. ASSUME NEW r \in Requests, MemoryCreate(r) \/ RedisCreate(r) PROVE FoundByKey'
  <2>1. PICK a \in Ids : a = Drawn /\ store[a] = "none"
    BY <1>5, DrawnIsFresh DEF MemoryCreate, RedisCreate
  <2>2. key[r] \in Keys /\ pc[r] = "inserting"
    BY <1>5 DEF MemoryCreate, RedisCreate, StagesFit
  <2>3. PICK ks \in SUBSET Keys : ks = {key[r]}
    BY <2>2
  <2> QED
    <3>1. /\ driver \notin Named /\ pc' = [pc EXCEPT ![r] = "resolved"]
          /\ id' = [id EXCEPT ![r] = a] /\ owner' = [owner EXCEPT ![a] = key[r]]
          /\ store' = [store EXCEPT ![a] = "empty"]
          /\ UNCHANGED <<driver, key, cache, disputed>>
      BY <1>5, <2>1 DEF MemoryCreate, RedisCreate, Becomes
    <3>2. /\ \A k \in Keys : index'[k] = index[k] \/ (k = key[r] /\ index'[k] = a)
          /\ index'[key[r]] # None
      BY <1>5, <2>1, <2>2 DEF MemoryCreate, RedisCreate
    <3>3. store'[a] # "none" /\ \A b \in Actors \ {a} : store'[b] = store[b]
      BY <3>1
    <3>4. /\ key[r] \in ks /\ ks = {key[r]} /\ disputed \subseteq disputed' /\ disputed' \subseteq Keys
          /\ \A s \in Requests \ {r} : pc'[s] = pc[s]
          /\ pc'[r] # "inserting" /\ pc'[r] # "initializing"
      BY <2>3, <3>1
    <3>5. driver' = driver /\ key' = key /\ cache' = cache
      BY <3>1
    <3>6. \A k \in Keys : cache'[k] = cache[k] \/ (k \in ks /\ cache'[k] = a)
      BY <3>1
    <3>7. Creating(r, a, ks)
      BY <2>1, <2>2, <3>1, <3>2, <3>3, <3>4, <3>5, <3>6 DEF Creating
    <3> QED
      BY <1>0, <2>1, <3>7, Creates
<1>6. ASSUME NEW r \in Requests, RivetCreate(r) PROVE FoundByKey'
  <2>1. PICK a \in Ids : a = Drawn /\ store[a] = "none"
    BY <1>6, DrawnIsFresh DEF RivetCreate
  <2>2. key[r] \in Keys /\ pc[r] = "inserting" /\ driver = "rivet"
    BY <1>6 DEF RivetCreate, StagesFit
  <2>3. deserializeKeyFromTag(key[r]) \in Keys
    BY <2>2, TagsNameKeys
  <2>4. PICK ks \in SUBSET Keys : ks = {key[r], deserializeKeyFromTag(key[r])}
    BY <2>2, <2>3
  <2>5. /\ disputed' = disputed \cup Mistaken(key[r])
        /\ ks \subseteq disputed' \/ ks = {key[r]}
        /\ disputed' \subseteq Keys
    BY <1>6, <2>2, <2>4, TagsNameKeys DEF RivetCreate, Disputes, Mistaken
  <2>6. /\ \A k \in Keys : cache'[k] = cache[k] \/ (k \in ks /\ cache'[k] = a)
        /\ key[r] \in disputed' \/ cache'[key[r]] = a
    BY <1>6, <2>1, <2>2, <2>3, <2>4, <2>5 DEF RivetCreate, populateCache
  <2>7. /\ \A k \in Keys : index'[k] = index[k] \/ (k = key[r] /\ index'[k] = a)
        /\ index'[key[r]] # None
    BY <1>6, <2>1, <2>2 DEF RivetCreate
  <2> QED
    <3>1. /\ driver \notin Named /\ pc' = [pc EXCEPT ![r] = "initializing"]
          /\ id' = [id EXCEPT ![r] = a] /\ owner' = [owner EXCEPT ![a] = key[r]]
          /\ store' = [store EXCEPT ![a] = "empty"]
          /\ UNCHANGED <<driver, key>>
      BY <1>6, <2>1, <2>2 DEF RivetCreate, Becomes
    <3>2. store'[a] # "none" /\ \A b \in Actors \ {a} : store'[b] = store[b]
      BY <3>1
    <3>3. /\ key[r] \in ks /\ disputed \subseteq disputed'
          /\ \A s \in Requests \ {r} : pc'[s] = pc[s]
          /\ pc'[r] # "inserting"
      BY <2>4, <2>5, <3>1
    <3>4. driver' = driver /\ key' = key
      BY <3>1
    <3>5. Creating(r, a, ks)
      BY <2>1, <2>2, <2>5, <2>6, <2>7, <3>1, <3>2, <3>3, <3>4 DEF Creating
    <3> QED
      BY <1>0, <2>1, <3>5, Creates
<1>7. ASSUME NEW r \in Requests, RivetDestroy(r) PROVE FoundByKey'
  <2>1. /\ pc[r] = "initializing" /\ driver = "rivet" /\ id[r] \in Actors /\ key[r] \in Keys
        /\ UNCHANGED <<driver, key, id, cache, store, disputed>>
        /\ pc' = [pc EXCEPT ![r] = Failure(r)]
    BY <1>7 DEF RivetDestroy, StagesFit
  <2>2. CASE UNCHANGED <<owner, index>>
    BY <2>1, <2>2, SameNames
  <2>3. CASE /\ owner' = [owner EXCEPT ![id[r]] = None]
             /\ index' \in {[index EXCEPT ![key[r]] = b] :
                              b \in IF Others(id[r]) = {} THEN {None} ELSE Others(id[r])}
    <3>1. owner[id[r]] = key[r]
      BY <2>1 DEF FoundByKey, InitializesItsOwn
    <3>2. PICK b \in Actors \cup {None} :
               /\ index' = [index EXCEPT ![key[r]] = b]
               /\ b # None => owner[b] = key[r]
      BY <2>3, <3>1 DEF Others
    <3>3. \A k \in Keys, a \in Actors : KnownAs(k, a)' => KnownAs(k, a)
      BY <2>1, <2>3, <3>2 DEF KnownAs
    <3>4. KnownExist' /\ KnownApart' /\ KnownOnce'
      BY <2>1, <3>3 DEF FoundByKey, KnownExist, KnownApart, KnownOnce
    <3>5. KnownFound'
      <4> SUFFICES ASSUME NEW k \in Keys \ disputed, NEW a \in Actors, KnownAs(k, a)
                   PROVE  index'[k] # None \/ cache[k] # None
        BY <2>1, <3>3 DEF KnownFound
      <4>1. CASE k = key[r]
        BY <2>1, <4>1 DEF FoundByKey, InitializesItsOwn
      <4>2. CASE k # key[r]
        BY <2>1, <3>2, <4>2 DEF FoundByKey, KnownFound
      <4> QED
        BY <4>1, <4>2
    <3>6. InsertsAlone' /\ InitializesItsOwn'
      <4>1. \A s \in Requests : pc'[s] \in {"inserting", "initializing"} => s # r /\ pc'[s] = pc[s]
        BY <2>1
      <4>2. \A s \in Requests : pc'[s] = "initializing" => id[s] # id[r] /\ owner'[id[s]] = owner[id[s]]
        BY <2>1, <2>3, <4>1 DEF FoundByKey, InitializesItsOwn, StagesFit
      <4>3. \A s \in Requests : pc'[s] = "inserting" => key[s] \in Keys
        BY <4>1 DEF StagesFit
      <4> QED
        BY <2>1, <3>3, <4>1, <4>2, <4>3 DEF FoundByKey, InsertsAlone, InitializesItsOwn
    <3> QED
      BY <2>1, <3>4, <3>5, <3>6 DEF FoundByKey
  <2> QED
    BY <1>7, <2>2, <2>3 DEF RivetDestroy
<1>8. ASSUME ProcessRestarts PROVE FoundByKey'
  <2>1. CASE driver \in Named
    BY <1>8, <2>1 DEF ProcessRestarts, FoundByKey
  <2>2. CASE driver \notin Named
    <3>1. /\ driver = "rivet" /\ cache' = [k \in Keys |-> None]
          /\ disputed' = disputed \cup {k \in Keys : cache[k] \notin {None, index[k]}}
          /\ UNCHANGED <<driver, key, id, owner, index, store>>
      BY <1>8, <2>2 DEF ProcessRestarts, FileSystemRestarts, RivetManagerRestarts, Disputes
    <3>2. \A r \in Requests : pc'[r] \notin {"inserting", "initializing"}
      BY <1>8 DEF ProcessRestarts, Restarted
    <3>3. \A k \in Keys, a \in Actors : KnownAs(k, a)' => KnownAs(k, a)
      BY <3>1 DEF KnownAs
    <3>4. KnownExist' /\ KnownApart' /\ KnownOnce'
      BY <2>2, <3>1, <3>3 DEF FoundByKey, KnownExist, KnownApart, KnownOnce
    <3>5. KnownFound'
      BY <2>2, <3>1, <3>3 DEF FoundByKey, KnownFound
    <3> QED
      BY <3>1, <3>2, <3>4, <3>5 DEF FoundByKey, InsertsAlone, InitializesItsOwn
  <2> QED
    BY <2>1, <2>2
<1>9. ASSUME NEW r \in Requests,
             \/ FileSystemCreate(r) \/ saveActorState(r) \/ initialize(r) \/ CloudflareCreate(r)
      PROVE  FoundByKey'
  <2>1. driver \in Named /\ driver' = driver
    BY <1>9 DEF FileSystemCreate, saveActorState, initialize, CloudflareCreate, StagesFit
  <2> QED
    BY <2>1 DEF FoundByKey
<1>10. ASSUME NEW r \in Requests,
              \/ Denied(r) \/ RivetInitialize(r) \/ Answered(r) \/ getActor(r) \/ loadActor(r)
              \/ getActorId(r) \/ LoadEnds(r) \/ LoadThrows(r) \/ Serve(r)
       PROVE  FoundByKey'
  BY <1>10, SameNames
  DEF Denied, RivetInitialize, Answered, getActor, Sent, loadActor, getActorId, LoadEnds,
      Started, LoadThrows, Serve, NotReturned
<1>11. ASSUME NEW a \in Actors, startActor(a) PROVE FoundByKey'
  BY <1>11, SameNames DEF startActor, Started
<1>12. ASSUME NEW a \in Actors, ActorRestarts(a) PROVE FoundByKey'
  BY <1>12, SameNames DEF ActorRestarts, Restarted
<1>13. CASE UNCHANGED vars
  BY <1>13, SameNames DEF vars
<1>14. driver' = driver
  BY Lasting
<1> QED
  BY <1>1, <1>2, <1>3, <1>4, <1>5, <1>6, <1>7, <1>8, <1>9, <1>10, <1>11, <1>12, <1>13, <1>14, Steps

-----------------------------------------------------------------------------
(* Durable Objects                                                            *)

(* An object runs only for requests that found it in the index, and is        *)
(* initialised only by one that did not.                                      *)
LEMMA UsedIsIndexedStep == IInv /\ UsedIsIndexed /\ [Next]_vars => UsedIsIndexed'
<1> SUFFICES ASSUME IInv, UsedIsIndexed, [Next]_vars PROVE UsedIsIndexed'
  OBVIOUS
<1> USE DEF IInv, TypeOK, StagesFit, NamedByKey, UsedIsIndexed
<1>1. ASSUME NEW r \in Requests, Arrives(r) PROVE UsedIsIndexed'
  BY <1>1 DEF Arrives, Accept
<1>2. ASSUME NEW r \in Requests, sendHttpMessage(r) PROVE UsedIsIndexed'
  BY <1>2 DEF sendHttpMessage
<1>3. ASSUME NEW r \in Requests, Queries(r) PROVE UsedIsIndexed'
  BY <1>3 DEF Queries, queryActor, getForId, Looked, get, getOrCreate, create,
        Found, CacheAnswer, Disputes, Mistaken, getWithKey, MemoryLookup, RedisLookup,
        FileSystemLookup, CloudflareLookup, RivetLookup, ById, HeldIds
<1>4. ASSUME NEW r \in Requests, createActor(r) PROVE UsedIsIndexed'
  BY <1>4 DEF createActor, CacheAnswer, Disputes, Mistaken, MissedOne, getWithKey, MemoryLookup,
        RedisLookup, FileSystemLookup, CloudflareLookup, RivetLookup
<1>5. ASSUME NEW r \in Requests, initialize(r) PROVE UsedIsIndexed'
  BY <1>5 DEF initialize
<1>6. ASSUME NEW r \in Requests, CloudflareCreate(r) PROVE UsedIsIndexed'
  BY <1>6 DEF CloudflareCreate
<1>7. ASSUME NEW r \in Requests, LoadEnds(r) PROVE UsedIsIndexed'
  BY <1>7 DEF LoadEnds, Started
<1>8. ASSUME NEW r \in Requests, Serve(r) PROVE UsedIsIndexed'
  BY <1>8 DEF Serve, NotReturned
<1>9. ASSUME NEW a \in Actors, startActor(a) PROVE UsedIsIndexed'
  BY <1>9 DEF startActor, Started
<1>10. ASSUME NEW a \in Actors, ActorRestarts(a) PROVE UsedIsIndexed'
  BY <1>10 DEF ActorRestarts, Restarted
<1>11. ASSUME ProcessRestarts PROVE UsedIsIndexed'
  BY <1>11 DEF ProcessRestarts, FileSystemRestarts, RivetManagerRestarts,
        Torn, Disputes, Restarted
<1>12. ASSUME NEW r \in Requests,
              \/ MemoryCreate(r) \/ RedisCreate(r) \/ FileSystemCreate(r) \/ saveActorState(r)
              \/ RivetCreate(r) \/ RivetInitialize(r) \/ RivetDestroy(r)
       PROVE  UsedIsIndexed'
  BY <1>12 DEF MemoryCreate, RedisCreate, FileSystemCreate, saveActorState, RivetCreate,
               RivetInitialize, RivetDestroy
<1>14. ASSUME NEW r \in Requests,
              \/ Denied(r) \/ Answered(r) \/ getActor(r) \/ loadActor(r) \/ getActorId(r)
       PROVE  UsedIsIndexed'
  BY <1>14 DEF Denied, Answered, getActor, Sent, loadActor, getActorId
<1>15. ASSUME NEW r \in Requests, LoadThrows(r) PROVE UsedIsIndexed'
  BY <1>15 DEF LoadThrows, Started
<1>13. CASE UNCHANGED vars
  BY <1>13 DEF vars
<1> QED
  BY <1>1, <1>2, <1>3, <1>4, <1>5, <1>6, <1>7, <1>8, <1>9, <1>10, <1>11,
        <1>12, <1>13, <1>14, <1>15, Steps

(* A step puts no used storage back to empty. *)
LEMMA ResetStep ==
    IInv /\ UsedIsIndexed /\ [Next]_vars =>
        \A a \in Actors : store[a] = "used" /\ a \notin disputed => store'[a] = "used"
<1> SUFFICES ASSUME IInv, UsedIsIndexed, [Next]_vars,
                    NEW b \in Actors, store[b] = "used", b \notin disputed
             PROVE  store'[b] = "used"
  OBVIOUS
<1> USE DEF IInv, TypeOK, StagesFit, NamedByKey, UsedIsIndexed
<1>1. ASSUME NEW r \in Requests, Arrives(r) PROVE store'[b] = "used"
  BY <1>1 DEF Arrives, Accept
<1>2. ASSUME NEW r \in Requests, MemoryCreate(r) PROVE store'[b] = "used"
  BY <1>2, DrawnIsFresh DEF MemoryCreate, Becomes
<1>3. ASSUME NEW r \in Requests, RedisCreate(r) PROVE store'[b] = "used"
  BY <1>3, DrawnIsFresh DEF RedisCreate, Becomes
<1>4. ASSUME NEW r \in Requests, saveActorState(r) PROVE store'[b] = "used"
  BY <1>4 DEF saveActorState
<1>5. ASSUME NEW r \in Requests, initialize(r) PROVE store'[b] = "used"
  BY <1>5 DEF initialize
<1>6. ASSUME NEW r \in Requests, RivetCreate(r) PROVE store'[b] = "used"
  BY <1>6, DrawnIsFresh DEF RivetCreate, Becomes, populateCache, Disputes, Mistaken
<1>7. ASSUME NEW r \in Requests, LoadEnds(r) PROVE store'[b] = "used"
  BY <1>7 DEF LoadEnds, Started
<1>8. ASSUME NEW r \in Requests, Serve(r) PROVE store'[b] = "used"
  BY <1>8 DEF Serve, NotReturned
<1>9. ASSUME NEW a \in Actors, startActor(a) PROVE store'[b] = "used"
  BY <1>9 DEF startActor, Started
<1>10. ASSUME NEW a \in Actors, ActorRestarts(a) PROVE store'[b] = "used"
  BY <1>10 DEF ActorRestarts, Restarted
<1>11. ASSUME ProcessRestarts PROVE store'[b] = "used"
  BY <1>11 DEF ProcessRestarts, FileSystemRestarts, RivetManagerRestarts,
        Torn, Disputes, Restarted
<1>12. ASSUME NEW r \in Requests, Queries(r) \/ createActor(r) PROVE store'[b] = "used"
  BY <1>12 DEF Queries, queryActor, createActor
<1>14. ASSUME NEW r \in Requests,
              \/ sendHttpMessage(r) \/ Denied(r) \/ FileSystemCreate(r) \/ CloudflareCreate(r)
              \/ RivetInitialize(r) \/ RivetDestroy(r) \/ Answered(r)
              \/ getActor(r) \/ loadActor(r) \/ getActorId(r)
       PROVE  store'[b] = "used"
  BY <1>14
  DEF sendHttpMessage, Denied, FileSystemCreate, CloudflareCreate, RivetInitialize, RivetDestroy,
      Answered, getActor, loadActor, getActorId
<1>15. ASSUME NEW r \in Requests, LoadThrows(r) PROVE store'[b] = "used"
  BY <1>15 DEF LoadThrows, Started
<1>13. CASE UNCHANGED vars
  BY <1>13 DEF vars
<1> QED
  BY <1>1, <1>2, <1>3, <1>4, <1>5, <1>6, <1>7, <1>8, <1>9, <1>10, <1>11,
        <1>12, <1>13, <1>14, <1>15, Steps

-----------------------------------------------------------------------------
(* Authentication                                                             *)

(* A request goes on to a creation by a query that creates, and every later   *)
(* stage is entered from one; keys and endpoints do not change on the way.    *)
LEMMA GrantedStep == IInv /\ CreationsAreGranted /\ [Next]_vars => CreationsAreGranted'
<1> SUFFICES ASSUME IInv, CreationsAreGranted, [Next]_vars PROVE CreationsAreGranted'
  OBVIOUS
<1> USE DEF IInv, TypeOK, StagesFit, CreationsAreGranted, MayCreate
<1>1. ASSUME NEW r \in Requests, Arrives(r) PROVE CreationsAreGranted'
  BY <1>1 DEF Arrives, Accept, Endpoints, Methods
<1>2. ASSUME NEW r \in Requests, sendHttpMessage(r)
      PROVE  CreationsAreGranted'
  BY <1>2 DEF sendHttpMessage
<1>3. ASSUME NEW r \in Requests, Queries(r) PROVE CreationsAreGranted'
  BY <1>3 DEF Queries, queryActor, getForId, Looked, get, getOrCreate, create,
        Found, CacheAnswer, Disputes, Mistaken, getWithKey, MemoryLookup, RedisLookup,
        FileSystemLookup, CloudflareLookup, RivetLookup, ById, HeldIds,
        getIntentsFromQuery
<1>4. ASSUME NEW r \in Requests, createActor(r) PROVE CreationsAreGranted'
  BY <1>4 DEF createActor, CacheAnswer, Disputes, Mistaken, MissedOne, getWithKey, MemoryLookup,
        RedisLookup, FileSystemLookup, CloudflareLookup, RivetLookup
<1>5. ASSUME NEW r \in Requests, MemoryCreate(r) PROVE CreationsAreGranted'
  BY <1>5 DEF MemoryCreate, Becomes
<1>6. ASSUME NEW r \in Requests, RedisCreate(r) PROVE CreationsAreGranted'
  BY <1>6 DEF RedisCreate, Becomes
<1>7. ASSUME NEW r \in Requests, FileSystemCreate(r)
      PROVE  CreationsAreGranted'
  BY <1>7 DEF FileSystemCreate, Becomes
<1>8. ASSUME NEW r \in Requests, saveActorState(r)
      PROVE  CreationsAreGranted'
  BY <1>8 DEF saveActorState
<1>9. ASSUME NEW r \in Requests, initialize(r) PROVE CreationsAreGranted'
  BY <1>9 DEF initialize
<1>10. ASSUME NEW r \in Requests, CloudflareCreate(r)
      PROVE  CreationsAreGranted'
  BY <1>10 DEF CloudflareCreate
<1>11. ASSUME NEW r \in Requests, RivetCreate(r) PROVE CreationsAreGranted'
  BY <1>11 DEF RivetCreate, Becomes, populateCache, Disputes, Mistaken
<1>12. ASSUME NEW r \in Requests, RivetInitialize(r)
      PROVE  CreationsAreGranted'
  BY <1>12 DEF RivetInitialize
<1>13. ASSUME NEW r \in Requests, RivetDestroy(r) PROVE CreationsAreGranted'
  BY <1>13 DEF RivetDestroy, Others
<1>14. ASSUME NEW r \in Requests, LoadEnds(r) PROVE CreationsAreGranted'
  BY <1>14 DEF LoadEnds, Started
<1>15. ASSUME NEW a \in Actors, startActor(a) PROVE CreationsAreGranted'
  BY <1>15 DEF startActor, Started
<1>16. ASSUME NEW a \in Actors, ActorRestarts(a) PROVE CreationsAreGranted'
  BY <1>16 DEF ActorRestarts, Restarted
<1>17. ASSUME ProcessRestarts PROVE CreationsAreGranted'
  BY <1>17 DEF ProcessRestarts, FileSystemRestarts, RivetManagerRestarts,
        Torn, Disputes, Restarted
<1>18. ASSUME NEW r \in Requests,
             Denied(r) \/ Answered(r) \/ getActor(r) \/ loadActor(r)
              \/ getActorId(r) \/ LoadThrows(r) \/ Serve(r)
      PROVE  CreationsAreGranted'
  BY <1>18 DEF Denied, Answered, getActor, Sent, loadActor, getActorId,
        LoadThrows, Serve, NotReturned
<1>19. CASE UNCHANGED vars
  BY <1>19 DEF vars
<1> QED
  BY <1>1, <1>2, <1>3, <1>4, <1>5, <1>6, <1>7, <1>8, <1>9, <1>10, <1>11,
        <1>12, <1>13, <1>14, <1>15, <1>16, <1>17, <1>18, <1>19, Steps

-----------------------------------------------------------------------------
(* The refinement of KeyDirectory                                             *)

\* No answer changes but that of r, which was told nothing before.
Tells(r) == answers[r] = None /\ \A s \in Requests \ {r} : answers'[s] = answers[s]

Quiet == answers' = answers

(* A request is told an actor once, and keeps the answer whatever becomes of  *)
(* the actor; no step tells two.                                              *)
LEMMA ToldStep ==
    ASSUME IInv, [Next]_vars
    PROVE  Quiet \/ \E r \in Requests : Tells(r)
<1> USE DEF IInv, TypeOK, StagesFit, answers
<1>1. ASSUME NEW r \in Requests, Arrives(r) PROVE Quiet
  BY <1>1 DEF Arrives, Accept, Quiet
<1>2. ASSUME NEW r \in Requests, sendHttpMessage(r) PROVE Tells(r)
  BY <1>2 DEF sendHttpMessage, Tells
<1>3. ASSUME NEW r \in Requests, Queries(r) PROVE Tells(r)
  BY <1>3 DEF Queries, queryActor, getForId, Looked, get, getOrCreate, create,
        Found, CacheAnswer, Disputes, Mistaken, getWithKey, MemoryLookup, RedisLookup,
        FileSystemLookup, CloudflareLookup, RivetLookup, ById, HeldIds, Tells
<1>4. ASSUME NEW r \in Requests, MemoryCreate(r) PROVE Tells(r)
  BY <1>4 DEF MemoryCreate, Becomes, Tells
<1>5. ASSUME NEW r \in Requests, RedisCreate(r) PROVE Tells(r)
  BY <1>5 DEF RedisCreate, Becomes, Tells
<1>6. ASSUME NEW r \in Requests, saveActorState(r) PROVE Tells(r)
  BY <1>6 DEF saveActorState, Tells
<1>7. ASSUME NEW r \in Requests, CloudflareCreate(r) PROVE Tells(r)
  BY <1>7 DEF CloudflareCreate, Tells
<1>8. ASSUME NEW r \in Requests, RivetInitialize(r) PROVE Tells(r)
  BY <1>8 DEF RivetInitialize, Tells
<1>9. ASSUME NEW a \in Actors, startActor(a) PROVE Quiet
  BY <1>9 DEF startActor, Started, Quiet
<1>10. ASSUME NEW a \in Actors, ActorRestarts(a) PROVE Quiet
  BY <1>10 DEF ActorRestarts, Restarted, Quiet
<1>11. ASSUME ProcessRestarts PROVE Quiet
  BY <1>11 DEF ProcessRestarts, FileSystemRestarts, RivetManagerRestarts,
        Torn, Disputes, Restarted, Quiet
<1>12. ASSUME NEW r \in Requests,
             Denied(r) \/ createActor(r) \/ FileSystemCreate(r)
              \/ initialize(r) \/ RivetCreate(r) \/ RivetDestroy(r)
              \/ Answered(r) \/ getActor(r) \/ loadActor(r) \/ getActorId(r)
              \/ LoadEnds(r) \/ LoadThrows(r) \/ Serve(r)
      PROVE  Quiet
  BY <1>12 DEF Denied, createActor, CacheAnswer, Disputes, Mistaken, MissedOne, getWithKey,
     MemoryLookup,
        RedisLookup, FileSystemLookup, CloudflareLookup, RivetLookup,
        FileSystemCreate, Becomes, initialize, RivetCreate, Fresh,
        RivetDestroy, Others, Answered, getActor, Sent, loadActor, getActorId,
        LoadEnds, Started, LoadThrows, Serve, Quiet
<1>13. CASE UNCHANGED vars
  BY <1>13 DEF vars, Quiet
<1> QED
  BY <1>1, <1>2, <1>3, <1>4, <1>5, <1>6, <1>7, <1>8, <1>9, <1>10, <1>11,
        <1>12, <1>13, Steps

(* A key in dispute stays in dispute.                                         *)
LEMMA DisputesLast ==
    ASSUME IInv, IInv', [Next]_vars
    PROVE  open \subseteq open' /\ open' \subseteq Keys
BY Lasting DEF IInv, TypeOK, open

(* Two requests that were told an actor were told the same one if they asked  *)
(* for the same key, and only then, unless what they asked for is in dispute. *)
LEMMA SameKeySameActor ==
    ASSUME IInv, FoundByKey, NEW r \in Requests, NEW s \in Requests, Told(r), Told(s)
    PROVE  /\ key[r] = key[s] => id[r] = id[s] \/ key[r] \in open
           /\ id[r] = id[s] => key[r] = key[s] \/ {key[r], key[s]} \subseteq open
<1>1. id[r] \in Actors /\ id[s] \in Actors /\ key[r] \in Keys /\ key[s] \in Keys
  BY DEF IInv, TypeOK, StagesFit
<1>2. CASE driver \in Named
  BY <1>1, <1>2 DEF IInv, NamedByKey
<1>3. CASE driver \notin Named
  <2>1. KnownAs(key[r], id[r]) /\ KnownAs(key[s], id[s])
    BY DEF KnownAs
  <2> QED
    BY <1>1, <1>3, <2>1 DEF FoundByKey, KnownOnce, KnownApart, open
<1> QED
  BY <1>2, <1>3

(* A step of the drivers is a step of KeyDirectory, or leaves it alone. *)
LEMMA TellStep ==
    ASSUME IInv, IInv', FoundByKey', [Next]_vars
    PROVE  Abstract!Next \/ UNCHANGED <<answers, open>>
<1>0. Abstract!Dispute
  BY DisputesLast DEF Abstract!Dispute
<1>1. CASE Quiet
  BY <1>0, <1>1 DEF Quiet, Abstract!Next
<1>2. ASSUME NEW r \in Requests, Tells(r), answers'[r] # None PROVE Abstract!Next
  <2>1. Told(r)' /\ answers'[r] = [key |-> key'[r], id |-> id'[r]]
    BY <1>2 DEF answers
  <2>2. answers'[r] \in Abstract!Answers
    BY <2>1 DEF Abstract!Answers, IInv, TypeOK, StagesFit
  <2>3. ASSUME NEW s \in Requests, answers[s] # None
        PROVE  Abstract!Agree(answers[s], answers'[r])
    <3>1. s # r /\ answers'[s] = answers[s]
      BY <1>2, <2>3 DEF Tells
    <3>2. Told(s)' /\ answers[s] = [key |-> key'[s], id |-> id'[s]]
      BY <2>3, <3>1 DEF answers
    <3>3. /\ key'[s] = key'[r] => id'[s] = id'[r] \/ key'[s] \in open'
          /\ id'[s] = id'[r] => key'[s] = key'[r] \/ {key'[s], key'[r]} \subseteq open'
      <4>1. id'[r] \in Actors /\ id'[s] \in Actors /\ key'[r] \in Keys /\ key'[s] \in Keys
        BY <2>1, <3>2 DEF IInv, TypeOK, StagesFit
      <4>2. CASE driver' \in Named
        BY <4>1, <4>2 DEF IInv, NamedByKey
      <4>3. CASE driver' \notin Named
        <5>1. KnownAs(key[r], id[r])' /\ KnownAs(key[s], id[s])'
          BY DEF KnownAs
        <5> QED
          BY <4>1, <4>3, <5>1 DEF FoundByKey, KnownOnce, KnownApart, open
      <4> QED
        BY <4>2, <4>3
    <3> QED
      BY <2>1, <3>2, <3>3 DEF Abstract!Agree
  <2>4. answers' = [answers EXCEPT ![r] = answers'[r]]
    BY <1>2 DEF Tells, answers
  <2>5. Abstract!Tell(r)
    BY <1>2, <2>2, <2>3, <2>4 DEF Tells, Abstract!Tell
  <2> QED
    BY <1>0, <2>5 DEF Abstract!Next
<1>3. ASSUME NEW r \in Requests, Tells(r), answers'[r] = None PROVE Abstract!Next
  <2>1. answers' = answers
    BY <1>3 DEF Tells, answers
  <2> QED
    BY <1>0, <2>1 DEF Abstract!Next
<1> QED
  BY <1>1, <1>2, <1>3, ToldStep

-----------------------------------------------------------------------------
(* The theorems                                                               *)

(* The inductive invariant: what a request holds at each stage, one loader    *)
(* for each placeholder of getActor and loadActor, no two unresolved requests *)
(* of a key where they do not overlap, and ids derived from keys.             *)
THEOREM InvariantHolds == Spec => []IInv
<1>1. Init => IInv
  BY InitInv
<1> QED
  BY <1>1, InvStep, PTL DEF Spec

(* The variables of the directory keep their types. *)
THEOREM TypeCorrect == Spec => []TypeOK
<1>1. IInv => TypeOK
  BY DEF IInv
<1> QED
  BY <1>1, InvariantHolds, PTL

(* Whatever requests overlap and whatever fails, an actor that is being       *)
(* loaded has one request that loads it, and no other actor has one.          *)
THEOREM LoadedOnce == Spec => []LoadsOnce
<1>1. IInv => LoadsOnce
  <2> SUFFICES ASSUME IInv, NEW a \in Actors
               PROVE  Cardinality(Loaders(a))
                        = IF handler[a] = "loading" /\ driver # "rivet" THEN 1 ELSE 0
    BY DEF IInv, LoadsOnce
  <2>1. CASE Loaders(a) = {}
    BY <2>1, FS_EmptySet DEF IInv, OneLoader
  <2>2. CASE Loaders(a) # {}
    <3>1. PICK r \in Loaders(a) : Loaders(a) = {r}
      BY <2>2 DEF IInv, OneLoader
    <3> QED
      BY <2>2, <3>1, FS_Singleton DEF IInv, OneLoader
  <2> QED
    BY <2>1, <2>2
<1> QED
  BY <1>1, InvariantHolds, PTL

(* Whoever asks in whatever order, an actor exists only where one who asked   *)
(* for its key was granted to create it: every endpoint's query passes        *)
(* authenticateEndpoint with its own intents, before any driver is called.    *)
THEOREM CreatedByGrant == Spec => []CreationsAreGranted
<1>1. Init => CreationsAreGranted
  BY DEF Init, CreationsAreGranted
<1> QED
  BY <1>1, GrantedStep, InvariantHolds, PTL DEF Spec

(* Lookups by key, metadata and requests agree on the actor of every key that *)
(* is not in dispute, and no key that is has an actor of another.             *)
THEOREM DirectoryAgrees == Spec => []FoundByKey
<1>1. Init => FoundByKey
  BY InitInv
<1>2. IInv /\ FoundByKey /\ [Next]_vars => FoundByKey'
  BY FoundByKeyStep
<1> QED
  BY <1>1, <1>2, InvariantHolds, PTL DEF Spec

(* The drivers implement KeyDirectory: of a key that is not in dispute every  *)
(* caller is told the same actor, and different ones for different keys.      *)
THEOREM Refinement == Spec => KeysNameOneActor
<1>1. Init => Abstract!Init
  BY DEF Init, Abstract!Init, answers, open
<1>2. IInv /\ IInv' /\ FoundByKey' /\ [Next]_vars => [Abstract!Next]_<<answers, open>>
  BY TellStep
<1>3. Spec => []FoundByKey
  BY DirectoryAgrees
<1> QED
  BY <1>1, <1>2, <1>3, InvariantHolds, PTL DEF Spec, KeysNameOneActor, Abstract!Spec

(* Two callers who were told an actor for one key that is not in dispute were *)
(* told the same.                                                             *)
THEOREM OneActor == Spec => []OneActorPerKey
<1>1. IInv /\ FoundByKey => OneActorPerKey
  BY SameKeySameActor DEF OneActorPerKey
<1> QED
  BY <1>1, DirectoryAgrees, InvariantHolds, PTL

(* Whatever put, start or initialisation has failed, no creation empties what *)
(* a used actor has stored, unless it missed another creation on its way or   *)
(* read the index too early: createActor is the only handler that writes      *)
(* initial data, and it looks first.                                          *)
THEOREM StorageIsKept == Spec => NeverReset
<1>1. Init => UsedIsIndexed
  BY InitInv
<1>2. IInv /\ UsedIsIndexed /\ [Next]_vars => UsedIsIndexed'
  BY UsedIsIndexedStep
<1>3. IInv /\ UsedIsIndexed /\ [Next]_vars =>
          [\A a \in Actors : store[a] = "used" /\ a \notin disputed => store'[a] = "used"]_vars
  BY ResetStep
<1> QED
  BY <1>1, <1>2, <1>3, InvariantHolds, PTL DEF Spec, NeverReset
=============================================================================
