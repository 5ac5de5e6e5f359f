--------------------------- MODULE ActorDirectory ---------------------------
(***************************************************************************)
(* From a request to a started actor: an endpoint of the manager's router, *)
(* or a method of the inline client, authenticates, resolves the query by  *)
(* a manager driver, which may create an actor, and the request goes on to *)
(* the topology, which loads the actor on demand.  The five manager drivers   *)
(* differ in how they name actors and in what is awaited between the look  *)
(* at a key and the creation.  Under the Redis driver an actor is started  *)
(* by its peers (ActorPeer), so a request ends here when it is resolved.   *)
(***************************************************************************)
EXTENDS Naturals, FiniteSets

CONSTANTS
    Requests,      \* requests to the manager
    Serves,        \* the endpoints and methods that a request may come by
    Asks,          \* the keys that its caller may ask for
    Grants,        \* the intents that onAuth allows its caller
    NoUpgrade,     \* the drivers whose run config has no getUpgradeWebSocket
    Keys,          \* the keys of a name
    EmptyKey, BlankKey,    \* two of them: [] and [""]
    Ids,           \* the random ids of memory, Redis and Rivet actors
    None,
    Drivers,       \* the drivers the run looks at
    MaxFaults      \* bound: rejected starts, initialisations and writes, and restarts

Intents == {"get", "create", "connect", "action"}

\* Endpoints of the router that carry a query, which the HTTP client's driver calls;
\* methods of the inline client.
Endpoints == {"sse", "websocket", "action", "resolve"}
Methods == {"inline", "inline-resolve"}

ASSUME ConstantsAssumption ==
    /\ Serves \in [Requests -> SUBSET (Endpoints \cup Methods \cup {"message"})]
    /\ Asks \in [Requests -> SUBSET Keys]
    /\ Grants \in [Requests -> SUBSET Intents]
    /\ NoUpgrade \subseteq Drivers
    /\ Drivers \subseteq {"memory", "file-system", "redis", "cloudflare", "rivet"}
    /\ {EmptyKey, BlankKey} \subseteq Keys
    /\ MaxFaults \in Nat
    /\ None \notin Keys \cup Ids

Named == {"file-system", "cloudflare"}     \* drivers that derive the id from the key
Actors == Keys \cup Ids

Unresolved == {"authenticating", "creating", "inserting", "saving", "initializing",
               "starting", "indexing"}
Resolved == {"resolved", "loading", "waiting"}
Stages == {"idle", "failed", "refused", "done", "dropped"} \cup Unresolved \cup Resolved

VARIABLES
    driver,
    pc, key, id, via,    \* a request: stage, key, actor, how it has come
    owner,       \* the key in the metadata of each actor
    index,       \* the actor a lookup finds where ids are random
    cache,       \* ACTOR_KEY_CACHE of the Rivet driver
    store,       \* what the actor's storage holds; "started" until a request is served
    handler,     \* the actor in its topology; "stuck" if its promise never settles
    faults,
    disputed     \* history: keys that two actors may have been created for

request == <<pc, key, id, via>>
directory == <<owner, index, cache, store>>
vars == <<driver, request, directory, handler, faults, disputed>>

TypeOK ==
    /\ driver \in Drivers
    /\ pc \in [Requests -> Stages]
    /\ key \in [Requests -> Keys \cup {None}]
    /\ id \in [Requests -> Actors \cup {None}]
    /\ via \in [Requests -> Endpoints \cup Methods \cup {"none", "message"}]
    /\ owner \in [Actors -> Keys \cup {None}]
    /\ index \in [Keys -> Actors \cup {None}]
    /\ cache \in [Keys -> Actors \cup {None}]
    /\ store \in [Actors -> {"none", "partial", "empty", "started", "used"}]
    /\ handler \in [Actors -> {"absent", "loading", "loaded", "stuck"}]
    /\ faults \in 0..MaxFaults
    /\ disputed \subseteq Keys

Init ==
    /\ driver \in Drivers
    /\ pc = [r \in Requests |-> "idle"]
    /\ key = [r \in Requests |-> None]
    /\ id = [r \in Requests |-> None]
    /\ via = [r \in Requests |-> "none"]
    /\ owner = [a \in Actors |-> None]
    /\ index = [k \in Keys |-> None]
    /\ cache = [k \in Keys |-> None]
    /\ store = [a \in Actors |-> "none"]
    /\ handler = [a \in Actors |-> "absent"]
    /\ faults = 0
    /\ disputed = {}

-----------------------------------------------------------------------------
(* Requests to the manager's router.  A definition named X_<defect> is X     *)
(* with a plausible defect, for the mutation runs only.                      *)

Goto(r, stage) == pc' = [pc EXCEPT ![r] = stage]

\* An error goes to a stream or a socket that is opened for it and ended, or is thrown.
Failure(r) == IF via[r] \in {"sse", "websocket"} THEN "refused" ELSE "failed"

Fail(r) == Goto(r, Failure(r))

Fault == faults < MaxFaults /\ faults' = faults + 1

\* Request r comes by endpoint e; refused, it has done nothing.
Accept(r, e, stage) ==
    /\ pc[r] = "idle" /\ e \in Serves[r]
    /\ \E k \in Asks[r] : key' = [key EXCEPT ![r] = k]
    /\ Goto(r, stage)
    /\ via' = [via EXCEPT ![r] = e]
    /\ UNCHANGED <<driver, id, directory, handler, faults, disputed>>

\* The parameters are invalid, no actor is defined by that name, or onAuth has thrown.
Denied(r) ==
    /\ pc[r] = "authenticating"
    /\ Fail(r)
    /\ UNCHANGED <<driver, key, id, via, directory, handler, faults, disputed>>

(* What a lookup by key may return, by driver.  A read of Workers KV may miss *)
(* a recent write.                                                            *)
MemoryLookup(k) == {index[k]}
RedisLookup(k) == {index[k]}
FileSystemLookup(k) == {IF owner[k] = None THEN None ELSE k}
CloudflareLookup(k) == {IF owner[k] = None THEN None ELSE k, None}
RivetLookup(k) == {IF cache[k] = None THEN index[k] ELSE cache[k]}

getWithKey(k) ==
    CASE driver = "memory" -> MemoryLookup(k)
      [] driver = "redis" -> RedisLookup(k)
      [] driver = "file-system" -> FileSystemLookup(k)
      [] driver = "cloudflare" -> CloudflareLookup(k)
      [] driver = "rivet" -> RivetLookup(k)

(* The key that is read back from an actor's tags, where [""] is written as   *)
(* the empty string and read as [].                                           *)
deserializeKeyFromTag(k) == IF k = BlankKey THEN EmptyKey ELSE k

\* An actor that was created for k enters the cache under the key read from its tags.
populateCache(k, a) == cache' = [cache EXCEPT ![deserializeKeyFromTag(k)] = a]

\* A Rivet lookup of k that finds an actor leaves it in the cache under k as well.
CacheAnswer(k, a) ==
    cache' = IF driver = "rivet" /\ a # None
             THEN [cache EXCEPT ![deserializeKeyFromTag(k)] = a, ![k] = a] ELSE cache

\* Keys that the caches do not tell apart once k is in them.
Mistaken(k) ==
    IF driver = "rivet" /\ deserializeKeyFromTag(k) # k THEN {k, deserializeKeyFromTag(k)} ELSE {}

(* A handle's query may be for an id: one its client was given, or the one    *)
(* that resolve has replaced the query by; some request was told it.          *)
Told(r) == pc[r] \in Resolved \cup {"done", "dropped"}

HeldIds(k) == {id[r] : r \in {s \in Requests : Told(s) /\ key[s] = k}}

\* A destroyed actor is found as long as its metadata is cached.
ById(k) ==
    HeldIds(k) \cup
    {None : a \in {b \in HeldIds(k) : owner[b] = None \/ driver = "cloudflare"}}

\* The queries of the client's methods; a lookup that finds nothing goes to `otherwise`.
Found(r, a, otherwise) ==
    /\ id' = [id EXCEPT ![r] = a]
    /\ Goto(r, IF a = None THEN otherwise ELSE "resolved")

Disputes(ks) == disputed' = disputed \cup ks

getForId(r) ==
    /\ \E a \in ById(key[r]) : Found(r, a, Failure(r))
    /\ UNCHANGED <<cache, disputed>>

Looked(r, otherwise) ==
    \E a \in getWithKey(key[r]) :
        /\ Found(r, a, otherwise)
        /\ CacheAnswer(key[r], a)
        /\ Disputes(IF a = None THEN {} ELSE Mistaken(key[r]))

get(r) == Looked(r, Failure(r))

getOrCreate(r) == Looked(r, "creating")

create(r) == Goto(r, "creating") /\ UNCHANGED <<id, cache, disputed>>

getIntentsFromQuery ==
    [getForId |-> {"get"}, getForKey |-> {"get"},
     getOrCreateForKey |-> {"get", "create"}, create |-> {"create"}]

(* queryActor, with a query whose intents are granted.  The driver's answer   *)
(* is read here; getOrCreateWithKey goes on to createActor in a later step.   *)
queryActor(r, granted) ==
    /\ pc[r] = "authenticating"
    /\ \/ getIntentsFromQuery.getForId \subseteq granted /\ getForId(r)
       \/ getIntentsFromQuery.getForKey \subseteq granted /\ get(r)
       \/ getIntentsFromQuery.getOrCreateForKey \subseteq granted /\ getOrCreate(r)
       \/ getIntentsFromQuery.create \subseteq granted /\ create(r)
    /\ UNCHANGED <<driver, key, via, owner, index, store, handler, faults>>

\* onAuth is asked for the query's intents and those that the endpoint adds.
authenticateEndpoint(r, additionalIntents) ==
    \/ Denied(r)
    \/ additionalIntents \subseteq Grants[r] /\ queryActor(r, Grants[r])

(* createActor of every driver but the file system's starts with an awaited   *)
(* lookup of the key and throws ActorAlreadyExists if it finds an actor.      *)
createActor_Unchecked(r) ==
    /\ pc[r] = "creating" /\ driver # "file-system"
    /\ Goto(r, "inserting")
    /\ UNCHANGED <<driver, key, id, via, directory, handler, faults, disputed>>

\* Request r, about to create for its key, has missed an actor, or one on its way.
MissedOne(r) ==
    \/ driver = "cloudflare" /\ owner[key[r]] # None
    \/ \E s \in Requests \ {r} :
          key[s] = key[r] /\ pc[s] \in {"inserting", "starting", "indexing"}

createActor(r) ==
    /\ pc[r] = "creating" /\ driver # "file-system"
    /\ \E a \in getWithKey(key[r]) :
          /\ Goto(r, IF a = None THEN "inserting" ELSE Failure(r))
          /\ CacheAnswer(key[r], a)
          /\ Disputes(IF a # None THEN Mistaken(key[r])
                      ELSE IF MissedOne(r) THEN {key[r]} ELSE {})
    /\ UNCHANGED <<driver, key, id, via, owner, index, store, handler, faults>>

\* A random id is new; which one it is makes no difference.
Fresh == {a \in Ids : store[a] = "none"}
Drawn == CHOOSE a \in Fresh : TRUE

\* The actor of request r is a from now on.
Becomes(r, a) ==
    /\ id' = [id EXCEPT ![r] = a]
    /\ owner' = [owner EXCEPT ![a] = key[r]]

MemoryCreate(r) ==
    /\ pc[r] = "inserting" /\ driver = "memory" /\ Fresh # {}
    /\ Becomes(r, Drawn)
    /\ store' = [store EXCEPT ![Drawn] = "empty"]
    \* findActor returns the first in the order of creation
    /\ index' = [index EXCEPT ![key[r]] = IF @ = None THEN Drawn ELSE @]
    /\ Goto(r, "resolved")
    /\ UNCHANGED <<driver, key, via, cache, handler, faults, disputed>>

RedisCreate(r) ==
    /\ pc[r] = "inserting" /\ driver = "redis" /\ Fresh # {}
    /\ Becomes(r, Drawn)
    /\ store' = [store EXCEPT ![Drawn] = "empty"]
    /\ index' = [index EXCEPT ![key[r]] = Drawn]
    /\ Goto(r, "resolved")
    /\ UNCHANGED <<driver, key, via, cache, handler, faults, disputed>>

(* File system: the test for the actor and its entry in the cache are made    *)
(* in one stretch, then the file is written.                                  *)
FileSystemCreate(r) ==
    /\ pc[r] = "creating" /\ driver = "file-system"
    /\ IF owner[key[r]] = None
       THEN /\ Becomes(r, key[r])
            /\ Goto(r, "saving")
       ELSE /\ Fail(r)
            /\ UNCHANGED <<id, owner>>
    /\ UNCHANGED <<driver, key, via, index, cache, store, handler, faults, disputed>>

saveActorState(r) ==
    /\ pc[r] = "saving"
    /\ \/ /\ store' = [store EXCEPT ![id[r]] = IF @ = "none" THEN "empty" ELSE @]
          /\ Goto(r, "resolved")
          /\ UNCHANGED faults
       \/ /\ Fault
          /\ Fail(r)
          /\ UNCHANGED store
    /\ UNCHANGED <<driver, key, id, via, owner, index, cache, handler, disputed>>

(* Cloudflare: the id names a Durable Object, whose initialize call writes    *)
(* the name, the key and empty data, whatever is there, and loads the actor.  *)
initialize(r) ==
    /\ pc[r] = "inserting" /\ driver = "cloudflare"
    /\ id' = [id EXCEPT ![r] = key[r]]
    /\ store' = [store EXCEPT ![key[r]] = "empty"]
    /\ IF handler[key[r]] = "absent"
       THEN /\ handler' = [handler EXCEPT ![key[r]] = "loading"]
            /\ Goto(r, "starting")
       ELSE /\ Goto(r, "indexing")
            /\ UNCHANGED handler
    /\ UNCHANGED <<driver, key, via, owner, index, cache, faults, disputed>>

(* Then two entries are put in Workers KV, of which lookups read the first.   *)
(* If a put fails the object is left as it is, in the index or not.           *)
CloudflareCreate(r) ==
    /\ pc[r] = "indexing"
    /\ \/ /\ owner' = [owner EXCEPT ![id[r]] = key[r]]
          /\ Goto(r, "resolved")
          /\ UNCHANGED faults
       \/ /\ Fault
          /\ owner' \in {owner, [owner EXCEPT ![id[r]] = key[r]]}
          /\ Fail(r)
    /\ UNCHANGED <<driver, key, id, via, index, cache, store, handler, disputed>>

(* Rivet: the service creates the actor, which enters the cache; a lookup by  *)
(* tags sorts by id.  Then the new actor is initialised, or destroyed.        *)
RivetCreate(r) ==
    /\ pc[r] = "inserting" /\ driver = "rivet" /\ Fresh # {}
    /\ Becomes(r, Drawn)
    /\ store' = [store EXCEPT ![Drawn] = "empty"]
    /\ index' \in {[index EXCEPT ![key[r]] = b] : b \in {Drawn, index[key[r]]} \ {None}}
    /\ populateCache(key[r], Drawn)
    /\ Disputes(Mistaken(key[r]))
    /\ Goto(r, "initializing")
    /\ UNCHANGED <<driver, key, via, handler, faults>>

RivetInitialize(r) ==
    /\ pc[r] = "initializing"
    /\ handler' = [handler EXCEPT ![id[r]] = "loading"]
    /\ Goto(r, "resolved")
    /\ UNCHANGED <<driver, key, id, via, directory, faults, disputed>>

Others(a) == {b \in Actors \ {a} : owner[b] = owner[a]}

\* The caches keep the actor; if the DELETE fails too, so does the service.
RivetDestroy(r) ==
    /\ pc[r] = "initializing"
    /\ Fault
    /\ \/ /\ owner' = [owner EXCEPT ![id[r]] = None]
          /\ index' \in {[index EXCEPT ![key[r]] = b] :
                           b \in IF Others(id[r]) = {} THEN {None} ELSE Others(id[r])}
       \/ UNCHANGED <<owner, index>>
    /\ Fail(r)
    /\ UNCHANGED <<driver, key, id, via, cache, store, handler, disputed>>

-----------------------------------------------------------------------------
(* The topologies: one load per actor, on whose promise everybody waits.      *)

\* The answer of resolve, or of any request where peers start the actor.
Answered(r) ==
    /\ pc[r] = "resolved"
    /\ via[r] \in {"resolve", "inline-resolve"} \/ driver = "redis"
    /\ Goto(r, "done")
    /\ UNCHANGED <<driver, key, id, via, directory, handler, faults, disputed>>

Sent(r) == pc[r] = "resolved" /\ via[r] \notin {"resolve", "inline-resolve"}

\* StandaloneTopology.#getActor up to its first await.
getActor_LatePlaceholder(r) ==
    /\ Sent(r) /\ driver \in {"memory", "file-system"}
    /\ Goto(r, IF handler[id[r]] \in {"absent", "loading"} THEN "loading" ELSE "waiting")
    /\ handler' = [handler EXCEPT ![id[r]] = IF @ = "absent" THEN "loading" ELSE @]
    /\ UNCHANGED <<driver, key, id, via, directory, faults, disputed>>

getActor(r) ==
    /\ Sent(r) /\ driver \in {"memory", "file-system"}
    /\ Goto(r, IF handler[id[r]] = "absent" THEN "loading" ELSE "waiting")
    /\ handler' = [handler EXCEPT ![id[r]] = IF @ = "absent" THEN "loading" ELSE @]
    /\ UNCHANGED <<driver, key, id, via, directory, faults, disputed>>

\* ActorHandler.#loadActor of a Durable Object, which has been initialised.
loadActor(r) ==
    /\ Sent(r) /\ driver = "cloudflare"
    /\ Goto(r, IF handler[id[r]] = "absent" THEN "loading" ELSE "waiting")
    /\ handler' = [handler EXCEPT ![id[r]] = IF @ = "absent" THEN "loading" ELSE @]
    /\ UNCHANGED <<driver, key, id, via, directory, faults, disputed>>

\* The router of a Rivet actor waits for its start; a destroyed one is gone.
getActorId(r) ==
    /\ Sent(r) /\ driver = "rivet"
    /\ Goto(r, IF owner[id[r]] = None THEN "dropped" ELSE "waiting")
    /\ UNCHANGED <<driver, key, id, via, directory, handler, faults, disputed>>

(* The actor's first start writes its initial state.                          *)
Started(a) == [store EXCEPT ![a] = IF @ = "empty" THEN "started" ELSE @]

(* The metadata is read and the actor's start returns: the promise settles.   *)
LoadEnds_Unresolved(r) ==
    /\ pc[r] \in {"loading", "starting"}
    /\ store[id[r]] # "partial"
    /\ store' = Started(id[r])
    /\ Goto(r, IF pc[r] = "loading" THEN "waiting" ELSE "indexing")
    /\ UNCHANGED <<driver, key, id, via, owner, index, cache, handler, faults, disputed>>

LoadEnds(r) ==
    /\ pc[r] \in {"loading", "starting"}
    /\ store[id[r]] # "partial"
    /\ handler' = [handler EXCEPT ![id[r]] = "loaded"]
    /\ store' = Started(id[r])
    /\ Goto(r, IF pc[r] = "loading" THEN "waiting" ELSE "indexing")
    /\ UNCHANGED <<driver, key, id, via, owner, index, cache, faults, disputed>>

(* The start throws, before or after it wrote the state, or the file cannot   *)
(* be decoded: the placeholder stays.                                         *)
LoadThrows(r) ==
    /\ pc[r] \in {"loading", "starting"}
    /\ \/ store[id[r]] = "partial" /\ UNCHANGED <<store, faults>>
       \/ Fault /\ store' \in {store, Started(id[r])}
    /\ handler' = [handler EXCEPT ![id[r]] = "stuck"]
    /\ Goto(r, IF pc[r] = "loading" THEN "dropped" ELSE Failure(r))
    /\ UNCHANGED <<driver, key, id, via, owner, index, cache, disputed>>

(* A Rivet actor starts once initialised.  If that fails its process is run   *)
(* again, and waits for an initialisation that nobody repeats.                *)
startActor(a) ==
    /\ driver = "rivet" /\ handler[a] = "loading"
    /\ \/ /\ handler' = [handler EXCEPT ![a] = "loaded"]
          /\ store' = Started(a)
          /\ UNCHANGED faults
       \/ /\ Fault
          /\ handler' = [handler EXCEPT ![a] = "stuck"]
          /\ store' \in {store, Started(a)}
    /\ UNCHANGED <<driver, request, owner, index, cache, disputed>>

\* The router of the partitioned actor does not return the answer to an upgrade.
NotReturned(r) == via[r] = "websocket" /\ driver \in {"cloudflare", "rivet"}

Serve(r) ==
    /\ pc[r] = "waiting" /\ handler[id[r]] = "loaded"
    /\ IF NotReturned(r)
       THEN Goto(r, "dropped") /\ UNCHANGED store
       ELSE Goto(r, "done") /\ store' = [store EXCEPT ![id[r]] = "used"]
    /\ UNCHANGED <<driver, key, id, via, owner, index, cache, handler, faults, disputed>>

-----------------------------------------------------------------------------
(* Restarts.  The memory driver forgets everything, which is Init again.      *)

Restarted(lost, unresolved) ==
    pc' = [r \in Requests |-> CASE r \in lost /\ pc[r] \in Unresolved -> unresolved[r]
                                [] r \in lost /\ pc[r] \in Resolved -> "dropped"
                                [] OTHER -> pc[r]]

Torn == {id[r] : r \in {s \in Requests : pc[s] = "saving"}}

\* A file being written when the process dies may be left half-written.
FileSystemRestarts ==
    /\ driver = "file-system"
    /\ handler' = [a \in Actors |-> "absent"]
    /\ \E torn \in SUBSET Torn :
          store' = [a \in Actors |-> IF a \in torn /\ store[a] = "none" THEN "partial" ELSE store[a]]
    /\ owner' = [a \in Actors |-> IF store'[a] = "none" THEN None ELSE owner[a]]
    /\ UNCHANGED <<cache, disputed>>

\* The manager of Rivet actors loses its caches, and with them what was destroyed since.
RivetManagerRestarts ==
    /\ driver = "rivet"
    /\ cache' = [k \in Keys |-> None]
    /\ Disputes({k \in Keys : cache[k] \notin {None, index[k]}})
    /\ UNCHANGED <<owner, store, handler>>

ProcessRestarts ==
    /\ Fault
    /\ FileSystemRestarts \/ RivetManagerRestarts
    /\ Restarted(Requests, [r \in Requests |-> "failed"])
    /\ UNCHANGED <<driver, key, id, via, index>>

\* A Durable Object is evicted, or a Rivet actor's process is run again.
ActorRestarts(a) ==
    /\ driver \in {"cloudflare", "rivet"} /\ handler[a] # "absent" /\ Fault
    /\ handler' = [handler EXCEPT ![a] = IF driver = "rivet" THEN "stuck" ELSE "absent"]
    /\ Restarted({r \in Requests : pc[r] \in {"starting", "loading", "waiting"} /\ id[r] = a},
                 [r \in Requests |-> Failure(r)])
    /\ UNCHANGED <<driver, key, id, via, directory, disputed>>

-----------------------------------------------------------------------------
(* The handlers of the router and the methods of the inline client, whole.    *)

\* "inline" mode: the topology's handlers in this process; "custom": the actor's own.
Route(r) == getActor(r) \/ loadActor(r) \/ getActorId(r) \/ Answered(r)

handleSseConnectRequest(r) ==
    \/ Accept(r, "sse", "authenticating")
    \/ via[r] = "sse" /\ (authenticateEndpoint(r, {"connect"}) \/ Route(r))

handleWebSocketConnectRequest(r) ==
    \/ Accept(r, "websocket", IF driver \in NoUpgrade THEN "failed" ELSE "authenticating")
    \/ via[r] = "websocket" /\ (authenticateEndpoint(r, {"connect"}) \/ Route(r))

handleActionRequest(r) ==
    \/ Accept(r, "action", "authenticating")
    \/ via[r] = "action" /\ (authenticateEndpoint(r, {"action"}) \/ Route(r))

handleResolveRequest(r) ==
    \/ Accept(r, "resolve", "authenticating")
    \/ via[r] = "resolve" /\ (authenticateEndpoint(r, {}) \/ Answered(r))

(* A message of a stream's client names the actor that its stream is from:    *)
(* there is no query, and onAuth is not asked (the connection has a token).   *)
sendHttpMessage(r) ==
    /\ pc[r] = "idle" /\ "message" \in Serves[r]
    /\ \E s \in Requests :
          /\ pc[s] = "done" /\ via[s] = "sse"
          /\ key' = [key EXCEPT ![r] = key[s]]
          /\ id' = [id EXCEPT ![r] = id[s]]
    /\ pc' = [pc EXCEPT ![r] = "resolved"]
    /\ via' = [via EXCEPT ![r] = "message"]
    /\ UNCHANGED <<driver, directory, handler, faults, disputed>>

handleMessageRequest(r) == sendHttpMessage(r) \/ (via[r] = "message" /\ Route(r))

\* GET /actors/connect/websocket and /actors/connect/sse
ConnectRoutes(r) == handleWebSocketConnectRequest(r) \/ handleSseConnectRequest(r)

\* POST /actors/actions/{action} and /actors/message
CallRoutes(r) == handleActionRequest(r) \/ handleMessageRequest(r)

\* These, and POST /actors/resolve.
createManagerRouter(r) == handleResolveRequest(r) \/ ConnectRoutes(r) \/ CallRoutes(r)

\* The inline client asks no onAuth: its queryActor takes a query as it is.
inlineQueryActor(r) == queryActor(r, Intents)

inlineAction(r) ==
    \/ Accept(r, "inline", "authenticating")
    \/ via[r] = "inline" /\ (inlineQueryActor(r) \/ Route(r))

resolveActorId(r) ==
    \/ Accept(r, "inline-resolve", "authenticating")
    \/ via[r] = "inline-resolve" /\ (inlineQueryActor(r) \/ Answered(r))

createInlineClientDriver(r) == inlineAction(r) \/ resolveActorId(r)

Create(r) ==
    \/ createActor(r)
    \/ MemoryCreate(r) \/ RedisCreate(r)
    \/ FileSystemCreate(r) \/ saveActorState(r)
    \/ initialize(r) \/ CloudflareCreate(r)
    \/ RivetCreate(r) \/ RivetInitialize(r) \/ RivetDestroy(r)

Load(r) == LoadEnds(r) \/ LoadThrows(r) \/ Serve(r)

Step(r) == createManagerRouter(r) \/ createInlineClientDriver(r) \/ Create(r) \/ Load(r)

Next ==
    \/ \E r \in Requests : Step(r)
    \/ \E a \in Actors : startActor(a) \/ ActorRestarts(a)
    \/ ProcessRestarts

\* Hooks, storage and services answer; clients and faults are never forced.
Fairness ==
    /\ \A r \in Requests : WF_vars(pc[r] # "idle" /\ Step(r))
    /\ \A a \in Ids : WF_vars(startActor(a))

Spec == Init /\ [][Next]_vars /\ Fairness

-----------------------------------------------------------------------------
(* Properties.                                                               *)

\* What KeyDirectory calls told.
answers == [r \in Requests |-> IF Told(r) THEN [key |-> key[r], id |-> id[r]] ELSE None]

\* An id that is derived from its key is never in dispute.
open == IF driver \in Named THEN {} ELSE disputed

Abstract == INSTANCE KeyDirectory WITH told <- answers, disputed <- open

(* Refinement: callers are told one actor per key and one key per actor,      *)
(* across drivers, queries that create, failures and restarts.  A key is      *)
(* excepted only once two requests were both past the look and before the     *)
(* creation, once a restarted manager forgot an actor that was destroyed, or, *)
(* under Rivet, once an actor of [""] has been cached as that of [].          *)
KeysNameOneActor == Abstract!Spec

(* "Since keys are 1:1 with actor IDs" (redis/src/manager.ts:67) holds of the *)
(* keys that are not in dispute.                                              *)
OneActorPerKey ==
    \A r, s \in Requests :
       Told(r) /\ Told(s) /\ key[r] = key[s] /\ key[r] \notin open => id[r] = id[s]

(* As the comment has it, of every key: TLC refutes it.                       *)
KeysAreOneToOne ==
    \A r, s \in Requests : Told(r) /\ Told(s) => (key[r] = key[s] <=> id[r] = id[s])

Loaders(a) == {r \in Requests : pc[r] \in {"loading", "starting"} /\ id[r] = a}

(* An actor is loaded by one request at a time however many ask for it, and   *)
(* one that is loaded is never started again in the same life.                *)
LoadsOnce ==
    /\ TypeOK
    /\ \A a \in Actors :
          Cardinality(Loaders(a)) = IF handler[a] = "loading" /\ driver # "rivet" THEN 1 ELSE 0

(* What an actor that somebody has used holds is not put back to empty by a   *)
(* creation, whatever write of an earlier one failed, unless the one that     *)
(* empties it missed another on its way or read Workers KV too early.         *)
NeverReset ==
    [][\A a \in Actors : store[a] = "used" /\ a \notin disputed => store'[a] = "used"]_vars

(* Of every key, and of what the first start wrote: TLC refutes it.           *)
NeverEmptied ==
    [][\A a \in Actors : store[a] \in {"started", "used"} => store'[a] # "empty"]_vars

Ended(r) == pc[r] \in {"done", "failed", "refused", "dropped"}

\* The start that r waits for has thrown, or waits itself for an initialisation.
HasNoEnd(r) ==
    /\ pc[r] = "waiting"
    /\ handler[id[r]] = "stuck" \/ (driver = "rivet" /\ handler[id[r]] = "absent")

(* Whatever fails, in the end every request has been answered but those that  *)
(* wait for an actor whose start has thrown, or that nobody has initialised:  *)
(* these two waits have no end, and no other way leads to one.                *)
RequestsSettle ==
    <>[](\A r \in Requests : pc[r] = "idle" \/ Ended(r) \/ HasNoEnd(r))

MayCreate(r) == via[r] \in Methods \/ "create" \in Grants[r]

(* An actor exists under a key, or is being created, only for a request that  *)
(* onAuth granted the intent, or for one of the inline client.                *)
CreationsAreGranted ==
    /\ \A r \in Requests : pc[r] \in Unresolved \ {"authenticating"} => MayCreate(r)
    /\ \A a \in Actors :
          owner[a] # None => \E r \in Requests : key[r] = owner[a] /\ MayCreate(r)

-----------------------------------------------------------------------------
(* The inductive invariants behind the theorems of ActorDirectoryProofs.      *)

(* What a request holds at each stage, and the drivers that have the stage.   *)
StagesFit ==
    \A r \in Requests :
       /\ key[r] = None <=> pc[r] = "idle"
       /\ pc[r] \in {"idle", "authenticating", "creating", "inserting"} => id[r] = None
       /\ Told(r) \/ pc[r] \in {"saving", "initializing", "starting", "indexing"} => id[r] # None
       /\ pc[r] = "inserting" => driver # "file-system"
       /\ pc[r] = "saving" => driver = "file-system"
       /\ pc[r] = "initializing" => driver = "rivet"
       /\ pc[r] \in {"starting", "indexing"} => driver = "cloudflare"
       /\ pc[r] = "loading" => driver \notin {"redis", "rivet"}

OneLoader ==
    \A a \in Actors :
       /\ \A r, s \in Loaders(a) : r = s
       /\ Loaders(a) # {} <=> handler[a] = "loading" /\ driver # "rivet"

(* Where the id is derived from the key nothing else is ever told or stored.  *)
NamedByKey ==
    driver \in Named =>
       /\ \A r \in Requests : id[r] \in {None, key[r]}
       /\ \A a \in Actors : owner[a] \in {None, a}
       /\ \A k \in Keys : cache[k] = None

IInv == TypeOK /\ StagesFit /\ OneLoader /\ NamedByKey

(* Where ids are random: what names a as the actor of k.                      *)
KnownAs(k, a) ==
    \/ index[k] = a \/ cache[k] = a \/ owner[a] = k
    \/ \E r \in Requests : key[r] = k /\ id[r] = a

KnownExist == \A k \in Keys, a \in Actors : KnownAs(k, a) => store[a] # "none"

KnownApart ==
    \A k, l \in Keys, a \in Actors :
       KnownAs(k, a) /\ KnownAs(l, a) => k = l \/ (k \in disputed /\ l \in disputed)

KnownOnce ==
    \A k \in Keys \ disputed, a, b \in Actors : KnownAs(k, a) /\ KnownAs(k, b) => a = b

KnownFound ==
    \A k \in Keys \ disputed, a \in Actors :
       KnownAs(k, a) => index[k] # None \/ cache[k] # None

InsertsAlone ==
    \A r \in Requests : pc[r] = "inserting" /\ key[r] \notin disputed =>
       /\ \A a \in Actors : ~KnownAs(key[r], a)
       /\ \A s \in Requests : pc[s] = "inserting" /\ key[s] = key[r] => s = r

InitializesItsOwn ==
    \A r \in Requests : pc[r] = "initializing" =>
       /\ owner[id[r]] = key[r]
       /\ key[r] \notin disputed => cache[key[r]] = id[r]
       /\ \A s \in Requests : pc[s] = "initializing" /\ id[s] = id[r] => s = r

FoundByKey ==
    driver \notin Named =>
       /\ driver # "rivet" => \A k \in Keys : cache[k] = None
       /\ KnownExist /\ KnownApart /\ KnownOnce /\ KnownFound
       /\ InsertsAlone /\ InitializesItsOwn

(* A Durable Object that has been used is in the index, and whoever is about  *)
(* to create its key again has missed it.                                     *)
UsedIsIndexed ==
    driver = "cloudflare" =>
       /\ \A r \in Requests : Told(r) => owner[key[r]] # None
       /\ \A k \in Keys : store[k] = "used" => owner[k] # None
       /\ \A r \in Requests : pc[r] = "inserting" /\ key[r] \notin disputed =>
             /\ owner[key[r]] = None
             /\ \A s \in Requests :
                   pc[s] \in {"inserting", "starting", "indexing"} /\ key[s] = key[r] => s = r
=============================================================================
