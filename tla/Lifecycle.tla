----------------------------- MODULE Lifecycle ------------------------------
(***************************************************************************)
(* The API processes: lifespan in app/main.py and the registries it fills. *)
(*                                                                         *)
(*   start: tracing -> session factory -> SELECT 1 -> Redis client, PING   *)
(*          -> migrations -> demo merchants -> serve                       *)
(*   stop:  dispose the engine -> close Redis -> stop tracing              *)
(*                                                                         *)
(* A step is what runs between two awaits.  Several replicas start against *)
(* one database, which may be down, as Redis may.  An error of a start     *)
(* ends the process, and the platform starts another.  alembic upgrades in *)
(* one transaction; the first statement of an upgrade waits for another    *)
(* open upgrade, and fails if that one committed.                          *)
(*                                                                         *)
(* Source: app/main.py, app/db/session_factory.py, app/db/redis.py,        *)
(* app/db/engine.py, app/observability.py, migrations/env.py.              *)
(***************************************************************************)
EXTENDS Integers

CONSTANTS
  Replica,        \* API processes
  SkipMigrations, \* those with settings.skip_migrations
  Injected,       \* those whose registries are filled before the app starts
  Tracing,        \* settings.otlp_endpoint is set
  HeadRevision,   \* the last migration; revisions are numbered
  MaxOutages,     \* bound: outages of PostgreSQL or Redis
  MaxStops        \* bound: stops and crashes of replicas

ASSUME ReplicaAssumption == SkipMigrations \subseteq Replica /\ Injected \subseteq Replica
ASSUME BoundsAssumption ==
  /\ Tracing \in BOOLEAN /\ HeadRevision \in Nat \ {0}
  /\ MaxOutages \in Nat /\ MaxStops \in Nat

VARIABLES
  version,   \* alembic_version, committed; 0 is the empty database
  seeded,    \* merchants has a row
  dbUp, redisUp,
  pc,        \* where each replica is in lifespan
  factory,   \* _factory of session_factory.py
  owned,     \* _engine is not None
  client,    \* _redis of redis.py
  provider,  \* _tracer_provider is not None
  revision,  \* the revision a replica's upgrade starts from
  outages, stops

database == <<version, seeded>>
servers == <<dbUp, redisUp, outages>>
slots == <<factory, owned, client, provider>>
lifecycle == <<database, servers, pc, slots, revision, stops>>

\* A fresh process; tests fill the registries before the app starts.
Preset(r) == IF r \in Injected THEN "injected" ELSE "none"

Init ==
  /\ version \in 0 .. HeadRevision
  /\ seeded \in {FALSE, version > 0}
  /\ dbUp = TRUE /\ redisUp = TRUE /\ outages = 0
  /\ pc = [r \in Replica |-> "off"]
  /\ factory = [r \in Replica |-> Preset(r)]
  /\ owned = [r \in Replica |-> FALSE]
  /\ client = [r \in Replica |-> Preset(r)]
  /\ provider = [r \in Replica |-> FALSE]
  /\ revision = [r \in Replica |-> 0]
  /\ stops = 0

Goto(r, l) == pc' = [pc EXCEPT ![r] = l]
-----------------------------------------------------------------------------
\* init_tracing never raises; shutdown_tracing ends the provider, if any.
InitTracing(r) == provider' = [provider EXCEPT ![r] = Tracing]
ShutdownTracing(r) == provider' = [provider EXCEPT ![r] = FALSE]

\* configure_redis replaces what is configured; close_redis, reset_redis
ConfigureRedis(r) == client' = [client EXCEPT ![r] = "own"]
ResetRedis(r) == client' = [client EXCEPT ![r] = "none"]

\* Tracing, and the session factory: an engine of its own unless one is
\* configured.
Start(r) ==
  /\ pc[r] \in {"off", "stopped"}
  /\ InitTracing(r)
  /\ owned' = [owned EXCEPT ![r] = factory[r] = "none"]
  /\ factory' = [factory EXCEPT ![r] = IF @ = "none" THEN "own" ELSE @]
  /\ Goto(r, "db")
  /\ UNCHANGED <<database, servers, client, revision, stops>>

\* SELECT 1; then a Redis client, whatever is configured.
CheckDatabase(r) ==
  /\ pc[r] = "db" /\ dbUp
  /\ ConfigureRedis(r)
  /\ Goto(r, "redis")
  /\ UNCHANGED <<database, servers, factory, owned, provider, revision, stops>>

\* Mutant of CheckRedis: the migrations are left to the operator.
CheckRedisOnly(r) ==
  /\ pc[r] = "redis" /\ redisUp
  /\ Goto(r, "seed")
  /\ UNCHANGED <<database, servers, slots, revision, stops>>

CheckRedis(r) ==
  /\ pc[r] = "redis" /\ redisUp
  /\ Goto(r, IF r \in SkipMigrations THEN "seed" ELSE "migrate")
  /\ UNCHANGED <<database, servers, slots, revision, stops>>

\* _run_migrations: what is to be done follows from the version read first.
ReadRevision(r) ==
  /\ pc[r] = "migrate" /\ dbUp
  /\ IF version = HeadRevision
     THEN Goto(r, "seed") /\ UNCHANGED revision
     ELSE Goto(r, "upgrade") /\ revision' = [revision EXCEPT ![r] = version]
  /\ UNCHANGED <<database, servers, slots, stops>>

BeginUpgrade(r) ==
  /\ pc[r] = "upgrade" /\ dbUp
  /\ \A q \in Replica : pc[q] # "ddl"
  /\ version = revision[r]
  /\ Goto(r, "ddl")
  /\ UNCHANGED <<database, servers, slots, revision, stops>>

CommitUpgrade(r) ==
  /\ pc[r] = "ddl" /\ dbUp
  /\ version' = HeadRevision
  /\ revision' = [revision EXCEPT ![r] = 0]
  /\ Goto(r, "seed")
  /\ UNCHANGED <<seeded, servers, slots, stops>>

\* _seed_demo_data: nothing to do if there is a merchant.
CheckMerchants(r) ==
  /\ pc[r] = "seed" /\ dbUp /\ version > 0
  /\ Goto(r, IF seeded THEN "serving" ELSE "insert")
  /\ UNCHANGED <<database, servers, slots, revision, stops>>

InsertMerchants(r) ==
  /\ pc[r] = "insert" /\ dbUp
  /\ seeded' = TRUE
  /\ Goto(r, "serving")
  /\ UNCHANGED <<version, servers, slots, revision, stops>>

Starting(r) == pc[r] \in {"db", "redis", "migrate", "upgrade", "ddl", "seed", "insert"}

\* A statement of the start raises: a server is down, another replica has
\* upgraded meanwhile, or merchants does not exist.
Raises(r) ==
  \/ Starting(r) /\ pc[r] # "redis" /\ ~dbUp
  \/ pc[r] = "redis" /\ ~redisUp
  \/ pc[r] = "upgrade" /\ version # revision[r]
  \/ pc[r] = "seed" /\ version = 0

\* The process is gone, with its registries; PostgreSQL rolls back.
Gone(r) ==
  /\ Goto(r, "off")
  /\ factory' = [factory EXCEPT ![r] = Preset(r)]
  /\ owned' = [owned EXCEPT ![r] = FALSE]
  /\ client' = [client EXCEPT ![r] = Preset(r)]
  /\ provider' = [provider EXCEPT ![r] = FALSE]
  /\ revision' = [revision EXCEPT ![r] = 0]

\* An error before the yield: no shutdown code runs, and the server exits.
FailStart(r) ==
  /\ Raises(r)
  /\ Gone(r)
  /\ UNCHANGED <<database, servers, stops>>
-----------------------------------------------------------------------------
\* SIGTERM; the server has waited for the open requests.
Stop(r) ==
  /\ pc[r] = "serving" /\ stops < MaxStops
  /\ stops' = stops + 1
  /\ Goto(r, "dispose")
  /\ UNCHANGED <<database, servers, slots, revision>>

\* Mutant of DisposeEngine: an engine that was injected is disposed too.
DisposeAnyEngine(r) ==
  /\ pc[r] = "dispose"
  /\ factory' = [factory EXCEPT ![r] = "none"]
  /\ owned' = [owned EXCEPT ![r] = FALSE]
  /\ Goto(r, "close")
  /\ UNCHANGED <<database, servers, client, provider, revision, stops>>

\* Only an engine of its own; reset_session_factory.
DisposeEngine(r) ==
  /\ pc[r] = "dispose"
  /\ factory' = [factory EXCEPT ![r] = IF owned[r] THEN "none" ELSE @]
  /\ owned' = [owned EXCEPT ![r] = FALSE]
  /\ Goto(r, "close")
  /\ UNCHANGED <<database, servers, client, provider, revision, stops>>

CloseRedis(r) ==
  /\ pc[r] = "close"
  /\ ResetRedis(r) /\ ShutdownTracing(r)
  /\ Goto(r, "stopped")
  /\ UNCHANGED <<database, servers, factory, owned, revision, stops>>

\* The process ends; one that tests run in may start the app again instead.
Exit(r) ==
  /\ pc[r] = "stopped"
  /\ Gone(r)
  /\ UNCHANGED <<database, servers, stops>>

\* Killed in the middle of anything.
Crash(r) ==
  /\ pc[r] # "off" /\ stops < MaxStops
  /\ stops' = stops + 1
  /\ Gone(r)
  /\ UNCHANGED <<database, servers>>
-----------------------------------------------------------------------------
GoDown ==
  /\ outages < MaxOutages
  /\ outages' = outages + 1
  /\ \/ dbUp /\ dbUp' = FALSE /\ UNCHANGED redisUp
     \/ redisUp /\ redisUp' = FALSE /\ UNCHANGED dbUp
  /\ UNCHANGED <<database, pc, slots, revision, stops>>

ComeBack ==
  /\ ~dbUp \/ ~redisUp
  /\ dbUp' = TRUE /\ redisUp' = TRUE
  /\ UNCHANGED <<database, outages, pc, slots, revision, stops>>

\* What a replica does when nobody interferes.
Proceed(r) ==
  \/ Start(r) \/ CheckDatabase(r) \/ CheckRedis(r)
  \/ ReadRevision(r) \/ BeginUpgrade(r) \/ CommitUpgrade(r)
  \/ CheckMerchants(r) \/ InsertMerchants(r) \/ FailStart(r)
  \/ DisposeEngine(r) \/ CloseRedis(r)

Next ==
  \/ \E r \in Replica : Proceed(r) \/ Stop(r) \/ Exit(r) \/ Crash(r)
  \/ GoDown \/ ComeBack

Spec == Init /\ [][Next]_lifecycle

\* The platform starts a process that is not there, asyncio runs lifespan,
\* and an outage ends.
Fairness == (\A r \in Replica : WF_lifecycle(Proceed(r))) /\ WF_lifecycle(ComeBack)
-----------------------------------------------------------------------------
TypeOK ==
  /\ version \in 0 .. HeadRevision /\ seeded \in BOOLEAN
  /\ dbUp \in BOOLEAN /\ redisUp \in BOOLEAN /\ outages \in 0 .. MaxOutages
  /\ pc \in [Replica -> {"off", "db", "redis", "migrate", "upgrade", "ddl", "seed",
                         "insert", "serving", "dispose", "close", "stopped"}]
  /\ factory \in [Replica -> {"none", "own", "injected"}]
  /\ owned \in [Replica -> BOOLEAN]
  /\ client \in [Replica -> {"none", "own", "injected"}]
  /\ provider \in [Replica -> BOOLEAN]
  /\ revision \in [Replica -> 0 .. HeadRevision]
  /\ stops \in 0 .. MaxStops

(***************************************************************************)
(* A replica that serves can: both registries are filled, there is a       *)
(* merchant, and the schema is at head, or, if the replica skips the       *)
(* migrations, exists.  However the other replicas start, migrate, stop    *)
(* and crash meanwhile.                                                    *)
(***************************************************************************)
ServingMeansReady ==
  \A r \in Replica : pc[r] = "serving" =>
    /\ factory[r] # "none" /\ client[r] # "none"
    /\ seeded
    /\ version = HeadRevision \/ (r \in SkipMigrations /\ version > 0)

(***************************************************************************)
(* The engine belongs to who built it: after a stop the app has released   *)
(* an engine of its own and left an injected one in the registry, so that  *)
(* it can start again in the same process; nothing of Redis and tracing    *)
(* is left.                                                                *)
(***************************************************************************)
StopReleasesItsOwn ==
  \A r \in Replica : pc[r] = "stopped" =>
    /\ factory[r] = Preset(r) /\ ~owned[r]
    /\ client[r] = "none" /\ ~provider[r]

(***************************************************************************)
(* In the end every replica serves, although a replica that loses the race *)
(* to migrate fails its start, and one that skips the migrations fails     *)
(* until another has run them.                                             *)
(***************************************************************************)
ReplicasSettle == <>[](\A r \in Replica : pc[r] = "serving")
=============================================================================
