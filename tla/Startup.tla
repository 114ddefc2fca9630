------------------------------ MODULE Startup ------------------------------
(***************************************************************************)
(* bootstrap (index.ts) up to the first batch: the environment is read     *)
(* twice, by ConfigSchema with defaults and by KafkaConfigProvider without *)
(* them; the container constructs its classes when the cradle is read, in  *)
(* the order of the names that bootstrap takes from it; each of them gets  *)
(* the singletons that exist by then.  Whatever throws ends the process,   *)
(* and the container of docker-compose.yml starts it again.                *)
(***************************************************************************)
EXTENDS Naturals

CONSTANTS MaxRefusals  \* bound: brokers or ports that refuse

VARIABLES env,        \* the environment of the container, what is told apart
          boot,       \* where bootstrap is
          instances,  \* singletons that exist in this process
          refusals    \* refusals so far

vars == <<env, boot, instances, refusals>>

Steps == {"exited", "configuring", "client", "pool", "repository", "consumer",
          "connecting", "listening", "running"}

\* The variables whose presence or form decides whether something throws.
Environments ==
  [required : BOOLEAN,   \* the five keys without a default are set
   node     : {"unset", "development", "test", "production", "other"},
   brokers  : BOOLEAN,   \* KAFKA_BROKERS is set
   sasl     : {"none", "complete", "no password"},
   url      : {"unset", "verify-full", "plain", "no URL"},
   pool     : {"ordered", "inverted"}]  \* DB_POOL_MIN and DB_POOL_MAX

\* NODE_ENV after ConfigSchema: unset is production.
NodeEnv == IF env.node = "unset" THEN "production" ELSE env.node

ConfigAccepts == env.required /\ env.node # "other"
KafkaAccepts  == env.brokers /\ env.sasl # "no password"
\* The default of DB_URL is one without sslmode.
PoolAccepts   == /\ env.url # "no URL" /\ env.pool = "ordered"
                 /\ NodeEnv = "production" => env.url = "verify-full"

Init ==
  /\ env \in Environments
  /\ boot = "exited" /\ instances = {}
  /\ refusals = 0

\* What throws in bootstrap ends in process.exit(1).
Exit == boot' = "exited" /\ instances' = {}

\* One step of bootstrap, which makes the singletons new or throws.
Step(from, accepts, new, to) ==
  /\ boot = from
  /\ \/ accepts /\ boot' = to /\ instances' = instances \cup new
     \/ ~accepts /\ Exit
  /\ UNCHANGED <<env, refusals>>

Launch == Step("exited", TRUE, {}, "configuring")

\* createDependencyContainer: createConfig, and the values made on the spot.
CreateContainer ==
  Step("configuring", ConfigAccepts,
       {"MetricsCollector", "ProjectionStore", "OrchestrationMetricsCollector"},
       "client")

\* The orchestrator needs the alerting subsystem, and that the client.
ConstructClient ==
  Step("client", KafkaAccepts,
       {"MetricsManager", "KafkaConfigProvider", "KafkaEventProducer"}, "pool")

\* The event repository asks for its two singletons: the first is made from the
\* configuration, the second has to be there.
ConstructPool == Step("pool", PoolAccepts, {"PostgresPoolManager"}, "repository")
ConstructRepository ==
  Step("repository", "CryptoManager" \in instances, {}, "consumer")

\* The rules are registered and the consumer is constructed.
ConstructConsumer ==
  Step("consumer", {"KafkaConfigProvider", "MetricsManager"} \subseteq instances,
       {}, "connecting")

ClientStarts  == Step("connecting", TRUE, {}, "listening")
ServerListens == Step("listening", TRUE, {}, "running")

\* A broker does not answer, or the port is taken.
Refused ==
  /\ boot \in {"connecting", "listening"}
  /\ refusals < MaxRefusals /\ refusals' = refusals + 1
  /\ Exit
  /\ UNCHANGED env

Progress ==
  \/ Launch \/ CreateContainer \/ ConstructClient \/ ConstructPool
  \/ ConstructRepository \/ ConstructConsumer \/ ClientStarts \/ ServerListens

Next == Progress \/ Refused

\* bootstrap goes on, and the container is restarted (restart: always).
FairSpec == Init /\ [][Next]_vars /\ WF_vars(Progress)

-----------------------------------------------------------------------------
Complete == ConfigAccepts /\ KafkaAccepts /\ PoolAccepts

\* README 6: with an environment that every check accepts the engine starts,
\* whatever was refused before.
EngineStarts == Complete => <>(boot = "running")
=============================================================================
