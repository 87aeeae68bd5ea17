--------------------------- MODULE ServiceProcess ---------------------------
(***************************************************************************)
(* A process of restaurant-svc or delivery-svc from its start to its end:  *)
(* main reads the environment, creates the tables, seeds them if it is     *)
(* asked to, and only then starts the consumer (KafkaConsumer) and serves  *)
(* HTTP.  Any error until then is log.Fatalf.  The seed is a count and     *)
(* then one INSERT per row, with no transaction around them.               *)
(* src/services/restaurant/cmd/main.go, src/services/delivery/cmd/main.go, *)
(* src/pkg/config/config.go and Seed of the two repositories.              *)
(***************************************************************************)
EXTENDS KafkaConsumer

CONSTANTS
    SeedRows,       \* rows that Seed inserts
    Environments    \* what the variables may hold: records [app, seed, complete]

ASSUME ProcessAssumption == SeedRows \in Nat \ {0}

VARIABLES
    proc,     \* the step of main
    env,      \* APP_ENV, SEED_DATA, and whether everything else is set
    rows,     \* rows of the seeded table
    cut       \* history: a start ended while it was seeding

processVars == <<proc, env, rows, cut>>
allVars == <<consumerVars, processVars>>

-----------------------------------------------------------------------------
(***************************************************************************)
(* pkg/config.                                                             *)
(***************************************************************************)
\* A name that is not known counts as dev.
AppEnv(raw) ==
    CASE raw \in {"stage", "staging"}   -> "stage"
      [] raw \in {"prod", "production"} -> "prod"
      [] OTHER                          -> "dev"

IsDev == AppEnv(env.app) = "dev"

\* Bool("SEED_DATA", IsDev()): a dev default, and required nowhere.
SeedData == IF env.seed = "" THEN IsDev ELSE env.seed = "true"

\* Otherwise requireInNonDev or ParseBool ends the process.
ConfigIsValid == (IsDev \/ env.complete) /\ env.seed \in {"", "true", "false"}

-----------------------------------------------------------------------------
(***************************************************************************)
(* main until it serves.                                                   *)
(***************************************************************************)
Goes(step) == proc' = step /\ UNCHANGED consumerVars
Fatal      == proc' = "down" /\ Fault /\ UNCHANGED <<topic, at, next, handedOver, stored, since, handled, deaths>>

\* Mutant: main serves HTTP without its consumer.
ServeOnly == proc' = "serving" /\ UNCHANGED consumerVars
Serve     == proc' = "serving" /\ StartConsumer

StartProcess ==
    /\ proc = "down" /\ ConfigIsValid
    /\ Goes("migrate")
    /\ UNCHANGED <<env, rows, cut>>

\* CREATE TABLE IF NOT EXISTS.
Migrate ==
    /\ proc = "migrate"
    /\ \/ SeedData /\ Goes("count")
       \/ ~SeedData /\ Serve
       \/ Fatal
    /\ UNCHANGED <<env, rows, cut>>

\* Mutant: the rows are not counted.
CountNothing ==
    /\ proc = "count"
    /\ Goes("seed")
    /\ UNCHANGED <<env, rows, cut>>

\* SELECT count(star): a table with a row counts as seeded.
CountRows ==
    /\ proc = "count"
    /\ \/ rows = 0 /\ Goes("seed")
       \/ rows > 0 /\ Serve
       \/ Fatal
    /\ UNCHANGED <<env, rows, cut>>

\* One INSERT of the seed; an error may come after the row is there.
InsertRow ==
    /\ proc = "seed"
    /\ \/ rows' = rows + 1 /\ UNCHANGED cut
          /\ IF rows + 1 < SeedRows THEN Goes("seed") ELSE Serve
       \/ rows' \in {rows, rows + 1} /\ cut' = TRUE /\ Fatal
    /\ UNCHANGED env

\* The process dies, while it starts or while it serves.
ProcessDies ==
    /\ proc # "down" /\ deaths < MaxDeaths
    /\ deaths' = deaths + 1
    /\ proc' = "down"
    /\ cut' = (cut \/ proc = "seed")
    /\ ConsumerDies
    /\ UNCHANGED <<env, rows>>

-----------------------------------------------------------------------------
ProcessInit ==
    /\ ConsumerInit
    /\ proc = "down" /\ rows = 0 /\ cut = FALSE
    /\ env \in Environments

Startup == Migrate \/ CountRows \/ InsertRow

ProcessNext ==
    \/ StartProcess \/ Startup \/ ProcessDies
    \/ Run /\ UNCHANGED processVars
    \/ \E kind \in {"event", "junk"} : Publish(kind) /\ UNCHANGED processVars

ProcessSpec == ProcessInit /\ [][ProcessNext]_allVars

\* Whoever starts a process need not start it again; what it does it goes on with.
FairProcess == ProcessSpec /\ ConsumerFairness /\ WF_allVars(Startup)

-----------------------------------------------------------------------------
\* Types, and a consumer runs exactly while its process serves.
ProcessTypeOK ==
    /\ ConsumerTypeOK
    /\ proc \in {"down", "migrate", "count", "seed", "serving"}
    /\ env \in Environments /\ rows \in Nat /\ cut \in BOOLEAN
    /\ proc = "serving" <=> at # "down"

\* Starting again and again never seeds twice; a table that is served from is
\* as whole as the configuration says, unless a start was cut while seeding:
\* then the rows that were missing stay missing.
SeededOnce ==
    /\ rows <= SeedRows
    /\ SeedData /\ proc = "serving" => rows > 0 /\ (rows = SeedRows \/ cut)
    /\ ~SeedData => rows = 0
=============================================================================
