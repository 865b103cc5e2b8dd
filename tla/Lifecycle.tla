-------------------------------- MODULE Lifecycle --------------------------------
(***************************************************************************)
(* One process from start to end: cmd/main.go, the loading of its          *)
(* configuration, and the opening and closing of the connection pools in   *)
(* internal/database/registry.go.                                          *)
(*                                                                         *)
(* Sources are opened one after the other under one startup deadline; a    *)
(* failure closes the source that failed and all opened before it.  The    *)
(* server runs until its standard input ends, a signal arrives or the      *)
(* transport fails.  log.Fatalf exits without running deferred calls.      *)
(***************************************************************************)
EXTENDS Config

CONSTANTS
    Files,          \* the files the process may be started with
    Environments    \* the variables, and their values, it may find

ASSUME LifecycleAssumption == Files \subseteq ConfigFiles

VARIABLES
    file,       \* the file, and
    environment,\* the environment of this process
    stage,      \* what main is doing
    startup,    \* the startup deadline has not passed
    pool,       \* each source's pool
    current,    \* the source being opened
    closing,    \* pools that the current closing loop still has to close
    exit        \* how the process ended

launch == <<file, environment>>
vars == <<launch, stage, startup, pool, current, closing, exit>>

N == Len(file.sources)

\* The configured sources, opened in the order 1 .. N.
Sources == 1 .. N

Open == {s \in Sources : pool[s] \in {"opened", "checked"}}

-----------------------------------------------------------------------------
Init ==
    /\ file \in Files
    /\ environment \in Environments
    /\ stage = "loading"
    /\ startup = TRUE
    /\ pool = [s \in Sources |-> "none"]
    /\ current = 1
    /\ closing = {}
    /\ exit = "none"

Exit(how) == stage' = "stopped" /\ exit' = how

LoadFails ==
    /\ stage = "loading" /\ ~Loads(file, environment)
    /\ Exit("fatal")
    /\ UNCHANGED <<launch, startup, pool, current, closing>>

Load ==
    /\ stage = "loading" /\ Loads(file, environment)
    /\ stage' = "opening"
    /\ UNCHANGED <<launch, startup, pool, current, closing, exit>>

\* Mutant: a source is registered without the connection check.
OpenWithoutPing ==
    /\ stage = "opening" /\ current \in Sources /\ pool[current] = "none"
    /\ pool' = [pool EXCEPT ![current] = "opened"]
    /\ current' = current + 1
    /\ UNCHANGED <<launch, stage, startup, closing, exit>>

\* sql.Open and configurePool; no connection is made yet.
OpenPool ==
    /\ stage = "opening" /\ current \in Sources /\ pool[current] = "none"
    /\ pool' = [pool EXCEPT ![current] = "opened"]
    /\ UNCHANGED <<launch, stage, startup, current, closing, exit>>

\* The DSN does not parse: nothing was opened for this source.
OpenFails ==
    /\ stage = "opening" /\ current \in Sources /\ pool[current] = "none"
    /\ stage' = "aborting"
    /\ closing' = {s \in Sources : s < current}
    /\ UNCHANGED <<launch, startup, pool, current, exit>>

\* Mutant: the loop skips a source.
PingAdvancesTwice ==
    /\ stage = "opening" /\ startup /\ current \in Sources /\ pool[current] = "opened"
    /\ pool' = [pool EXCEPT ![current] = "checked"]
    /\ current' = current + 2
    /\ UNCHANGED <<launch, stage, startup, closing, exit>>

PingSucceeds ==
    /\ stage = "opening" /\ startup /\ current \in Sources /\ pool[current] = "opened"
    /\ pool' = [pool EXCEPT ![current] = "checked"]
    /\ current' = current + 1
    /\ UNCHANGED <<launch, stage, startup, closing, exit>>

\* Mutant: the sources opened earlier are forgotten.
AbortClosingOnlyThis ==
    /\ stage' = "aborting"
    /\ pool' = [pool EXCEPT ![current] = "closed"]
    /\ closing' = {}

\* openSource closes the pool it could not check, openRegistry the others.
Abort ==
    /\ stage' = "aborting"
    /\ pool' = [pool EXCEPT ![current] = "closed"]
    /\ closing' = {s \in Sources : s < current}

\* Mutant: a source that fails its check is left out and startup goes on.
PingFailureIsSkipped ==
    /\ stage = "opening" /\ current \in Sources /\ pool[current] = "opened"
    /\ pool' = [pool EXCEPT ![current] = "closed"]
    /\ current' = current + 1
    /\ UNCHANGED <<launch, stage, startup, closing, exit>>

\* The database refuses the connection check.
PingFails ==
    /\ stage = "opening" /\ current \in Sources /\ pool[current] = "opened"
    /\ Abort
    /\ UNCHANGED <<launch, startup, current, exit>>

StartupExpires ==
    /\ startup /\ stage = "opening"
    /\ startup' = FALSE
    /\ UNCHANGED <<launch, stage, pool, current, closing, exit>>

\* Mutant: Ping takes no context and is never given up.
PingIgnoresDeadline == FALSE /\ UNCHANGED vars

\* PingContext returns when its context ends.
PingTimesOut ==
    /\ stage = "opening" /\ current \in Sources /\ pool[current] = "opened"
    /\ ~startup
    /\ Abort
    /\ UNCHANGED <<launch, startup, current, exit>>

\* NewRegistry keys the sources by their names.
DistinctIds ==
    \A s, t \in Sources : s # t => Loaded(file).sources[s].name # Loaded(file).sources[t].name

\* The registry is complete and the tools are registered: Run begins.  NewRegistry
\* closes all pools if two sources have one id.
Serve ==
    /\ stage = "opening" /\ current \notin Sources
    /\ IF DistinctIds
       THEN stage' = "serving" /\ UNCHANGED closing
       ELSE stage' = "aborting" /\ closing' = Sources
    /\ UNCHANGED <<launch, startup, pool, current, exit>>

\* Registry.Sources sorts by id: a source comes after those with a lower one.
SourcesByID ==
    LET sources == Loaded(file).sources
        Rank(s) == Cardinality({t \in Sources : sources[t].name < sources[s].name})
    IN [k \in Sources |-> CHOOSE s \in Sources : Rank(s) = k - 1]

\* What list_sources answers.
ListSources ==
    LET sources == Loaded(file).sources
        Info(s) == [id |-> sources[s].name, engine |-> sources[s].type,
                    display_name |-> sources[s].display_name,
                    description |-> sources[s].description,
                    aliases |-> sources[s].aliases, keywords |-> sources[s].keywords]
    IN [k \in Sources |-> Info(SourcesByID[k])]

-----------------------------------------------------------------------------
\* Run returns nil when the client closes standard input; main returns and its
\* deferred Close runs.
InputEnds ==
    /\ stage = "serving"
    /\ stage' = "closing"
    /\ closing' = Sources
    /\ UNCHANGED <<launch, startup, pool, current, exit>>

\* SIGINT or SIGTERM, or the transport: Run returns an error, log.Fatalf exits.
RunFails ==
    /\ stage = "serving"
    /\ Exit("fatal")
    /\ UNCHANGED <<launch, startup, pool, current, closing>>

\* The loops of closeSources, in the order of opening, and of Registry.Close,
\* over a map: an error of one source does not keep the others open.
CloseSource(s) ==
    /\ stage \in {"aborting", "closing"} /\ s \in closing
    /\ stage = "aborting" => \A t \in closing : s <= t
    /\ pool' = [pool EXCEPT ![s] = "closed"]
    /\ closing' = closing \ {s}
    /\ UNCHANGED <<launch, stage, startup, current, exit>>

\* The loop is over: log.Fatalf after a failed startup, or main returns.
Finish ==
    /\ stage \in {"aborting", "closing"} /\ closing = {}
    /\ Exit(IF stage = "aborting" THEN "fatal" ELSE "clean")
    /\ UNCHANGED <<launch, startup, pool, current, closing>>

-----------------------------------------------------------------------------
Process ==
    \/ Load \/ OpenPool \/ PingTimesOut \/ Serve \/ Finish
    \/ \E s \in Sources : CloseSource(s)

Environment ==
    \/ LoadFails \/ OpenFails \/ PingSucceeds \/ PingFails \/ StartupExpires
    \/ InputEnds \/ RunFails

Next == Process \/ Environment

Spec == Init /\ [][Next]_vars

\* The process takes its own steps and its timer fires; the databases, the client
\* and the operator owe nothing.
FairSpec == Spec /\ WF_vars(Process) /\ WF_vars(StartupExpires)

-----------------------------------------------------------------------------
\* What the fields of the model hold; the process has ended exactly when it has an
\* exit status.
TypeOK ==
    /\ file \in Files
    /\ stage \in {"loading", "opening", "aborting", "serving", "closing", "stopped"}
    /\ startup \in BOOLEAN
    /\ pool \in [Sources -> {"none", "opened", "checked", "closed"}]
    /\ current \in 1 .. (N + 1)
    /\ closing \subseteq Sources
    /\ exit \in {"none", "fatal", "clean"}
    /\ stage = "stopped" <=> exit # "none"

\* Requests are served only on pools whose database has answered, all of them.
ServesCheckedSources ==
    stage = "serving" => \A s \in Sources : pool[s] = "checked"

\* A process that stops without having served leaves no pool open, wherever the
\* startup failed; one that ends with its input leaves none either.
NoPoolLeftOpen ==
    stage = "stopped" /\ (exit = "clean" \/ current \in Sources) => Open = {}

\* A pool is closed only on the way out, and none is opened again.
ClosedStaysClosed ==
    [][\A s \in Sources : pool[s] = "closed" => pool'[s] = "closed" /\ stage' # "serving"]_vars

\* Startup comes to an end although a database does not answer.
StartupEnds == stage = "opening" ~> stage \in {"serving", "stopped"}

\* The rules of the source-discovery design: what is required, unique and bounded is
\* so after trimming, and a dsn names a variable that is set.
Documented ==
    LET Fits(t, field) ==
            t.ink # "" /\ t.ink \in ValidUTF8 /\ Runes[t.ink] <= MaxRunes[field]
        Profile(source) ==
            /\ Fits(source.display_name, "display_name")
            /\ Fits(source.description, "description")
            /\ \A field \in {"aliases", "keywords"} :
                  /\ Len(source[field]) <= MaxItems[field]
                  /\ \A j, k \in DOMAIN source[field] :
                        /\ Fits(source[field][k], "item")
                        /\ source[field][j].ink = source[field][k].ink => j = k
    IN /\ file.form = "one_document" /\ file.mode \in {"", "quick", "strict"}
       /\ Sources # {}
       /\ \A s, t \in Sources :
             file.sources[s].name = file.sources[t].name => s = t
       /\ \A s \in Sources :
             LET source == file.sources[s] IN
             /\ source.name # 0 /\ Profile(source)
             /\ source.type \in {"mysql", "clickhouse"}
             /\ source.dsn # NoReference
             /\ source.dsn \in DOMAIN environment /\ environment[source.dsn] # ""

\* The process goes on to its databases exactly with the files the design allows,
\* although the code looks at the sources one by one and at texts it has rewritten.
StartsAsDocumented ==
    [][stage = "loading" => stage' = (IF Documented THEN "opening" ELSE "stopped")]_vars

\* A client that asks for the sources is shown each configured one under its own
\* id, in ascending order, its texts without their surrounding white space.
ListsWhatIsConfigured ==
    stage = "serving" =>
        /\ Len(ListSources) = N
        /\ \A k \in 1 .. (N - 1) : ListSources[k].id < ListSources[k + 1].id
        /\ \A s \in Sources : \E k \in DOMAIN ListSources :
              LET shown == ListSources[k]
                  source == file.sources[s]
                  Same(a, b) == a = [ink |-> b.ink, pad |-> FALSE] IN
              /\ shown.id = source.name /\ shown.engine = source.type
              /\ Same(shown.display_name, source.display_name)
              /\ Same(shown.description, source.description)
              /\ \A field \in {"aliases", "keywords"} :
                    /\ DOMAIN shown[field] = DOMAIN source[field]
                    /\ \A j \in DOMAIN source[field] : Same(shown[field][j], source[field][j])

\* The design: the pools are released when the process shuts down.
ShutdownReleasesPools == stage = "stopped" => Open = {}
=============================================================================
