------------------------------ MODULE Startup ------------------------------
(***************************************************************************)
(* main and SetupConnect: how a replica of the operator starts from its    *)
(* environment, and how it makes the service and the deployment of Connect *)
(* when it is asked to.                                                    *)
(*                                                                         *)
(* The steps of main run one after the other; the goroutine that sets up   *)
(* Connect runs beside them from the moment MANAGE_CONNECT is read, and    *)
(* needs the cache, which main starts last.  An error ends the process, at *)
(* whatever stage either is, and Kubernetes starts it again with the same  *)
(* environment.  Leadership starts the controllers only, so it does not    *)
(* appear: caches, goroutine and poller do not wait for it.                *)
(***************************************************************************)
EXTENDS Integers, FiniteSets

CONSTANTS
    Pods,               \* replicas of the operator's deployment
    Environments,       \* the environments that are looked at
    Second,             \* nanoseconds in a second
    Width,              \* durations are from -Width to Width - 1
    DefaultInterval     \* 600, in seconds

Booleans == {"unset", "true", "false", "invalid"}
Objects == {"service", "deployment"}

\* namespace: can the operator's namespace be read; connect: are host and token
\* of Connect set; account: is the token of a service account set; manage,
\* restart: MANAGE_CONNECT, AUTO_RESTART; interval: POLLING_INTERVAL in seconds,
\* or none, if unset or no integer; watched: is the operator's own namespace one
\* of those in WATCH_NAMESPACE, or are all watched.
ASSUME StartupAssumption ==
    /\ Second \in Nat \ {0} /\ Width \in Nat
    /\ DefaultInterval \in Nat \ {0} /\ DefaultInterval * Second < Width
    /\ \A e \in Environments :
         /\ {e.namespace, e.connect, e.account, e.watched} \subseteq BOOLEAN
         /\ {e.manage, e.restart} \subseteq Booleans
         /\ e.interval = {} \/ \E s \in -Width..(Width - 1) : e.interval = {s}

VARIABLES
    environment,
    main,         \* pod -> the next stage of main
    setup,        \* pod -> what the goroutine looks at next, or "none"
    shown,        \* pod -> what its cache shows of Objects
    period,       \* pod -> the period of its ticker, 0 for none
    objects       \* what there is of Connect

startup == <<environment, main, setup, shown, period, objects>>

Stages == {"client", "connect", "ticker", "manager", "running"}

StartupTypeOK ==
    /\ environment \in Environments
    /\ main \in [Pods -> Stages]
    /\ setup \in [Pods -> Objects \cup {"none", "done"}]
    /\ shown \in [Pods -> SUBSET Objects]
    /\ period \in [Pods -> 0..(Width - 1)]
    /\ objects \subseteq Objects

StartupInit ==
    /\ environment \in Environments
    /\ main = [r \in Pods |-> "client"]
    /\ setup = [r \in Pods |-> "none"]
    /\ shown = [r \in Pods |-> {}]
    /\ period = [r \in Pods |-> 0]
    /\ objects \in SUBSET Objects

To(r, stage) == main' = [main EXCEPT ![r] = stage]

\* os.Exit, a panic or a crash, and the start of a new process.
Exit(r) ==
    /\ To(r, "client")
    /\ setup' = [setup EXCEPT ![r] = "none"]
    /\ shown' = [shown EXCEPT ![r] = {}]
    /\ period' = [period EXCEPT ![r] = 0]
    /\ UNCHANGED <<environment, objects>>
-----------------------------------------------------------------------------
(* main                                                                    *)

\* Kubernetes mounts it, and there is no other way to get it.
GetOperatorNamespace == environment.namespace

\* Host and token of Connect, or the token of a service account, not both.
NewFromEnvironment == environment.connect # environment.account

MakeClient(r) ==
    /\ main[r] = "client"
    /\ GetOperatorNamespace
    /\ NewFromEnvironment
    /\ To(r, "connect")
    /\ UNCHANGED <<environment, setup, shown, period, objects>>

ManageConnect(r) ==
    /\ main[r] = "connect"
    /\ environment.manage # "invalid"
    /\ setup' = [setup EXCEPT
           ![r] = IF environment.manage = "true" THEN "service" ELSE @]
    /\ To(r, "ticker")
    /\ UNCHANGED <<environment, shown, period, objects>>

\* A product of durations keeps its lowest 64 bits.
Wrapped(x) == ((x + Width) % (2 * Width)) - Width

\* The interval of the environment e, in seconds.
Seconds(e) ==
    IF e.interval = {} THEN DefaultInterval ELSE CHOOSE s \in e.interval : TRUE

\* Mutation: the number is taken for a duration.
IntervalInNanoseconds == Wrapped(Seconds(environment))

PollingInterval == Wrapped(Seconds(environment) * Second)

\* Mutation: the period is not looked at.
StartTickerAnyway(r) ==
    /\ main[r] = "ticker"
    /\ environment.restart # "invalid"
    /\ period' = [period EXCEPT ![r] = PollingInterval]
    /\ To(r, "manager")
    /\ UNCHANGED <<environment, setup, shown, objects>>

\* NewTicker panics unless the period is positive.
StartTicker(r) ==
    /\ main[r] = "ticker"
    /\ environment.restart # "invalid"
    /\ PollingInterval > 0
    /\ period' = [period EXCEPT ![r] = PollingInterval]
    /\ To(r, "manager")
    /\ UNCHANGED <<environment, setup, shown, objects>>

\* The cache starts with a list of what there is.
StartManager(r) ==
    /\ main[r] = "manager"
    /\ To(r, "running")
    /\ shown' = [shown EXCEPT ![r] = objects]
    /\ UNCHANGED <<environment, setup, period, objects>>

\* The environment is refused at the stage that needs it.
Refuse(r) ==
    /\ \/ main[r] = "client" /\ ~(GetOperatorNamespace /\ NewFromEnvironment)
       \/ main[r] = "connect" /\ environment.manage = "invalid"
       \/ main[r] = "ticker" /\ (environment.restart = "invalid" \/ PollingInterval <= 0)
    /\ Exit(r)
-----------------------------------------------------------------------------
(* The goroutine: SetupConnect looks for the service, then for the          *)
(* deployment, in the cache, and makes what it does not find.               *)

\* Mutation: the client asks the API server, and needs no cache.
CacheNeedless(r) == environment.watched

\* Until then the error is ErrCacheNotStarted, and SetupConnect is tried again.
CacheStarted(r) == environment.watched /\ main[r] = "running"

\* Mutation: the service is all that is looked at.
AfterAny(o) == "done"

After(o) == IF o = "service" THEN "deployment" ELSE "done"

Found(r, o) ==
    /\ setup[r] = o
    /\ CacheStarted(r)
    /\ o \in shown[r]
    /\ setup' = [setup EXCEPT ![r] = After(o)]
    /\ UNCHANGED <<environment, main, shown, period, objects>>

Make(r, o) ==
    /\ setup[r] = o
    /\ CacheStarted(r)
    /\ o \notin shown[r]
    /\ o \notin objects
    /\ objects' = objects \cup {o}
    /\ setup' = [setup EXCEPT ![r] = After(o)]
    /\ UNCHANGED <<environment, main, shown, period>>

\* Another replica has made it since: AlreadyExists.
LoseRace(r, o) ==
    /\ setup[r] = o
    /\ CacheStarted(r)
    /\ o \notin shown[r]
    /\ o \in objects
    /\ Exit(r)

\* The cache of the manager does not know the namespace, started or not.
Unwatched(r) ==
    /\ setup[r] \in Objects
    /\ ~environment.watched
    /\ Exit(r)

SetupConnect(r) ==
    Unwatched(r) \/ \E o \in Objects : Found(r, o) \/ Make(r, o) \/ LoseRace(r, o)
-----------------------------------------------------------------------------
ObserveObjects(r) ==
    /\ main[r] = "running"
    /\ shown[r] # objects
    /\ shown' = [shown EXCEPT ![r] = objects]
    /\ UNCHANGED <<environment, main, setup, period, objects>>

\* Any other error of a call, or a crash.
Fail(r) == (main[r] # "client" \/ setup[r] # "none") /\ Exit(r)

Main(r) == MakeClient(r) \/ ManageConnect(r) \/ StartTicker(r) \/ StartManager(r) \/ Refuse(r)

StartupStep ==
    \E r \in Pods : Main(r) \/ SetupConnect(r) \/ ObserveObjects(r)

StartupNext == StartupStep \/ \E r \in Pods : Fail(r)

StartupSpec == StartupInit /\ [][StartupNext]_startup

\* Main and goroutine go on, and failures come to an end.
StartupFairness ==
    /\ <>[][StartupStep]_startup
    /\ \A r \in Pods :
         WF_startup(Main(r)) /\ WF_startup(SetupConnect(r)) /\ WF_startup(ObserveObjects(r))
-----------------------------------------------------------------------------
Valid(e) ==
    /\ e.namespace
    /\ e.connect # e.account
    /\ e.manage # "invalid"
    /\ e.restart # "invalid"
    /\ Seconds(e) \in 1..((Width - 1) \div Second)

(* An operator whose environment is refused changes nothing, although some  *)
(* of it is looked at only after the goroutine has been started; and none   *)
(* sets up Connect that was not told to.                                    *)
RefusedChangesNothing ==
    [][objects' # objects =>
           /\ environment.namespace /\ environment.connect # environment.account
           /\ environment.manage = "true"
           /\ environment.restart # "invalid"
           /\ PollingInterval > 0]_startup

(* Connect is there in the end, whoever of the replicas makes which part of *)
(* it, and a race that is lost costs a replica no more than a restart.      *)
ConnectDeployed ==
    Valid(environment) /\ (environment.manage = "true" => environment.watched)
        => /\ environment.manage = "true" => <>[](objects = Objects)
           /\ <>[](\A r \in Pods : main[r] = "running")

(* A replica that runs polls at a period that a ticker accepts: the         *)
(* interval that was asked for, or the default if it was not an integer.    *)
(* An interval too long for a duration may become another one, but neither  *)
(* it nor one that is no time at all leaves a replica without a period.     *)
PolledAsAsked ==
    \A r \in Pods :
        main[r] = "running" =>
            LET s == Seconds(environment)
            IN  /\ period[r] > 0
                /\ s > 0 /\ s * Second < Width => period[r] = s * Second
=============================================================================
