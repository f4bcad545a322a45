------------------------------ MODULE Process ------------------------------
(***************************************************************************)
(* The shipper process (cmd/shipper/main.go) around the client store: the  *)
(* store's goroutine is started first, the controllers are initialised one *)
(* by one and register their callbacks with the store, the informers are   *)
(* started, and a signal makes everything return.                          *)
(***************************************************************************)
EXTENDS ClientStore

CONSTANTS
    Controllers,  \* the controllers and the webhook, as enabled
    Subscribers   \* those that register callbacks with the store

ASSUME ProcessAssumption == Subscribers \subseteq Controllers

VARIABLES
    todo,       \* the controllers that are yet to be initialised
    informers,  \* have the informer factories been started?
    running,    \* the members of the wait group that have not returned
    signals,    \* the signals received
    request,    \* did a signal find the webhook serving a request, and still?
    exited      \* has the process ended?

pvars == <<todo, informers, running, signals, request, exited>>

vars == <<storeVars, pvars>>

\* runControllers calls an initializer, in the order Go iterates the map.
StartController(c) ==
    /\ c \in todo
    /\ todo' = todo \ {c}
    /\ running' = running \union {c}
    /\ IF c \in Subscribers THEN AddCallbacks(c) ELSE UNCHANGED storeVars
    /\ UNCHANGED <<informers, signals, request, exited>>

\* Faulty variant: the informers are started along with the store.
StartInformersEarly ==
    /\ ~informers
    /\ informers' = TRUE
    /\ UNCHANGED <<storeVars, todo, running, signals, request, exited>>

\* The informers are started when all initializers have returned.
StartInformers ==
    /\ todo = {} /\ ~informers
    /\ informers' = TRUE
    /\ UNCHANGED <<storeVars, todo, running, signals, request, exited>>

\* WaitForCacheSync comes back in Run of the store: the informers have filled
\* the listers.
CachesSync ==
    /\ informers /\ "store" \in running
    /\ StartServe
    /\ UNCHANGED pvars

\* Run of the store returns, and stops the server of the cache.
StoreReturns ==
    /\ signals > 0 /\ "store" \in running
    /\ Stop
    /\ running' = running \ {"store"}
    /\ UNCHANGED <<todo, informers, signals, request, exited>>

\* Faulty variant: a controller waits for its caches whatever the signals.
ControllerReturnsSynced(c) ==
    /\ signals > 0 /\ c \in running \ {"store"} /\ serving # "yet"
    /\ running' = running \ {c}
    /\ UNCHANGED <<storeVars, todo, informers, signals, request, exited>>

\* Run of a controller returns, caches full or not, workers done or not.  The
\* webhook's waits for the requests it is serving (server.Shutdown).
ControllerReturns(c) ==
    /\ signals > 0 /\ c \in running \ {"store"}
    /\ c = "webhook" => ~request
    /\ running' = running \ {c}
    /\ UNCHANGED <<storeVars, todo, informers, signals, request, exited>>

\* The webhook answers the last request it was serving.
EndRequest ==
    /\ request /\ request' = FALSE
    /\ UNCHANGED <<storeVars, todo, informers, running, signals, exited>>

\* The first signal closes the stop channel, the second ends the process.
Signal ==
    /\ Change
    /\ signals' = signals + 1
    /\ request' \in IF signals = 0 /\ "webhook" \in running THEN BOOLEAN ELSE {request}
    /\ exited' = (signals = 1)
    /\ UNCHANGED <<host, sum, deleted, store, todo, informers, running>>

\* main returns when the wait group is empty.
Exit ==
    /\ informers /\ running = {}
    /\ exited' = TRUE
    /\ UNCHANGED <<storeVars, todo, informers, running, signals, request>>

-----------------------------------------------------------------------------
Init ==
    /\ StoreInit
    /\ todo = Controllers /\ informers = FALSE
    /\ running = {"store"}
    /\ signals = 0 /\ request = FALSE /\ exited = FALSE

Main ==
    \/ (\E c \in Controllers : StartController(c) \/ ControllerReturns(c))
    \/ StartInformers \/ CachesSync \/ StoreReturns \/ EndRequest \/ Exit

\* A step of the store or of an administrator, while the process runs.
Alone(A) == A /\ ~exited /\ UNCHANGED pvars

Next ==
    \/ ~exited /\ (Main \/ Signal)
    \/ Alone(StoreStep)
    \/ serving # "yet" /\ Alone(Administer)

Spec == Init /\ [][Next]_vars

\* Goroutines and workers run, and resyncs queue their keys again and again;
\* Go's select is fair to the channels that stay ready; the target cluster
\* fills the informers, and the webhook answers the requests it has accepted,
\* in the end.
FairSpec ==
    /\ Spec
    /\ WF_vars(~exited /\ Main) /\ WF_vars(~exited /\ StoreReturns)
    /\ \A p \in Proc : SF_vars(Alone(ServeCall(p)))
    /\ SF_vars(Alone(ServeStop))
    /\ WF_vars(Alone(\E e \in Entry : InformerStep(e)))
    /\ WF_vars(Alone(SyncCluster \/ DecideCluster))
    /\ WF_vars(Alone(SyncSecret \/ DecideSecret))

-----------------------------------------------------------------------------
\* Every client the store builds has the callbacks of all controllers, though
\* the store's goroutine starts before any of them is registered.
AllSubscribed == \A e \in Entry : ent[e] # Unused => ent[e].subs = Subscribers

Usable == map # NoEntry /\ ent[map].state = "Ready" /\ ent[map].subs = Subscribers

\* Once a Cluster and its Secret are left alone, the store comes to serve a
\* ready client of that host and that checksum, however the two workers and
\* the resyncs interleave; when both are gone, it comes to serve none.
StoreConverges ==
    /\ \A h \in Host, s \in Sum :
          <>[](host = h /\ sum = s /\ signals = 0) =>
              <>[](Usable /\ ent[map].host = h /\ ent[map].sum = s)
    /\ <>[](host = Gone /\ sum = Gone /\ signals = 0) => <>[](map = NoEntry)

\* A signal ends the process, also when it comes while caches are filling.
ExitsOnSignal == signals > 0 ~> exited

=============================================================================
