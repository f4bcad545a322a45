---------------------------- MODULE ClientStore ----------------------------
(***************************************************************************)
(* The cluster client store (pkg/clusterclientstore): the goroutine that   *)
(* serves the map of clients over unbuffered channels (cache/server.go),   *)
(* the entries of the map with their informers (cache/cluster.go), the two *)
(* workers that keep the map in step with the Cluster objects and their    *)
(* Secrets (store.go), and the controllers that ask for a client.          *)
(*                                                                         *)
(* Clusters do not share anything but the server, so there is one.  What   *)
(* the informers' listers hold is the state: host is .spec.apiMaster of    *)
(* the Cluster object, sum the checksum of the Secret of the same name.    *)
(***************************************************************************)
EXTENDS Integers, Sequences, FiniteSets

CONSTANTS
    Host,      \* the values of .spec.apiMaster
    Sum,       \* the checksums of secrets
    NoSum,     \* a secret without the checksum annotation
    Gone,      \* the object does not exist
    Entry,     \* identities of the entries the workers make
    NoEntry,   \* a nil entry
    Readers,   \* the goroutines of the controllers that ask for a client
    Secrets,   \* what may be written to the Secret: checksums, or NoSum
    MaxChanges \* bound on what administrators do, and on failures

ASSUME StoreAssumption ==
    /\ Gone \notin Host \union Sum /\ NoSum \notin Sum \union {Gone}
    /\ NoEntry \notin Entry
    /\ Readers \intersect {"cluster", "secret"} = {}
    /\ Secrets \subseteq Sum \union {NoSum} /\ MaxChanges \in Nat
    /\ Host # {} /\ Secrets # {}

Proc == {"cluster", "secret"} \union Readers

VARIABLES
    host,     \* the Cluster in the lister
    sum,      \* the Secret in the lister
    deleted,  \* workers whose queue holds the key of a deleted object
    changes,  \* what administrators did and what failed, counted
    subs,     \* the controllers whose callbacks are registered
    map,      \* server.clusters
    ent,      \* the entries
    resp,     \* what the server is about to send on the response channel
    serving,  \* "yet" to start, "on" or "off"
    stop,     \* has Stop closed the channel?
    proc      \* the goroutines: where each one is, and what it has read

objects == <<host, sum, deleted, changes>>

store == <<subs, map, ent, resp, serving, stop, proc>>

storeVars == <<objects, store>>

Change == changes < MaxChanges /\ changes' = changes + 1

-----------------------------------------------------------------------------
(* The entries (cache/cluster.go).                                          *)

\* go is where WaitForInformerCache is: "none" if it was not started.
NewEntry(h, s) ==
    [host |-> h, sum |-> s, subs |-> subs, state |-> "NotReady", go |-> "none"]

Unused == [host |-> Gone, sum |-> Gone, subs |-> {}, state |-> "Terminated", go |-> "done"]

Shutdown(e) == [e EXCEPT !.state = "Terminated"]

\* Faulty variant: only the hosts are compared.
MatchHost(e, f) == e.host = f.host

Match(e, f) == e.sum = f.sum /\ e.host = f.host

IdleProc == [pc |-> "idle", host |-> Gone, sum |-> Gone, entry |-> NoEntry]

\* Entries nobody can reach any more are garbage, and are forgotten.
Collect(ents, m, procs) ==
    [e \in Entry |->
        IF \/ e = m \/ (\E p \in Proc : procs[p].entry = e)
           \/ ents[e].go \in {"start", "waiting"}
        THEN ents[e] ELSE Unused]

\* The goroutine starts, unless the entry was shut down before it could.
BeginWait(e) ==
    /\ ent[e].go = "start"
    /\ ent' = Collect(IF ent[e].state = "NotReady"
                      THEN [ent EXCEPT ![e].state = "WaitingForSync", ![e].go = "waiting"]
                      ELSE [ent EXCEPT ![e].go = "done"], map, proc)
    /\ UNCHANGED <<objects, subs, map, resp, serving, stop, proc>>

\* Faulty variant: the state is not looked at again after the wait.
BecomeReadyUnchecked(e) ==
    /\ ent[e].go = "waiting"
    /\ ent' = [ent EXCEPT ![e].state = "Ready", ![e].go = "done"]
    /\ UNCHANGED <<objects, subs, map, resp, serving, stop, proc>>

\* The wait ends: the informers are full, or the stop channel was closed.  The
\* entry is ready, and the controllers' event handlers are registered, unless
\* it was shut down meanwhile.
BecomeReady(e) ==
    /\ ent[e].go = "waiting"
    /\ ent' = Collect(IF ent[e].state = "Terminated"
                      THEN [ent EXCEPT ![e].go = "done"]
                      ELSE [ent EXCEPT ![e].state = "Ready", ![e].go = "done"], map, proc)
    /\ UNCHANGED <<objects, subs, map, resp, serving, stop, proc>>

-----------------------------------------------------------------------------
(* The server (cache/server.go).                                            *)

\* AddSubscriptionCallback and AddEventHandlerCallback.
AddCallbacks(c) ==
    /\ subs' = subs \union {c}
    /\ UNCHANGED <<objects, map, ent, resp, serving, stop, proc>>

\* Run starts the server once the listers are full.
StartServe ==
    /\ serving = "yet" /\ ~stop
    /\ serving' = "on"
    /\ UNCHANGED <<objects, subs, map, ent, resp, stop, proc>>

\* Faulty variant: the server does not wait for its answer to be received.
SelectingEager == serving = "on"

\* The server is at its select: the last answer has been received.
Selecting == serving = "on" /\ resp = << >>

\* case clusterName := <-s.ch.request
ServeRequest(p) ==
    /\ Selecting
    /\ proc[p].pc = "fetch"
    /\ resp' = Append(resp, map)
    /\ proc' = [proc EXCEPT ![p].pc = "receive"]
    /\ UNCHANGED <<objects, subs, map, ent, serving, stop>>

\* The response channel is shared: any goroutine that waits may get it.
ServeResponse(p) ==
    /\ serving = "on" /\ resp # << >>
    /\ proc[p].pc = "receive"
    /\ proc' = [proc EXCEPT ![p].pc = "decide", ![p].entry = Head(resp)]
    /\ resp' = Tail(resp)
    /\ UNCHANGED <<objects, subs, map, ent, serving, stop>>

Done(p) == [proc EXCEPT ![p] = IdleProc]

\* case clusterName := <-s.ch.remove
ServeRemove(p) ==
    /\ Selecting
    /\ proc[p].pc = "remove"
    /\ proc' = Done(p)
    /\ map' = NoEntry
    /\ ent' = Collect(IF map = NoEntry THEN ent ELSE [ent EXCEPT ![map] = Shutdown(@)], map', proc')
    /\ UNCHANGED <<objects, subs, resp, serving, stop>>

\* case new := <-s.ch.store
ServeStore(p) ==
    /\ Selecting
    /\ proc[p].pc = "store"
    /\ proc' = Done(p)
    /\ LET new == proc[p].entry
           stored == [ent EXCEPT ![new].go = "start"]
       IN  \/ /\ map # NoEntry /\ Match(ent[map], ent[new])
              /\ map' = map
              /\ ent' = Collect(ent, map', proc')
           \/ /\ map = NoEntry
              /\ map' = new
              /\ ent' = Collect(stored, map', proc')
           \/ /\ map # NoEntry /\ ~Match(ent[map], ent[new])
              /\ map' = new
              /\ ent' = Collect([stored EXCEPT ![map] = Shutdown(@)], map', proc')
    /\ UNCHANGED <<objects, subs, resp, serving, stop>>

\* Run returns when the process is told to stop.
Stop ==
    /\ ~stop /\ stop' = TRUE
    /\ UNCHANGED <<objects, subs, map, ent, resp, serving, proc>>

\* case <-s.ch.stop.  Calls made from now on never return.
ServeStop ==
    /\ Selecting /\ stop
    /\ serving' = "off"
    /\ ent' = Collect(IF map = NoEntry THEN ent ELSE [ent EXCEPT ![map] = Shutdown(@)], map, proc)
    /\ UNCHANGED <<objects, subs, map, resp, stop, proc>>

-----------------------------------------------------------------------------
(* The workers (store.go).                                                  *)

Ready == serving # "yet"   \* Run starts the workers when it starts the server

\* syncCluster reads the Cluster; its key is queued at least once per resync.
SyncCluster ==
    /\ Ready /\ proc["cluster"].pc = "idle"
    /\ host # Gone \/ "cluster" \in deleted
    /\ proc' = [proc EXCEPT !["cluster"] =
                   IF host = Gone THEN [IdleProc EXCEPT !.pc = "remove"]
                   ELSE [IdleProc EXCEPT !.pc = "fetch", !.host = host]]
    /\ deleted' = deleted \ {"cluster"}
    /\ UNCHANGED <<host, sum, changes, subs, map, ent, resp, serving, stop>>

\* syncSecret reads the Secret and the Cluster.
SyncSecret ==
    /\ Ready /\ proc["secret"].pc = "idle"
    /\ sum \in Sum \/ "secret" \in deleted
    /\ proc' = [proc EXCEPT !["secret"] =
                   CASE sum = Gone -> [IdleProc EXCEPT !.pc = "remove"]
                     [] sum \in Sum /\ host # Gone ->
                          [IdleProc EXCEPT !.pc = "fetch", !.host = host, !.sum = sum]
                     [] OTHER -> IdleProc]
    /\ deleted' = deleted \ {"secret"}
    /\ UNCHANGED <<host, sum, changes, subs, map, ent, resp, serving, stop>>

Drop(p) == proc' = Done(p) /\ ent' = Collect(ent, map, proc')

\* create: a new entry is built and sent to the server.  Without a checksum
\* the process panics.
Create(p, h, s) ==
    \/ /\ s = NoSum
       /\ proc' = [Done(p) EXCEPT ![p].pc = "panicked"]
       /\ ent' = Collect(ent, map, proc')
    \/ /\ s # NoSum
       /\ \E f \in Entry : ent[f] = Unused
       /\ LET e == CHOOSE f \in Entry : ent[f] = Unused
          IN  /\ proc' = [Done(p) EXCEPT ![p].pc = "store", ![p].entry = e]
              /\ ent' = Collect([ent EXCEPT ![e] = NewEntry(h, s)], map, proc')

\* A client of the right host, ready or not, is kept by syncCluster, one of
\* the right checksum by syncSecret.
Kept(p) ==
    LET me == proc[p]
    IN  /\ me.entry # NoEntry
        /\ IF p = "cluster" THEN ent[me.entry].host = me.host ELSE ent[me.entry].sum = me.sum

\* syncCluster goes on.  Without a secret there is nothing to do.
DecideCluster ==
    /\ proc["cluster"].pc = "decide"
    /\ IF Kept("cluster") \/ sum = Gone THEN Drop("cluster")
       ELSE Create("cluster", proc["cluster"].host, sum)
    /\ UNCHANGED <<objects, subs, map, resp, serving, stop>>

\* syncSecret goes on.
DecideSecret ==
    /\ proc["secret"].pc = "decide"
    /\ IF Kept("secret") THEN Drop("secret")
       ELSE Create("secret", proc["secret"].host, proc["secret"].sum)
    /\ UNCHANGED <<objects, subs, map, resp, serving, stop>>

\* The client cannot be built: the worker returns, and the key is retried.
BuildFails(p) ==
    /\ p \in {"cluster", "secret"} /\ proc[p].pc = "decide" /\ ~Kept(p)
    /\ Change
    /\ Drop(p)
    /\ UNCHANGED <<host, sum, deleted, subs, map, resp, serving, stop>>

\* A controller calls GetClient, GetConfig or GetInformerFactory, and gets
\* what the entry holds if it is ready, or an error.
GetClient(p) ==
    /\ p \in Readers /\ proc[p].pc = "idle"
    /\ proc' = [proc EXCEPT ![p].pc = "fetch"]
    /\ UNCHANGED <<objects, subs, map, ent, resp, serving, stop>>

UseClient(p) ==
    /\ p \in Readers /\ proc[p].pc = "decide"
    /\ Drop(p)
    /\ UNCHANGED <<objects, subs, map, resp, serving, stop>>

-----------------------------------------------------------------------------
(* The objects.  A deletion leaves a key in the worker's queue.             *)

PutCluster(h) ==
    /\ Change /\ h # host
    /\ host' = h
    /\ UNCHANGED <<sum, deleted, store>>

DeleteCluster ==
    /\ Change /\ host # Gone
    /\ host' = Gone
    /\ deleted' = deleted \union {"cluster"}
    /\ UNCHANGED <<sum, store>>

\* A secret that loses the annotation is deleted to the filtering handler.
PutSecret(s) ==
    /\ Change /\ s # sum
    /\ sum' = s
    /\ deleted' = IF s = NoSum /\ sum \in Sum THEN deleted \union {"secret"} ELSE deleted
    /\ UNCHANGED <<host, store>>

\* Its owner, the Cluster, being gone, the secret is collected, bound or not.
DeleteSecret ==
    /\ IF host = Gone THEN UNCHANGED changes ELSE Change
    /\ sum # Gone
    /\ sum' = Gone
    /\ deleted' = IF sum \in Sum THEN deleted \union {"secret"} ELSE deleted
    /\ UNCHANGED <<host, store>>

\* The secret controller, shipperctl or an administrator writes an object.
Administer ==
    \/ (\E h \in Host : PutCluster(h)) \/ DeleteCluster
    \/ (\E s \in Secrets : PutSecret(s)) \/ DeleteSecret

-----------------------------------------------------------------------------
\* Hosts are interchangeable, and so are checksums: one of each will do.
StoreInit ==
    /\ host \in {Gone, CHOOSE h \in Host : TRUE}
    /\ sum \in {Gone, CHOOSE s \in Secrets : TRUE}
    /\ deleted = {} /\ changes = 0
    /\ subs = {}
    /\ map = NoEntry
    /\ ent = [e \in Entry |-> Unused]
    /\ resp = << >>
    /\ serving = "yet" /\ stop = FALSE
    /\ proc = [p \in Proc |-> IdleProc]

ServeCall(p) == ServeRequest(p) \/ ServeResponse(p) \/ ServeRemove(p) \/ ServeStore(p)

InformerStep(e) == BeginWait(e) \/ BecomeReady(e)

StoreStep ==
    \/ (\E p \in Proc : ServeCall(p)) \/ ServeStop
    \/ \E e \in Entry : InformerStep(e)
    \/ SyncCluster \/ SyncSecret \/ DecideCluster \/ DecideSecret
    \/ \E p \in Proc : BuildFails(p)
    \/ \E p \in Readers : GetClient(p) \/ UseClient(p)

-----------------------------------------------------------------------------
(* What the cache promises.                                                 *)

ClientOf(e) == IF e = NoEntry THEN Gone ELSE [host |-> ent[e].host, sum |-> ent[e].sum]

CallOf(p) ==
    CASE proc[p].pc = "fetch"   -> [op |-> "fetch"]
      [] proc[p].pc = "receive" -> [op |-> "answered", client |-> ClientOf(Head(resp))]
      [] proc[p].pc = "decide"  -> [op |-> "answered", client |-> ClientOf(proc[p].entry)]
      [] proc[p].pc = "store"   -> [op |-> "store", client |-> ClientOf(proc[p].entry)]
      [] proc[p].pc = "remove"  -> [op |-> "remove"]
      [] OTHER                  -> [op |-> "idle"]

Registry == INSTANCE ClientRegistry WITH
    Client <- [host : Host, sum : Sum], None <- Gone,
    reg <- ClientOf(map), call <- [p \in Proc |-> CallOf(p)]

\* The channels and the serving goroutine (server.go) make the cache an
\* atomic register: each Fetch, Store and Remove takes effect at one moment,
\* whatever the calls of the two workers and of the controllers do meanwhile.
CacheAtomic == Registry!Spec

Running(e) == ent[e].go # "none" /\ ent[e].state # "Terminated"

\* The informers that run are those of the entry in the map: an entry that
\* leaves the map is shut down (else its watches leak) and an entry in the map
\* is not (else shutting it down again closes a closed channel and panics).
OnlyServedRun ==
    {e \in Entry : Running(e)} = IF serving = "on" /\ map # NoEntry THEN {map} ELSE {}

=============================================================================
