--------------------------- MODULE ProcessProofs ---------------------------
(***************************************************************************)
(* What the client store guarantees whatever the number of controllers,    *)
(* hosts, certificates and entries, and however often administrators act:  *)
(* it is started in the right order, exactly the served client's informers *)
(* run, and its cache is an atomic register.                               *)
(***************************************************************************)
EXTENDS Process, TLAPS

-----------------------------------------------------------------------------
(* The inductive invariant.                                                 *)

EntryRecord ==
    [host : Host \union {Gone}, sum : Sum \union {Gone}, subs : SUBSET Subscribers,
     state : {"NotReady", "WaitingForSync", "Ready", "Terminated"},
     go : {"none", "start", "waiting", "done"}]

ProcRecord ==
    [pc : {"idle", "fetch", "receive", "decide", "store", "remove", "panicked"},
     host : Host \union {Gone}, sum : Sum \union {Gone}, entry : Entry \union {NoEntry}]

Types ==
    /\ host \in Host \union {Gone} /\ sum \in Sum \union {NoSum, Gone}
    /\ map \in Entry \union {NoEntry}
    /\ ent \in [Entry -> EntryRecord]
    /\ serving \in {"yet", "on", "off"}
    /\ proc \in [Proc -> ProcRecord]

\* The callbacks are registered before the informers are started, and those
\* before the store serves anybody or its workers run.
StartUp ==
    /\ subs = Subscribers \ todo
    /\ informers => todo = {}
    /\ serving # "yet" => informers
    /\ serving = "yet" =>
          map = NoEntry /\ proc["cluster"].pc = "idle" /\ proc["secret"].pc = "idle"

\* A worker that has asked for the entry has read what it needs to replace it.
Requests ==
    /\ proc["cluster"].pc \in {"fetch", "receive", "decide"} => proc["cluster"].host \in Host
    /\ proc["secret"].pc \in {"fetch", "receive", "decide"} =>
          proc["secret"].host \in Host /\ proc["secret"].sum \in Sum

\* While an answer is under way, to the one goroutine that asked, the map does
\* not change.
Answers ==
    /\ resp \in {<< >>, <<map>>}
    /\ resp # << >> => serving = "on"
    /\ \A p \in Proc : proc[p].pc = "receive" => resp # << >>
    /\ \A p, q \in Proc : proc[p].pc = "receive" /\ proc[q].pc = "receive" => p = q

\* An entry in use is one that was built.
Built(e) == ent[e].host \in Host /\ ent[e].sum \in Sum

\* An entry is in the hands of the worker that made it until it is stored;
\* other goroutines only hold entries that have been in the map.
Holdings ==
    /\ map # NoEntry => Built(map) /\ ent[map].go # "none"
    /\ \A p \in Proc :
          /\ proc[p].entry # NoEntry => proc[p].pc \in {"decide", "store"} /\ Built(proc[p].entry)
          /\ proc[p].pc = "store" => /\ proc[p].entry # NoEntry
                                     /\ ent[proc[p].entry].go = "none"
                                     /\ ent[proc[p].entry].state = "NotReady"
          /\ proc[p].pc = "decide" /\ proc[p].entry # NoEntry => ent[proc[p].entry].go # "none"
    /\ \A p, q \in Proc :
          proc[p].pc = "store" /\ proc[q].pc = "store" /\ proc[p].entry = proc[q].entry => p = q

Inv == Types /\ StartUp /\ Requests /\ Answers /\ Holdings /\ AllSubscribed /\ OnlyServedRun

\* What a step may not do to an entry that stays in use: make it another client.
KeepsClients ==
    \A e \in Entry : Built(e) /\ (e = map' \/ \E p \in Proc : proc'[p].entry = e) =>
        ent'[e].host = ent[e].host /\ ent'[e].sum = ent[e].sum

-----------------------------------------------------------------------------
(* Facts the steps keep using.                                              *)

LEMMA ProcFacts == "cluster" \in Proc /\ "secret" \in Proc /\ Readers \subseteq Proc
BY DEF Proc

LEMMA UnusedFacts ==
    /\ Unused \in EntryRecord
    /\ Unused.host \notin Host /\ Unused.go = "done" /\ Unused.state = "Terminated"
BY StoreAssumption DEF Unused, EntryRecord

LEMMA AnswerFacts == Head(<<map>>) = map /\ Tail(<<map>>) = << >>
OBVIOUS

\* Forgetting what nobody can reach leaves alone what somebody can.
LEMMA CollectStep ==
    ASSUME NEW ents \in [Entry -> EntryRecord], ent' = Collect(ents, map', proc')
    PROVE  /\ ent' \in [Entry -> EntryRecord]
           /\ \A e \in Entry : ent'[e] = ents[e] \/ ent'[e] = Unused
           /\ map' \in Entry => ent'[map'] = ents[map']
           /\ \A p \in Proc : proc'[p].entry \in Entry =>
                 ent'[proc'[p].entry] = ents[proc'[p].entry]
BY UnusedFacts DEF Collect

LEMMA InvInit == Init => Inv
<1> SUFFICES ASSUME Init
             PROVE  Inv
  OBVIOUS
<1> USE DEF Init, StoreInit
<1>1. (CHOOSE h \in Host : TRUE) \in Host /\ (CHOOSE s \in Secrets : TRUE) \in Secrets
  BY StoreAssumption
<1>2. IdleProc \in ProcRecord
  BY DEF IdleProc, ProcRecord
<1>3. Types
  BY <1>1, <1>2, UnusedFacts, StoreAssumption DEF Types
<1>4. StartUp
  BY ProcFacts, ProcessAssumption DEF StartUp, IdleProc
<1>5. Requests /\ Answers /\ Holdings
  BY ProcFacts DEF Requests, Answers, Holdings, IdleProc
<1>6. AllSubscribed /\ OnlyServedRun
  BY UnusedFacts DEF AllSubscribed, OnlyServedRun, Running
<1> QED
  BY <1>3, <1>4, <1>5, <1>6 DEF Inv

-----------------------------------------------------------------------------
(* The steps of the store.                                                  *)

\* A goroutine that holds no entry changes, and nothing else but the answer.
LEMMA RequestStep ==
    ASSUME Inv, NEW p \in Proc, ServeRequest(p), UNCHANGED pvars
    PROVE  Inv' /\ KeepsClients
<1> USE DEF Inv, ServeRequest, Selecting, pvars, objects
<1>1. Types'
  BY DEF Types, ProcRecord
<1>2. StartUp'
  BY ProcFacts DEF StartUp, Types, ProcRecord
<1>3. Requests'
  BY ProcFacts DEF Requests, Types, ProcRecord
<1>4. Answers'
  BY DEF Answers, Types, ProcRecord
<1>5. Holdings'
  BY DEF Holdings, Built, Types, ProcRecord
<1>6. AllSubscribed' /\ OnlyServedRun'
  BY DEF AllSubscribed, OnlyServedRun, Running, Unused
<1>7. KeepsClients
  BY DEF KeepsClients
<1> QED
  BY <1>1, <1>2, <1>3, <1>4, <1>5, <1>6, <1>7

LEMMA ResponseStep ==
    ASSUME Inv, NEW p \in Proc, ServeResponse(p), UNCHANGED pvars
    PROVE  Inv' /\ KeepsClients
<1>1. resp = <<map>>
  BY DEF Inv, Answers, ServeResponse
<1>2. Head(resp) = map /\ Tail(resp) = << >>
  BY ONLY <1>1, AnswerFacts
<1>3. /\ proc[p].pc = "receive" /\ serving = "on"
      /\ proc' = [proc EXCEPT ![p] = [proc[p] EXCEPT !.pc = "decide", !.entry = map]]
      /\ resp' = << >>
      /\ UNCHANGED <<host, sum, subs, map, ent, serving, todo, informers>>
  BY <1>2 DEF ServeResponse, objects, pvars, Inv, Types, ProcRecord
<1> USE <1>3 DEF Inv
<1>4. Types'
  BY ZenonT(60) DEF Types, ProcRecord
<1>5. StartUp' /\ Requests'
  BY ProcFacts DEF StartUp, Requests, Types, ProcRecord
<1>6. Answers'
  BY DEF Answers, Types, ProcRecord
<1>7. Holdings'
  BY DEF Holdings, Built, Types, ProcRecord
<1>8. AllSubscribed' /\ OnlyServedRun'
  BY DEF AllSubscribed, OnlyServedRun, Running, Unused
<1>9. KeepsClients
  BY DEF KeepsClients
<1> QED
  BY <1>4, <1>5, <1>6, <1>7, <1>8, <1>9

\* The served entry, if there is one, is shut down.
Closed == IF map = NoEntry THEN ent ELSE [ent EXCEPT ![map] = Shutdown(@)]

LEMMA ClosedFacts ==
    ASSUME Types
    PROVE  /\ Closed \in [Entry -> EntryRecord]
           /\ \A e \in Entry : /\ Closed[e].host = ent[e].host /\ Closed[e].sum = ent[e].sum
                               /\ Closed[e].subs = ent[e].subs /\ Closed[e].go = ent[e].go
                               /\ e # map => Closed[e] = ent[e]
                               /\ e = map => Closed[e].state = "Terminated"
BY StoreAssumption DEF Types, EntryRecord, Shutdown, Closed

LEMMA RemoveStep ==
    ASSUME Inv, NEW p \in Proc, ServeRemove(p), UNCHANGED pvars
    PROVE  Inv' /\ KeepsClients
<1>1. /\ proc[p].pc = "remove" /\ serving = "on" /\ resp = << >>
      /\ proc' = [proc EXCEPT ![p] = IdleProc]
      /\ map' = NoEntry
      /\ UNCHANGED <<host, sum, subs, resp, serving, todo, informers>>
  BY DEF ServeRemove, Selecting, Done, objects, pvars
<1>2. ent' = Collect(Closed, map', proc')
  BY DEF ServeRemove, Closed
<1>3. /\ ent' \in [Entry -> EntryRecord]
      /\ \A e \in Entry : ent'[e] = Closed[e] \/ ent'[e] = Unused
      /\ \A q \in Proc : proc'[q].entry \in Entry => ent'[proc'[q].entry] = Closed[proc'[q].entry]
  BY <1>2, ClosedFacts, CollectStep DEF Inv
<1> USE <1>1 DEF Inv
<1>4. Types'
  BY <1>3 DEF Types, ProcRecord, IdleProc
<1>5. StartUp' /\ Requests'
  BY ProcFacts DEF StartUp, Requests, Types, ProcRecord, IdleProc
<1>6. Answers'
  BY DEF Answers, Types, ProcRecord, IdleProc
<1>7. Holdings'
  BY <1>3, ClosedFacts DEF Holdings, Built, Types, ProcRecord, IdleProc
<1>8. AllSubscribed'
  BY <1>3, ClosedFacts, UnusedFacts, StoreAssumption DEF AllSubscribed, Types, Holdings, Built
<1>9. OnlyServedRun'
  BY <1>3, ClosedFacts, UnusedFacts DEF OnlyServedRun, Running, Types
<1>10. KeepsClients
  BY <1>3, ClosedFacts, StoreAssumption DEF KeepsClients, Types
<1> QED
  BY <1>4, <1>5, <1>6, <1>7, <1>8, <1>9, <1>10

LEMMA StoreServed ==
    ASSUME Inv, NEW p \in Proc, ServeStore(p), UNCHANGED pvars
    PROVE  Inv' /\ KeepsClients
<1> DEFINE new == proc[p].entry
           ents == IF map # NoEntry /\ Match(ent[map], ent[new]) THEN ent
                   ELSE [Closed EXCEPT ![new].go = "start"]
<1>1. /\ proc[p].pc = "store" /\ serving = "on" /\ resp = << >>
      /\ proc' = [proc EXCEPT ![p] = IdleProc]
      /\ map' = IF map # NoEntry /\ Match(ent[map], ent[new]) THEN map ELSE new
      /\ UNCHANGED <<host, sum, subs, resp, serving, todo, informers>>
  BY DEF ServeStore, Selecting, Done, objects, pvars
<1>2. /\ new \in Entry /\ Built(new) /\ ent[new].go = "none" /\ ent[new].state = "NotReady"
      /\ new # map
      /\ \A q \in Proc : q # p => proc[q].entry # new
  BY <1>1 DEF Inv, Types, Holdings, ProcRecord
<1>3. ent' = Collect(ents, map', proc')
  <2>1. CASE map # NoEntry /\ Match(ent[map], ent[new])
    BY <1>2, <2>1 DEF ServeStore
  <2>2. CASE map = NoEntry
    BY <1>2, <2>2 DEF ServeStore, Closed
  <2>3. CASE map # NoEntry /\ ~Match(ent[map], ent[new])
    <3>1. [[ent EXCEPT ![new].go = "start"] EXCEPT ![map] = Shutdown(@)]
            = [[ent EXCEPT ![map] = Shutdown(@)] EXCEPT ![new].go = "start"]
      BY <1>2, <2>3 DEF Inv, Types
    <3> QED
      BY <1>2, <2>3, <3>1 DEF ServeStore, Closed
  <2> QED
    BY <2>1, <2>2, <2>3
<1>4. /\ ents \in [Entry -> EntryRecord]
      /\ \A e \in Entry : /\ ents[e].host = ent[e].host /\ ents[e].sum = ent[e].sum
                          /\ ents[e].subs = ent[e].subs
                          /\ e # new => ents[e].go = ent[e].go
                          /\ e # new /\ e # map => ents[e] = ent[e]
      /\ map' = new => /\ ents[new].go = "start" /\ ents[new].state = "NotReady"
                       /\ map # NoEntry => ents[map].state = "Terminated"
      /\ map' = map => ents = ent
  BY <1>1, <1>2, ClosedFacts DEF Inv, Types, EntryRecord
<1> HIDE DEF ents
<1>5. /\ ent' \in [Entry -> EntryRecord]
      /\ \A e \in Entry : ent'[e] = ents[e] \/ ent'[e] = Unused
      /\ map' \in Entry => ent'[map'] = ents[map']
      /\ \A q \in Proc : proc'[q].entry \in Entry => ent'[proc'[q].entry] = ents[proc'[q].entry]
  BY <1>3, <1>4, CollectStep
<1>6. map' = new \/ map' = map
  BY <1>1
<1> HIDE DEF new
<1> USE <1>1 DEF Inv
<1>7. Types'
  BY <1>2, <1>5, <1>6 DEF Types, ProcRecord, IdleProc
<1>8. StartUp' /\ Requests'
  BY ProcFacts DEF StartUp, Requests, Types, ProcRecord, IdleProc
<1>9. Answers'
  BY DEF Answers, Types, ProcRecord, IdleProc
<1>10. Holdings'
  BY <1>2, <1>4, <1>5, <1>6, StoreAssumption DEF Holdings, Built, Types, ProcRecord, IdleProc
<1>11. AllSubscribed'
  BY <1>2, <1>4, <1>5, UnusedFacts, StoreAssumption DEF AllSubscribed, Types, Holdings, Built
<1>12. OnlyServedRun'
  BY <1>2, <1>4, <1>5, <1>6, UnusedFacts, StoreAssumption DEF OnlyServedRun, Running, Types
<1>13. KeepsClients
  BY <1>4, <1>5 DEF KeepsClients, Types
<1> QED
  BY <1>7, <1>8, <1>9, <1>10, <1>11, <1>12, <1>13

LEMMA StopServed ==
    ASSUME Inv, ServeStop, UNCHANGED pvars
    PROVE  Inv' /\ KeepsClients
<1>1. /\ serving = "on" /\ resp = << >> /\ serving' = "off"
      /\ UNCHANGED <<host, sum, subs, map, resp, proc, todo, informers>>
  BY DEF ServeStop, Selecting, objects, pvars
<1>2. ent' = Collect(Closed, map', proc')
  BY <1>1 DEF ServeStop, Closed
<1>3. /\ ent' \in [Entry -> EntryRecord]
      /\ \A e \in Entry : ent'[e] = Closed[e] \/ ent'[e] = Unused
      /\ map' \in Entry => ent'[map'] = Closed[map']
      /\ \A q \in Proc : proc'[q].entry \in Entry => ent'[proc'[q].entry] = Closed[proc'[q].entry]
  BY <1>2, ClosedFacts, CollectStep DEF Inv
<1> USE <1>1 DEF Inv
<1>4. Types'
  BY <1>3 DEF Types
<1>5. StartUp' /\ Requests' /\ Answers'
  BY DEF StartUp, Requests, Answers
<1>6. \A q \in Proc : proc[q].pc = "store" => proc[q].entry # map
  BY DEF Holdings, Types, ProcRecord
<1>7. Holdings'
  BY <1>3, <1>6, ClosedFacts DEF Holdings, Built, Types, ProcRecord
<1>8. AllSubscribed'
  BY <1>3, ClosedFacts, UnusedFacts, StoreAssumption DEF AllSubscribed, Types, Holdings, Built
<1>9. OnlyServedRun'
  BY <1>3, ClosedFacts, UnusedFacts DEF OnlyServedRun, Running, Types
<1>10. KeepsClients
  BY <1>3, ClosedFacts DEF KeepsClients, Types
<1> QED
  BY <1>4, <1>5, <1>7, <1>8, <1>9, <1>10

\* The goroutine that fills the informers of an entry.
LEMMA InformerStepKeeps ==
    ASSUME Inv, NEW e \in Entry, InformerStep(e), UNCHANGED pvars
    PROVE  Inv' /\ KeepsClients
<1> DEFINE ents == IF BeginWait(e)
                   THEN IF ent[e].state = "NotReady"
                        THEN [ent EXCEPT ![e].state = "WaitingForSync", ![e].go = "waiting"]
                        ELSE [ent EXCEPT ![e].go = "done"]
                   ELSE IF ent[e].state = "Terminated"
                        THEN [ent EXCEPT ![e].go = "done"]
                        ELSE [ent EXCEPT ![e].state = "Ready", ![e].go = "done"]
<1>1. /\ ent[e].go \in {"start", "waiting"}
      /\ UNCHANGED <<host, sum, subs, map, resp, serving, proc, todo, informers>>
  BY DEF InformerStep, BeginWait, BecomeReady, objects, pvars
<1>2. ent' = Collect(ents, map', proc')
  BY <1>1 DEF InformerStep, BeginWait, BecomeReady
<1>3. /\ ents \in [Entry -> EntryRecord]
      /\ \A f \in Entry : /\ ents[f].host = ent[f].host /\ ents[f].sum = ent[f].sum
                          /\ ents[f].subs = ent[f].subs
                          /\ f # e => ents[f] = ent[f]
      /\ ents[e].go # "none"
      /\ ents[e].state = "Terminated" <=> ent[e].state = "Terminated"
  BY ZenonT(60) DEF Inv, Types, EntryRecord
<1> HIDE DEF ents
<1>4. /\ ent' \in [Entry -> EntryRecord]
      /\ \A f \in Entry : ent'[f] = ents[f] \/ ent'[f] = Unused
      /\ map' \in Entry => ent'[map'] = ents[map']
      /\ \A q \in Proc : proc'[q].entry \in Entry => ent'[proc'[q].entry] = ents[proc'[q].entry]
  BY <1>2, <1>3, CollectStep
<1> USE <1>1 DEF Inv
<1>5. Types'
  BY <1>4 DEF Types
<1>6. StartUp' /\ Requests' /\ Answers'
  BY DEF StartUp, Requests, Answers
<1>7. \A q \in Proc : proc[q].pc = "store" => proc[q].entry # e
  BY DEF Holdings
<1>8. Holdings'
  BY <1>3, <1>4, <1>7 DEF Holdings, Built, Types, ProcRecord
<1>9. AllSubscribed'
  BY <1>3, <1>4, UnusedFacts DEF AllSubscribed, Types
<1>10. OnlyServedRun'
  BY <1>3, <1>4, UnusedFacts DEF OnlyServedRun, Running, Types
<1>11. KeepsClients
  BY <1>3, <1>4 DEF KeepsClients, Types
<1> QED
  BY <1>5, <1>6, <1>8, <1>9, <1>10, <1>11

\* A worker or a reader starts: it asks for the entry, or for its removal.
LEMMA AskStep ==
    ASSUME Inv, NEW p \in Proc,
           \/ SyncCluster /\ p = "cluster"
           \/ SyncSecret /\ p = "secret"
           \/ GetClient(p),
           UNCHANGED pvars
    PROVE  Inv' /\ KeepsClients
<1>1. PICK me \in ProcRecord :
          /\ proc' = [proc EXCEPT ![p] = me] /\ me.entry = NoEntry
          /\ me.pc \in {"idle", "fetch", "remove"}
          /\ p = "cluster" /\ me.pc = "fetch" => me.host \in Host
          /\ p = "secret" /\ me.pc = "fetch" => me.host \in Host /\ me.sum \in Sum
          /\ p \in {"cluster", "secret"} => serving # "yet"
  <2>1. CASE SyncCluster /\ p = "cluster"
    <3> DEFINE me == IF host = Gone THEN [IdleProc EXCEPT !.pc = "remove"]
                     ELSE [IdleProc EXCEPT !.pc = "fetch", !.host = host]
    <3>1. me \in ProcRecord /\ me.entry = NoEntry /\ me.pc \in {"fetch", "remove"}
          /\ (me.pc = "fetch" => me.host \in Host)
      BY DEF IdleProc, ProcRecord, Inv, Types
    <3>2. proc' = [proc EXCEPT ![p] = me] /\ serving # "yet"
      BY <2>1 DEF SyncCluster, Ready
    <3> QED
      BY <2>1, <3>1, <3>2
  <2>2. CASE SyncSecret /\ p = "secret"
    <3> DEFINE me == CASE sum = Gone -> [IdleProc EXCEPT !.pc = "remove"]
                       [] sum \in Sum /\ host # Gone ->
                            [IdleProc EXCEPT !.pc = "fetch", !.host = host, !.sum = sum]
                       [] OTHER -> IdleProc
    <3>1. me \in ProcRecord /\ me.entry = NoEntry /\ me.pc \in {"idle", "fetch", "remove"}
          /\ (me.pc = "fetch" => me.host \in Host /\ me.sum \in Sum)
      BY StoreAssumption DEF IdleProc, ProcRecord, Inv, Types
    <3>2. proc' = [proc EXCEPT ![p] = me] /\ serving # "yet"
      BY <2>2 DEF SyncSecret, Ready
    <3> QED
      BY <2>2, <3>1, <3>2
  <2>3. CASE GetClient(p)
    <3>1. [proc[p] EXCEPT !.pc = "fetch"] \in ProcRecord /\ proc[p].entry = NoEntry
      BY <2>3 DEF GetClient, Inv, Types, Holdings, ProcRecord
    <3> QED
      BY <2>3, <3>1, StoreAssumption DEF GetClient, Inv, Types, ProcRecord
  <2> QED
    BY <2>1, <2>2, <2>3
<1>2. UNCHANGED <<host, sum, subs, map, ent, resp, serving, todo, informers>>
  BY DEF SyncCluster, SyncSecret, GetClient, objects, pvars
<1> USE <1>1, <1>2 DEF Inv
<1>3. Types'
  BY DEF Types, ProcRecord
<1>4. StartUp' /\ Requests'
  BY ProcFacts DEF StartUp, Requests, Types
<1>5. Answers'
  BY DEF Answers, Types
<1>6. Holdings'
  BY DEF Holdings, Built, Types
<1>7. AllSubscribed' /\ OnlyServedRun'
  BY DEF AllSubscribed, OnlyServedRun, Running, Unused
<1>8. KeepsClients
  BY DEF KeepsClients
<1> QED
  BY <1>3, <1>4, <1>5, <1>6, <1>7, <1>8

\* A goroutine lets go of the entry it was given.
LEMMA DropStep ==
    ASSUME Inv, NEW p \in Proc, proc[p].pc = "decide", Drop(p) \/ Create(p, Gone, NoSum),
           UNCHANGED <<host, sum, subs, map, resp, serving, todo, informers>>
    PROVE  Inv' /\ KeepsClients
<1>1. PICK pc \in {"idle", "panicked"} : proc' = [proc EXCEPT ![p] = [IdleProc EXCEPT !.pc = pc]]
  BY DEF Drop, Create, Done, Inv, Types, IdleProc
<1>2. ent' = Collect(ent, map', proc')
  BY DEF Drop, Create
<1>3. /\ ent' \in [Entry -> EntryRecord]
      /\ \A e \in Entry : ent'[e] = ent[e] \/ ent'[e] = Unused
      /\ map' \in Entry => ent'[map'] = ent[map']
      /\ \A q \in Proc : proc'[q].entry \in Entry => ent'[proc'[q].entry] = ent[proc'[q].entry]
  BY <1>2, CollectStep DEF Inv, Types
<1> USE <1>1 DEF Inv
<1>4. Types'
  BY <1>3 DEF Types, ProcRecord, IdleProc
<1>5. StartUp' /\ Requests'
  BY ProcFacts DEF StartUp, Requests, Types, IdleProc
<1>6. Answers'
  BY DEF Answers, Types, IdleProc
<1>7. Holdings'
  BY <1>3 DEF Holdings, Built, Types, ProcRecord, IdleProc
<1>8. AllSubscribed'
  BY <1>3 DEF AllSubscribed, Types
<1>9. OnlyServedRun'
  BY <1>3, UnusedFacts DEF OnlyServedRun, Running, Types
<1>10. KeepsClients
  BY <1>3 DEF KeepsClients, Types
<1> QED
  BY <1>4, <1>5, <1>6, <1>7, <1>8, <1>9, <1>10

\* A worker builds an entry, out of one nobody can reach, and is about to
\* store it.
LEMMA CreateStep ==
    ASSUME Inv, NEW p \in Proc, proc[p].pc = "decide", NEW h \in Host, NEW s \in Sum,
           Create(p, h, s), serving # "yet",
           UNCHANGED <<host, sum, subs, map, resp, serving, todo, informers>>
    PROVE  Inv' /\ KeepsClients
<1> DEFINE e == CHOOSE f \in Entry : ent[f] = Unused
           ents == [ent EXCEPT ![e] = NewEntry(h, s)]
<1>1. s # NoSum
  BY StoreAssumption
<1>2. e \in Entry /\ ent[e] = Unused
  BY <1>1 DEF Create
<1>3. proc' = [proc EXCEPT ![p] = [IdleProc EXCEPT !.pc = "store", !.entry = e]]
  BY <1>1 DEF Create, Done, Inv, Types
<1>4. ent' = Collect(ents, map', proc')
  BY <1>1 DEF Create
<1>5. NewEntry(h, s) \in EntryRecord /\ subs = Subscribers
  BY DEF Inv, StartUp, NewEntry, EntryRecord
<1>6. /\ ents \in [Entry -> EntryRecord]
      /\ ents[e] = NewEntry(h, s)
      /\ \A f \in Entry : f # e => ents[f] = ent[f]
  BY <1>2, <1>5 DEF Inv, Types
<1> HIDE DEF e, ents
<1>7. /\ ent' \in [Entry -> EntryRecord]
      /\ \A f \in Entry : ent'[f] = ents[f] \/ ent'[f] = Unused
      /\ map' \in Entry => ent'[map'] = ents[map']
      /\ \A q \in Proc : proc'[q].entry \in Entry => ent'[proc'[q].entry] = ents[proc'[q].entry]
  BY <1>4, <1>6, CollectStep
\* What is unused is neither in the map nor in anybody's hands.
<1>8. /\ e # map
      /\ \A q \in Proc : proc[q].entry # e
  BY <1>2, UnusedFacts, StoreAssumption DEF Inv, Holdings, Built
<1>9. ent'[e] = NewEntry(h, s)
  BY <1>2, <1>3, <1>6, <1>7 DEF Inv, Types, ProcRecord, IdleProc
<1> USE <1>2, <1>3 DEF Inv
<1>10. Types'
  BY <1>7 DEF Types, ProcRecord, IdleProc
<1>11. StartUp' /\ Requests'
  BY ProcFacts DEF StartUp, Requests, Types, IdleProc
<1>12. Answers'
  BY DEF Answers, Types, IdleProc
<1>13. Holdings'
  BY <1>6, <1>7, <1>8, <1>9, StoreAssumption DEF Holdings, Built, Types, ProcRecord, IdleProc, NewEntry
<1>14. AllSubscribed'
  BY <1>5, <1>6, <1>7 DEF AllSubscribed, Types, NewEntry
<1>15. OnlyServedRun'
  BY <1>6, <1>7, <1>8, UnusedFacts DEF OnlyServedRun, Running, Types, NewEntry
<1>16. KeepsClients
  BY <1>6, <1>7, UnusedFacts DEF KeepsClients, Types, Built
<1> QED
  BY <1>10, <1>11, <1>12, <1>13, <1>14, <1>15, <1>16

\* A worker goes on with the answer it was given.
LEMMA DecideStep ==
    ASSUME Inv, DecideCluster \/ DecideSecret \/ (\E p \in Proc : BuildFails(p) \/ UseClient(p)),
           UNCHANGED pvars
    PROVE  Inv' /\ KeepsClients
<1>1. UNCHANGED <<host, sum, subs, map, resp, serving, todo, informers>>
  BY DEF DecideCluster, DecideSecret, BuildFails, UseClient, objects, pvars
<1>2. CASE DecideCluster
  <2> DEFINE p == "cluster"
  <2>1. p \in Proc /\ proc[p].pc = "decide" /\ proc[p].host \in Host /\ serving # "yet"
    BY <1>2, ProcFacts DEF DecideCluster, Inv, Requests, StartUp
  <2>2. CASE Drop(p)
    BY <1>1, <2>1, <2>2, DropStep
  <2>3. CASE sum = NoSum /\ Create(p, proc[p].host, sum)
    <3>1. Create(p, Gone, NoSum)
      BY <2>3 DEF Create
    <3> QED
      BY <1>1, <2>1, <3>1, DropStep
  <2>4. CASE sum \in Sum /\ Create(p, proc[p].host, sum)
    BY <1>1, <2>1, <2>4, CreateStep
  <2> QED
    BY <1>2, <2>2, <2>3, <2>4 DEF DecideCluster, Inv, Types
<1>3. CASE DecideSecret
  <2> DEFINE p == "secret"
  <2>1. /\ p \in Proc /\ proc[p].pc = "decide" /\ serving # "yet"
        /\ proc[p].host \in Host /\ proc[p].sum \in Sum
    BY <1>3, ProcFacts DEF DecideSecret, Inv, Requests, StartUp
  <2>2. CASE Drop(p)
    BY <1>1, <2>1, <2>2, DropStep
  <2>3. CASE Create(p, proc[p].host, proc[p].sum)
    BY <1>1, <2>1, <2>3, CreateStep
  <2> QED
    BY <1>3, <2>2, <2>3 DEF DecideSecret
<1>4. ASSUME NEW p \in Proc, BuildFails(p) \/ UseClient(p)
      PROVE  Inv' /\ KeepsClients
  <2>1. proc[p].pc = "decide" /\ Drop(p)
    BY <1>4 DEF BuildFails, UseClient
  <2> QED
    BY <1>1, <2>1, DropStep
<1> QED
  BY <1>2, <1>3, <1>4

\* The process around the store, and the administrators, leave its entries
\* and its goroutines alone.
LEMMA OutsideStep ==
    ASSUME Inv, Main \/ Signal \/ (Administer /\ UNCHANGED pvars)
    PROVE  Inv' /\ KeepsClients
<1>1. UNCHANGED <<map, ent, resp, proc>>
  BY DEF Main, StartController, AddCallbacks, ControllerReturns, StartInformers, CachesSync,
         StartServe, StoreReturns, Stop, EndRequest, Exit, Signal, Administer, PutCluster, DeleteCluster,
         PutSecret, DeleteSecret, storeVars, store
<1>2. Types' /\ serving' \in {serving, "on"} /\ (serving' = serving \/ serving = "yet")
  BY <1>1, StoreAssumption
  DEF Inv, Types, Main, StartController, AddCallbacks, ControllerReturns, StartInformers, CachesSync,
      StartServe, StoreReturns, Stop, EndRequest, Exit, Signal, Administer, PutCluster, DeleteCluster,
      PutSecret, DeleteSecret, storeVars, store, objects
<1>3. StartUp'
  BY <1>1, <1>2
  DEF Inv, StartUp, Main, StartController, AddCallbacks, ControllerReturns, StartInformers, CachesSync,
      StartServe, StoreReturns, Stop, EndRequest, Exit, Signal, Administer, PutCluster, DeleteCluster,
      PutSecret, DeleteSecret, storeVars, store, pvars, objects
<1>4. Requests' /\ Answers' /\ Holdings' /\ AllSubscribed'
  BY <1>1, <1>2 DEF Inv, Requests, Answers, Holdings, Built, AllSubscribed
<1>5. OnlyServedRun'
  BY <1>1, <1>2 DEF Inv, OnlyServedRun, Running, StartUp
<1>6. KeepsClients
  BY <1>1 DEF KeepsClients
<1> QED
  BY <1>2, <1>3, <1>4, <1>5, <1>6 DEF Inv

LEMMA InvStep == Inv /\ [Next]_vars => Inv' /\ KeepsClients
<1> SUFFICES ASSUME Inv, [Next]_vars
             PROVE  Inv' /\ KeepsClients
  OBVIOUS
<1>1. CASE StoreStep /\ UNCHANGED pvars
  <2>1. ASSUME NEW p \in Proc, ServeCall(p)
        PROVE  Inv' /\ KeepsClients
    BY <1>1, <2>1, RequestStep, ResponseStep, RemoveStep, StoreServed DEF ServeCall
  <2>2. CASE ServeStop
    BY <1>1, <2>2, StopServed
  <2>3. ASSUME NEW e \in Entry, InformerStep(e)
        PROVE  Inv' /\ KeepsClients
    BY <1>1, <2>3, InformerStepKeeps
  <2>4. CASE SyncCluster \/ SyncSecret \/ (\E p \in Proc : GetClient(p))
    <3>1. CASE SyncCluster
      BY <1>1, <3>1, ProcFacts, AskStep
    <3>2. CASE SyncSecret
      BY <1>1, <3>2, ProcFacts, AskStep
    <3>3. CASE \E p \in Proc : GetClient(p)
      BY <1>1, <3>3, AskStep
    <3> QED
      BY <2>4, <3>1, <3>2, <3>3
  <2>5. CASE DecideCluster \/ DecideSecret \/ (\E p \in Proc : BuildFails(p) \/ UseClient(p))
    BY <1>1, <2>5, DecideStep
  <2> QED
    BY <1>1, <2>1, <2>2, <2>3, <2>4, <2>5, ProcFacts DEF StoreStep
<1>2. CASE Main \/ Signal \/ (Administer /\ UNCHANGED pvars)
  BY <1>2, OutsideStep
<1>3. CASE UNCHANGED vars
  BY <1>3 DEF vars, storeVars, store, objects, pvars, Inv, Types, StartUp, Requests, Answers,
              Holdings, Built, AllSubscribed, OnlyServedRun, Running,
              KeepsClients
<1> QED
  BY <1>1, <1>2, <1>3 DEF Next, Alone

-----------------------------------------------------------------------------
(* The theorems.                                                            *)

\* Every client the store builds has the callbacks of all controllers (main.go,
\* store.go), however many of them there are and in whatever order they start.
THEOREM AlwaysSubscribed == Spec => []AllSubscribed
<1>1. Inv => AllSubscribed
  BY DEF Inv
<1> QED
  BY <1>1, InvInit, InvStep, PTL DEF Spec

\* The informers that run are those of the entry in the map (cache/server.go):
\* an entry is shut down when it leaves the map, and not before.
THEOREM OnlyServedEverRun == Spec => []OnlyServedRun
<1>1. Inv => OnlyServedRun
  BY DEF Inv
<1> QED
  BY <1>1, InvInit, InvStep, PTL DEF Spec

-----------------------------------------------------------------------------
(* The cache implements an atomic register.                                 *)

\* A goroutine that waits for its answer will be told what is in the map.
LEMMA AnswerIsMap ==
    ASSUME Inv, NEW p \in Proc, proc[p].pc = "receive"
    PROVE  Head(resp) = map
<1>1. resp = <<map>>
  BY DEF Inv, Answers
<1> QED
  BY ONLY <1>1, AnswerFacts

\* A goroutine that does not move, and is not waiting for an answer from a map
\* that changes, has the call it had.
LEMMA CallKept ==
    ASSUME Inv, Inv', KeepsClients, NEW q \in Proc, proc'[q] = proc[q],
           proc[q].pc = "receive" => map' = map /\ resp' = resp
    PROVE  CallOf(q)' = CallOf(q)
<1>1. proc[q].entry \in Entry \union {NoEntry} /\ map \in Entry \union {NoEntry}
  BY DEF Inv, Types, ProcRecord
<1>2. (proc[q].entry # NoEntry => Built(proc[q].entry)) /\ (map # NoEntry => Built(map))
  BY DEF Inv, Holdings
<1>3. ClientOf(proc[q].entry)' = ClientOf(proc[q].entry)
  BY <1>1, <1>2 DEF KeepsClients, ClientOf
<1>4. CASE proc[q].pc = "receive"
  <2>1. Head(resp) = map /\ Head(resp') = map
    BY <1>4, AnswerIsMap
  <2>2. ClientOf(Head(resp))' = ClientOf(Head(resp))
    BY <1>1, <1>2, <1>4, <2>1 DEF KeepsClients, ClientOf
  <2> QED
    BY <1>4, <2>2 DEF CallOf
<1>5. CASE proc[q].pc # "receive"
  BY <1>3, <1>5 DEF CallOf
<1> QED
  BY <1>4, <1>5

\* Nor does the register change while the map does not.
LEMMA RegisterKept ==
    ASSUME Inv, KeepsClients, map' = map
    PROVE  ClientOf(map)' = ClientOf(map)
BY DEF Inv, Types, Holdings, KeepsClients, ClientOf

\* The calls, as one function.
Calls == [p \in Proc |-> CallOf(p)]

\* If only p moves, so does only its call.
LEMMA OneCall ==
    ASSUME Inv, Inv', KeepsClients, NEW p \in Proc,
           \A q \in Proc : q # p => proc'[q] = proc[q],
           \A q \in Proc : q # p /\ proc[q].pc = "receive" => map' = map /\ resp' = resp
    PROVE  Calls' = [Calls EXCEPT ![p] = CallOf(p)']
<1>1. \A q \in Proc : q # p => CallOf(q)' = CallOf(q)
  BY CallKept
<1> QED
  BY <1>1 DEF Calls

\* case clusterName := <-s.ch.request of the server: a fetch takes effect.
LEMMA RequestFetches ==
    ASSUME Inv, Inv', KeepsClients, NEW p \in Proc, ServeRequest(p)
    PROVE  Registry!Fetch(p)
<1>1. /\ proc[p].pc = "fetch" /\ resp = << >> /\ map' = map
      /\ proc' = [proc EXCEPT ![p].pc = "receive"]
  BY DEF ServeRequest, Selecting
<1>2. \A q \in Proc : proc[q].pc # "receive"
  BY <1>1 DEF Inv, Answers
<1>3. proc'[p].pc = "receive" /\ \A q \in Proc : q # p => proc'[q] = proc[q]
  BY <1>1 DEF Inv, Types, ProcRecord
<1>4. Calls' = [Calls EXCEPT ![p] = CallOf(p)']
  BY <1>2, <1>3, OneCall
<1>5. Head(resp') = map
  <2>1. resp' = <<map>>
    BY <1>1, <1>3 DEF Inv, Answers
  <2> QED
    BY ONLY <2>1, AnswerFacts
<1>6. CallOf(p).op = "fetch" /\ CallOf(p)' = [op |-> "answered", client |-> ClientOf(map)']
  BY <1>1, <1>3, <1>5 DEF CallOf, ClientOf
<1>7. ClientOf(map)' = ClientOf(map)
  BY <1>1, RegisterKept
<1> QED
  BY <1>4, <1>6, <1>7 DEF Registry!Fetch, Calls

\* The answer is received: nothing that the register knows of.
LEMMA ResponseStutters ==
    ASSUME Inv, Inv', KeepsClients, NEW p \in Proc, ServeResponse(p)
    PROVE  UNCHANGED <<ClientOf(map), Calls>>
<1>1. Head(resp) = map
  BY AnswerIsMap DEF ServeResponse
<1>2. /\ proc[p].pc = "receive" /\ map' = map /\ ent' = ent
      /\ proc' = [proc EXCEPT ![p] = [proc[p] EXCEPT !.pc = "decide", !.entry = map]]
  BY <1>1, ZenonT(60) DEF ServeResponse, Inv, Types, ProcRecord
<1>3. \A q \in Proc : q # p => proc[q].pc # "receive" /\ proc'[q] = proc[q]
  BY <1>2 DEF Inv, Answers, Types
<1>4. Calls' = [Calls EXCEPT ![p] = CallOf(p)']
  BY <1>3, OneCall
<1>5. proc'[p].pc = "decide" /\ proc'[p].entry = map
  BY <1>2 DEF Inv, Types, ProcRecord
<1>6. CallOf(p)' = CallOf(p)
  BY <1>1, <1>2, <1>5 DEF CallOf, ClientOf
<1>7. ClientOf(map)' = ClientOf(map)
  BY <1>2, RegisterKept
<1> QED
  BY <1>4, <1>6, <1>7 DEF Calls

\* case clusterName := <-s.ch.remove.
LEMMA RemoveRemoves ==
    ASSUME Inv, Inv', KeepsClients, NEW p \in Proc, ServeRemove(p)
    PROVE  Registry!Remove(p)
<1>1. /\ proc[p].pc = "remove" /\ resp = << >> /\ map' = NoEntry
      /\ proc' = [proc EXCEPT ![p] = IdleProc]
  BY DEF ServeRemove, Selecting, Done
<1>2. \A q \in Proc : proc[q].pc # "receive" /\ (q # p => proc'[q] = proc[q])
  BY <1>1 DEF Inv, Answers, Types
<1>3. Calls' = [Calls EXCEPT ![p] = CallOf(p)']
  BY <1>2, OneCall
<1>4. CallOf(p).op = "remove" /\ CallOf(p)' = [op |-> "idle"]
  BY <1>1 DEF CallOf, IdleProc, Inv, Types
<1>5. ClientOf(map)' = Gone
  BY <1>1 DEF ClientOf
<1> QED
  BY <1>3, <1>4, <1>5 DEF Registry!Remove, Registry!Idle, Calls

\* case new := <-s.ch.store.  An entry that is not stored because it matches
\* the one in the map is the same client.
LEMMA StoreStores ==
    ASSUME Inv, Inv', KeepsClients, NEW p \in Proc, ServeStore(p)
    PROVE  Registry!Store(p)
<1> DEFINE new == proc[p].entry
<1>1. /\ proc[p].pc = "store" /\ resp = << >>
      /\ proc' = [proc EXCEPT ![p] = IdleProc]
      /\ map' = new \/ (map' = map /\ map # NoEntry /\ Match(ent[map], ent[new]))
  BY DEF ServeStore, Selecting, Done
<1>2. \A q \in Proc : proc[q].pc # "receive" /\ (q # p => proc'[q] = proc[q])
  BY <1>1 DEF Inv, Answers, Types
<1>3. Calls' = [Calls EXCEPT ![p] = CallOf(p)']
  BY <1>2, OneCall
<1>4. CallOf(p) = [op |-> "store", client |-> ClientOf(new)] /\ CallOf(p)' = [op |-> "idle"]
  BY <1>1 DEF CallOf, IdleProc, Inv, Types
<1>5. new \in Entry /\ new # NoEntry /\ Built(new) /\ map \in Entry \union {NoEntry}
      /\ (map # NoEntry => Built(map))
  BY <1>1 DEF Inv, Types, Holdings, ProcRecord
<1>6. ClientOf(map)' = ClientOf(new)
  BY <1>1, <1>5 DEF ClientOf, KeepsClients, Match
<1> QED
  BY <1>3, <1>4, <1>6 DEF Registry!Store, Registry!Idle, Calls

\* A goroutine asks, or makes up its mind about the answer it has.
LEMMA OthersInvoke ==
    ASSUME Inv, Inv', KeepsClients, NEW p \in Proc, map' = map, resp' = resp,
           \A q \in Proc : q # p => proc'[q] = proc[q],
           \/ proc[p].pc = "idle" /\ proc'[p].pc \in {"idle", "fetch", "remove"}
           \/ proc[p].pc = "decide" /\ proc'[p].pc \in {"idle", "panicked", "store"}
    PROVE  Registry!Invoke(p)
<1>1. Calls' = [Calls EXCEPT ![p] = CallOf(p)']
  BY OneCall
<1>2. CallOf(p).op \in {"idle", "answered"}
  BY DEF CallOf
<1>3. ClientOf(map)' = ClientOf(map)
  BY RegisterKept
<1>4. \/ CallOf(p)' \in {[op |-> "idle"], [op |-> "fetch"], [op |-> "remove"]}
      \/ \E c \in [host : Host, sum : Sum] : CallOf(p)' = [op |-> "store", client |-> c]
  <2>1. CASE proc'[p].pc # "store"
    BY <2>1 DEF CallOf
  <2>2. CASE proc'[p].pc = "store"
    <3>1. proc'[p].entry # NoEntry /\ Built(proc[p].entry)'
      BY <2>2 DEF Inv, Holdings
    <3>2. ClientOf(proc[p].entry)' \in [host : Host, sum : Sum]
      BY <3>1 DEF ClientOf, Built
    <3> QED
      BY <2>2, <3>2 DEF CallOf
  <2> QED
    BY <2>1, <2>2
<1> QED
  BY <1>1, <1>2, <1>3, <1>4 DEF Registry!Invoke, Registry!Idle, Calls

\* What the workers and the readers do between their calls.
LEMMA WorkInvokes ==
    ASSUME Inv, Inv', KeepsClients,
           \/ SyncCluster \/ SyncSecret \/ DecideCluster \/ DecideSecret
           \/ \E p \in Proc : BuildFails(p) \/ GetClient(p) \/ UseClient(p)
    PROVE  \E p \in Proc : Registry!Invoke(p)
<1> DEFINE Moved(p) ==
             /\ map' = map /\ resp' = resp
             /\ \A q \in Proc : q # p => proc'[q] = proc[q]
             /\ \/ proc[p].pc = "idle" /\ proc'[p].pc \in {"idle", "fetch", "remove"}
                \/ proc[p].pc = "decide" /\ proc'[p].pc \in {"idle", "panicked", "store"}
<1>1. CASE SyncCluster
  <2>1. Moved("cluster")
    BY <1>1, ProcFacts DEF SyncCluster, IdleProc, Inv, Types, ProcRecord
  <2> QED
    BY <2>1, ProcFacts, OthersInvoke
<1>2. CASE SyncSecret
  <2>1. Moved("secret")
    BY <1>2, ProcFacts DEF SyncSecret, IdleProc, Inv, Types, ProcRecord
  <2> QED
    BY <2>1, ProcFacts, OthersInvoke
<1>3. ASSUME NEW p \in Proc, proc[p].pc = "decide", map' = map, resp' = resp,
             Drop(p) \/ \E h, s : Create(p, h, s)
      PROVE  Registry!Invoke(p)
  <2>1. proc \in [Proc -> ProcRecord]
    BY DEF Inv, Types
  <2>2. ASSUME NEW r, proc' = [proc EXCEPT ![p] = r], r.pc \in {"idle", "panicked", "store"}
        PROVE  Moved(p)
    BY <1>3, <2>1, <2>2
  <2> HIDE DEF Moved
  <2>3. Drop(p) => Moved(p)
    <3>1. Drop(p) => proc' = [proc EXCEPT ![p] = IdleProc] /\ IdleProc.pc = "idle"
      BY DEF Drop, Done, IdleProc
    <3> QED
      BY <2>2, <3>1
  <2>4. ASSUME proc' = [Done(p) EXCEPT ![p].pc = "panicked"]
        PROVE  Moved(p)
    <3> DEFINE r == [IdleProc EXCEPT !.pc = "panicked"]
    <3>1. proc' = [proc EXCEPT ![p] = r] /\ r.pc = "panicked"
      BY <2>1, <2>4 DEF Done, IdleProc
    <3> HIDE DEF r
    <3> QED
      BY <2>2, <3>1
  <2>5. ASSUME NEW e, proc' = [Done(p) EXCEPT ![p].pc = "store", ![p].entry = e]
        PROVE  Moved(p)
    <3> DEFINE r == [IdleProc EXCEPT !.pc = "store", !.entry = e]
    <3>1. proc' = [proc EXCEPT ![p] = r] /\ r.pc = "store"
      BY <2>1, <2>5 DEF Done, IdleProc
    <3> HIDE DEF r
    <3> QED
      BY <2>2, <3>1
  <2>6. Moved(p)
    BY <1>3, <2>3, <2>4, <2>5 DEF Create
  <2> QED
    BY <2>6, OthersInvoke DEF Moved
<1>4. CASE DecideCluster \/ DecideSecret
  BY <1>3, <1>4, ProcFacts DEF DecideCluster, DecideSecret
<1>5. ASSUME NEW p \in Proc, BuildFails(p) \/ UseClient(p)
      PROVE  Registry!Invoke(p)
  BY <1>3, <1>5 DEF BuildFails, UseClient
<1>6. ASSUME NEW p \in Proc, GetClient(p)
      PROVE  Registry!Invoke(p)
  <2>1. Moved(p)
    BY <1>6 DEF GetClient, Inv, Types, ProcRecord
  <2> QED
    BY <2>1, OthersInvoke
<1> QED
  BY <1>1, <1>2, <1>4, <1>5, <1>6

\* What leaves the map, the answer and the goroutines alone is not seen.
LEMMA QuietStutters ==
    ASSUME Inv, Inv', KeepsClients, UNCHANGED <<map, resp, proc>>
    PROVE  UNCHANGED <<ClientOf(map), Calls>>
<1>1. \A q \in Proc : CallOf(q)' = CallOf(q)
  BY CallKept
<1> QED
  BY <1>1, RegisterKept DEF Calls

LEMMA StepRefines ==
    ASSUME Inv, Inv', KeepsClients, [Next]_vars
    PROVE  [Registry!Next]_<<ClientOf(map), Calls>>
<1>1. CASE StoreStep
  <2>1. ASSUME NEW p \in Proc, ServeCall(p)
        PROVE  [Registry!Next]_<<ClientOf(map), Calls>>
    BY <2>1, RequestFetches, ResponseStutters, RemoveRemoves, StoreStores
    DEF ServeCall, Registry!Next
  <2>2. CASE ServeStop \/ \E e \in Entry : InformerStep(e)
    <3>1. UNCHANGED <<map, resp, proc>>
      BY <2>2 DEF ServeStop, InformerStep, BeginWait, BecomeReady
    <3> QED
      BY <3>1, QuietStutters
  <2>3. CASE \/ SyncCluster \/ SyncSecret \/ DecideCluster \/ DecideSecret
             \/ \E p \in Proc : BuildFails(p) \/ GetClient(p) \/ UseClient(p)
    BY <2>3, WorkInvokes DEF Registry!Next
  <2> QED
    BY <1>1, <2>1, <2>2, <2>3, ProcFacts DEF StoreStep
<1>2. CASE Main \/ Signal \/ Administer
  <2>1. UNCHANGED <<map, resp, proc>>
    BY <1>2
    DEF Main, StartController, AddCallbacks, ControllerReturns, StartInformers, CachesSync,
        StartServe, StoreReturns, Stop, EndRequest, Exit, Signal, Administer, PutCluster, DeleteCluster,
        PutSecret, DeleteSecret, storeVars, store
  <2> QED
    BY <2>1, QuietStutters
<1>3. CASE UNCHANGED vars
  BY <1>3, QuietStutters DEF vars, storeVars, store
<1> QED
  BY <1>1, <1>2, <1>3 DEF Next, Alone

\* The channels and the serving goroutine of cache/server.go implement an
\* atomic register, for any number of goroutines that call it.
THEOREM CacheIsAtomic == Spec => CacheAtomic
<1>1. Init => Registry!Init
  <2> SUFFICES ASSUME Init
               PROVE  Registry!Init
    OBVIOUS
  <2>1. \A p \in Proc : CallOf(p) = [op |-> "idle"]
    BY DEF Init, StoreInit, CallOf, IdleProc
  <2>2. ClientOf(map) = Gone
    BY DEF Init, StoreInit, ClientOf
  <2> QED
    BY <2>1, <2>2 DEF Registry!Init, Registry!Idle
<1>2. Inv /\ [Next]_vars => Inv' /\ [Registry!Next]_(Registry!rvars)
  BY InvStep, StepRefines DEF Registry!rvars, Calls
<1> QED
  BY <1>1, <1>2, InvInit, PTL DEF Spec, CacheAtomic, Registry!Spec

=============================================================================
