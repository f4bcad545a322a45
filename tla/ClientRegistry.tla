--------------------------- MODULE ClientRegistry ---------------------------
(***************************************************************************)
(* What the cluster client store's cache promises its callers: for each    *)
(* cluster an atomic register that holds the client in use, or None.       *)
(* Every call takes effect at one moment between its start and its end.    *)
(***************************************************************************)
CONSTANTS
    Proc,    \* the goroutines that call the cache
    Client,  \* what tells clients apart: host and checksum
    None     \* no client

VARIABLES
    reg,   \* the client in use
    call   \* what each goroutine has asked for, or been answered

rvars == <<reg, call>>

Idle == [op |-> "idle"]

Init == reg = None /\ call = [p \in Proc |-> Idle]

\* A goroutine starts a call, or drops the answer it has.
Invoke(p) ==
    /\ call[p].op \in {"idle", "answered"}
    /\ \/ call' = [call EXCEPT ![p] = [op |-> "fetch"]]
       \/ call' = [call EXCEPT ![p] = [op |-> "remove"]]
       \/ \E c \in Client : call' = [call EXCEPT ![p] = [op |-> "store", client |-> c]]
       \/ call' = [call EXCEPT ![p] = Idle]
    /\ UNCHANGED reg

Fetch(p) ==
    /\ call[p].op = "fetch"
    /\ call' = [call EXCEPT ![p] = [op |-> "answered", client |-> reg]]
    /\ UNCHANGED reg

Store(p) ==
    /\ call[p].op = "store"
    /\ reg' = call[p].client
    /\ call' = [call EXCEPT ![p] = Idle]

Remove(p) ==
    /\ call[p].op = "remove"
    /\ reg' = None
    /\ call' = [call EXCEPT ![p] = Idle]

Next == \E p \in Proc : Invoke(p) \/ Fetch(p) \/ Store(p) \/ Remove(p)

Spec == Init /\ [][Next]_rvars

=============================================================================
