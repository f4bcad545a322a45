------------------------------- MODULE Charts -------------------------------
(***************************************************************************)
(* The chart cache on disk, used without a lock by every worker of the     *)
(* release and installation controllers: one family of charts, that is one *)
(* directory with the versions of one chart.  A file is an inode whose     *)
(* contents are the chunks written to it since it was last truncated; a    *)
(* rename moves the inode, and a descriptor opened before still writes it. *)
(***************************************************************************)
EXTENDS Integers, Sequences, FiniteSets, SequencesExt

CONSTANTS Versions,     \* the versions of the chart
          Fetchers,     \* the concurrent calls of the fetch function
          Chunks,       \* a chart is the chunks 1..Chunks, one write each
          Limit,        \* chartFamilySizeLimit, in chunks
          MaxFetches    \* fetches that start

VARIABLES dir,      \* the inode each file name stands for, 0 for none
          data,     \* the chunks each inode holds
          order,    \* the file names from the oldest change to the latest
          proc,     \* the fetchers
          fetches

vars == <<dir, data, order, proc, fetches>>

Chart(v) == <<"chart", v>>
Tmp(v)   == <<"tmp", v>>
Files    == {Chart(v) : v \in Versions} \cup {Tmp(v) : v \in Versions}
Inodes   == 1..(Cardinality(Files) + Cardinality(Fetchers))
Whole    == 1..Chunks

Size(f)  == IF dir[f] = 0 THEN 0 ELSE Cardinality(data[dir[f]])
Touch(f) == Append(SelectSeq(order, LAMBDA g : g # f), f)

Idle == [at |-> "idle", v |-> CHOOSE v \in Versions : TRUE, old |-> <<>>,
         over |-> 0, fd |-> 0, n |-> 0, got |-> {}]

Init ==
    /\ dir = [f \in Files |-> 0]
    /\ data = [i \in Inodes |-> {}]
    /\ order = <<>>
    /\ proc = [p \in Fetchers |-> Idle]
    /\ fetches = 0

Go(p, at) == proc' = [proc EXCEPT ![p].at = at]
Quiet     == UNCHANGED <<dir, data, order, fetches>>

-----------------------------------------------------------------------------
(* Fetch                                                                   *)

Begin(p, v) ==
    /\ proc[p].at = "idle" /\ fetches < MaxFetches
    /\ fetches' = fetches + 1
    /\ proc' = [proc EXCEPT ![p] = [Idle EXCEPT !.at = "stat", !.v = v]]
    /\ UNCHANGED <<dir, data, order>>

Stat(p) ==
    /\ proc[p].at = "stat"
    /\ Go(p, IF dir[Chart(proc[p].v)] = 0 THEN "download" ELSE "read")
    /\ Quiet

\* The file may be gone since the Stat: an error, and no download.
ReadFile(p) ==
    LET i == dir[Chart(proc[p].v)] IN
    /\ proc[p].at = "read"
    /\ IF i = 0 THEN Go(p, "error")
                ELSE proc' = [proc EXCEPT ![p].at = "load", ![p].got = data[i]]
    /\ Quiet

\* No bytes is no hit; what is there is loaded, and a broken archive is an
\* error: the file stays.
Load(p) ==
    /\ proc[p].at = "load"
    /\ Go(p, CASE proc[p].got = {}    -> "download"
               [] proc[p].got = Whole -> "ok"
               [] OTHER               -> "error")
    /\ Quiet

\* The repository answers with the whole chart or not at all.
Download(p) ==
    /\ proc[p].at = "download"
    /\ Go(p, "store") \/ Go(p, "error")
    /\ Quiet

-----------------------------------------------------------------------------
(* Store                                                                   *)

\* The files of the family are listed with their sizes, oldest first, the
\* temporary ones with the rest.
List(p) ==
    LET old  == SelectSeq(order, LAMBDA f : dir[f] # 0)
        used == FoldSeq(LAMBDA f, s : s + Size(f), Chunks, old)
    IN  /\ proc[p].at = "store"
        /\ proc' = IF Chunks > Limit THEN [proc EXCEPT ![p].at = "error"]
                   ELSE [proc EXCEPT ![p].at = "evict", ![p].over = used - Limit,
                           ![p].old = [k \in DOMAIN old |-> <<old[k], Size(old[k])>>]]
        /\ Quiet

\* The oldest of the list is removed while the family is over its limit; that
\* somebody else removed it first ends the store.
Evict(p) ==
    LET w == proc[p] IN
    /\ w.at = "evict" /\ w.over > 0 /\ w.old # <<>>
    /\ LET f == w.old[1][1] IN
         IF dir[f] = 0
           THEN Go(p, "error") /\ UNCHANGED dir
           ELSE /\ dir' = [dir EXCEPT ![f] = 0]
                /\ proc' = [proc EXCEPT ![p].over = @ - w.old[1][2],
                                        ![p].old = Tail(@)]
    /\ UNCHANGED <<data, order, fetches>>

StillOver(p) ==
    /\ proc[p].at = "evict" /\ proc[p].over > 0 /\ proc[p].old = <<>>
    /\ Go(p, "error")
    /\ Quiet

\* WriteFile opens the temporary file, whose name is the version's, and
\* truncates the one that is there.
OpenTmp(p) ==
    LET f == Tmp(proc[p].v)
        free == Inodes \ ({dir[g] : g \in Files} \cup {proc[q].fd : q \in Fetchers})
        i == IF dir[f] # 0 THEN dir[f] ELSE CHOOSE j \in free : TRUE
    IN  /\ proc[p].at = "evict" /\ proc[p].over <= 0
        /\ dir' = [dir EXCEPT ![f] = i]
        /\ data' = [data EXCEPT ![i] = {}]
        /\ order' = Touch(f)
        /\ proc' = [proc EXCEPT ![p].at = "write", ![p].fd = i, ![p].n = 0]
        /\ UNCHANGED fetches

Write(p) ==
    /\ proc[p].at = "write" /\ proc[p].n < Chunks
    /\ data' = [data EXCEPT ![proc[p].fd] = @ \cup {proc[p].n + 1}]
    /\ proc' = [proc EXCEPT ![p].n = @ + 1]
    /\ order' = IF \E f \in Files : dir[f] = proc[p].fd
                  THEN Touch(CHOOSE f \in Files : dir[f] = proc[p].fd) ELSE order
    /\ UNCHANGED <<dir, fetches>>

\* The disk is full, say: the temporary file is removed.
WriteFails(p) ==
    /\ proc[p].at = "write" /\ proc[p].n < Chunks
    /\ dir' = [dir EXCEPT ![Tmp(proc[p].v)] = 0]
    /\ proc' = [proc EXCEPT ![p].at = "error", ![p].fd = 0]
    /\ UNCHANGED <<data, order, fetches>>

\* The name of the temporary file is renamed, whatever inode it now names; the
\* time of the change goes with the inode.
Rename(p) ==
    LET v == proc[p].v IN
    /\ proc[p].at = "write" /\ proc[p].n = Chunks
    /\ dir' = IF dir[Tmp(v)] = 0 THEN dir
              ELSE [dir EXCEPT ![Chart(v)] = dir[Tmp(v)], ![Tmp(v)] = 0]
    /\ order' = IF dir[Tmp(v)] = 0 THEN order ELSE
                 LET others == SelectSeq(order, LAMBDA f : f # Chart(v)) IN
                 [k \in DOMAIN others |-> IF others[k] = Tmp(v) THEN Chart(v) ELSE others[k]]
    /\ proc' = [proc EXCEPT ![p].at = IF dir[Tmp(v)] = 0 THEN "error" ELSE "ok",
                            ![p].fd = 0]
    /\ UNCHANGED <<data, fetches>>

-----------------------------------------------------------------------------
\* The caller gets a chart or an error.
Return(p) ==
    /\ proc[p].at \in {"ok", "error"}
    /\ proc' = [proc EXCEPT ![p] = Idle]
    /\ Quiet

\* The process stops: the directory is all that is left.
Restart ==
    /\ \E p \in Fetchers : proc[p].at # "idle"
    /\ proc' = [p \in Fetchers |-> Idle]
    /\ Quiet

Step(p) ==
    \/ Stat(p) \/ ReadFile(p) \/ Load(p) \/ Download(p) \/ List(p) \/ Evict(p)
    \/ StillOver(p) \/ OpenTmp(p) \/ Write(p) \/ WriteFails(p) \/ Rename(p)
    \/ Return(p)

Next == Restart \/ \E p \in Fetchers : Step(p) \/ \E v \in Versions : Begin(p, v)

Spec == Init /\ [][Next]_vars

\* A fetch never hits a chart of which only a part is in the cache: the
\* temporary file and the rename of Store are there for it.
NoPartialHit ==
    \A p \in Fetchers : proc[p].at = "load" => proc[p].got \in {{}, Whole}
=============================================================================
