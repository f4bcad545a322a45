-------------------------- MODULE SchedulingProofs --------------------------
(***************************************************************************)
(* Proofs about Scheduling: a release that is stored as Scheduled owns its *)
(* target objects, and clusters are assigned to it once, however far the   *)
(* caches are behind, whatever fails and whenever the process restarts.    *)
(*                                                                         *)
(* Both rest on how the identities (uids) of the owners follow each other  *)
(* in the versions of an object that the cache has yet to see: Releases    *)
(* for a Release, Targets for its target objects.  Work ties the two, and  *)
(* the copy in a handler's hands, together; Marks, proved on top of these, *)
(* says who may call a release Scheduled.                                  *)
(***************************************************************************)
EXTENDS Scheduling, SequenceTheorems, WellFoundedInduction, TLAPS

\* Positions of the versions of an object.
At(o) == 1 .. Len(o.log)

IsObject(o) ==
    /\ o = [cache |-> o.cache, log |-> o.log]
    /\ o.log \in Seq(ToSet(o.log)) /\ o.log # << >>

IsRelease(v) ==
    \/ v = Absent
    \/ /\ v = [uid |-> v.uid, clusters |-> v.clusters, sched |-> v.sched, complete |-> v.complete]
       /\ v.uid \in Nat \ {0}

IsTarget(v) ==
    v = Absent \/ (v = [uid |-> v.uid, clusters |-> v.clusters] /\ v.uid \in Nat \ {0})

\* Nobody has chosen clusters for this version of a release.
Blank(v) == v = Absent \/ v.clusters = {}

\* The versions of a release.  The cache differs from the first in what a
\* handler writes in place: Scheduled = False.  A release gets clusters only
\* once the cache has it, and is created again only once the cache has seen
\* it go: so one that has clusters is the only one in sight.
ReleaseObject(o, last) ==
    /\ IsObject(o) /\ IsRelease(o.cache)
    /\ \A i \in At(o) : IsRelease(o.log[i]) /\ o.log[i].uid <= last
    /\ o.cache.uid = o.log[1].uid
    /\ o.cache # Absent =>
          /\ o.cache.clusters = o.log[1].clusters
          /\ o.cache.sched = "True" => o.log[1].sched = "True"
    /\ \A i, j \in At(o) : i <= j /\ ~Blank(o.log[j]) => o.log[i].uid = o.log[j].uid
    /\ \A i \in At(o) : ~Blank(o.log[i]) => Stored(o).uid \in {0, o.log[i].uid}
    /\ Stored(o) # Absent =>
          \A i, j \in At(o) : i <= j /\ o.log[i].uid = Stored(o).uid => o.log[j].uid = Stored(o).uid

\* The versions of a target object: once the owner that is stored has it, it
\* keeps it.
TargetObject(o, last, own) ==
    /\ IsObject(o) /\ IsTarget(o.cache)
    /\ \A i \in At(o) : IsTarget(o.log[i]) /\ o.log[i].uid <= last
    /\ o.cache.uid = o.log[1].uid
    /\ own # 0 => \A i \in At(o) : o.log[i].uid = own => Stored(o).uid = own

Owner(r) == Stored(rel[r]).uid

Owned(r) == \A k \in Kind : Stored(tgt[r][k]).uid = Owner(r)

JobField == {"busy", "r", "copy", "choosing", "listed", "failed", "todo", "fresh", "held"}

IsJob(j) ==
    \/ j = Idle
    \/ /\ j = [f \in JobField |-> j[f]] /\ j.busy = TRUE
       /\ j.r \in Gen /\ j.todo \in Seq(Kind)
       /\ j.failed \in BOOLEAN /\ j.fresh \in BOOLEAN /\ j.held \in BOOLEAN
       /\ j.choosing \in BOOLEAN

Shapes ==
    /\ rel = [r \in Gen |-> rel[r]]
    /\ tgt = [r \in Gen |-> [k \in Kind |-> tgt[r][k]]]
    /\ uids \in [Gen -> Nat]
    /\ IsJob(job)

Releases == \A r \in Gen : ReleaseObject(rel[r], uids[r])

Targets == \A r \in Gen, k \in Kind : TargetObject(tgt[r][k], uids[r], Owner(r))

\* What the handler knows about the release it has a copy of.
Work ==
    job.busy =>
        /\ job.copy # Absent /\ IsRelease(job.copy)
        /\ job.choosing <=> job.copy.clusters = {}
        /\ job.copy.uid <= uids[job.r]
        /\ job.fresh => Current(rel[job.r]) /\ rel[job.r].cache = job.copy
        /\ job.held => rel[job.r].cache = job.copy
        /\ ~job.choosing /\ ~job.failed /\ Owner(job.r) = job.copy.uid =>
              \A k \in Kind : k \in ToSet(job.todo) \/ Stored(tgt[job.r][k]).uid = job.copy.uid

Inv == Shapes /\ Releases /\ Targets /\ Work

\* The executor works on a release there may be.
Executing == exec.busy => exec.r \in Gen

-----------------------------------------------------------------------------
(* Objects and their versions.                                              *)

\* A sequence over any set is one over its own elements.
LEMMA OwnElements ==
    ASSUME NEW S, NEW s \in Seq(S)
    PROVE  s \in Seq(ToSet(s))
<1>1. s \in [1 .. Len(s) -> ToSet(s)] /\ Len(s) \in Nat
  BY LenProperties DEF ToSet
<1> QED
  BY <1>1, SeqDef

LEMMA Positions ==
    ASSUME NEW o, IsObject(o)
    PROVE  /\ Len(o.log) \in Nat \ {0}
           /\ 1 \in At(o) /\ Len(o.log) \in At(o)
           /\ Stored(o) = o.log[Len(o.log)]
<1>1. Len(o.log) \in Nat /\ Len(o.log) # 0
  BY LenProperties, EmptySeq DEF IsObject
<1> QED
  BY <1>1 DEF At, Stored

\* A new version comes last.
LEMMA Appended ==
    ASSUME NEW o, IsObject(o), NEW v
    PROVE  LET p == Append1(o, v)
           IN  /\ IsObject(p) /\ p.cache = o.cache
               /\ Len(p.log) = Len(o.log) + 1
               /\ \A i \in At(o) : i \in At(p) /\ p.log[i] = o.log[i]
               /\ \A i \in At(p) : i \in At(o) \/ i = Len(p.log)
               /\ p.log[Len(p.log)] = v /\ Stored(p) = v
               /\ p # o
<1> DEFINE p == Append1(o, v)
<1>1. p = [cache |-> o.cache, log |-> Append(o.log, v)]
  <2> DEFINE c == o.cache
             l == o.log
  <2>1. o = [cache |-> c, log |-> l]
    BY DEF IsObject
  <2>2. p = [o EXCEPT !.log = Append(o.log, v)]
    BY DEF Append1
  <2> HIDE DEF c, l, p
  <2>3. p = [cache |-> c, log |-> Append(l, v)]
    BY <2>1, <2>2
  <2> QED
    BY <2>3 DEF c, l
<1>2. /\ Append(o.log, v) \in Seq(ToSet(o.log) \union {v})
      /\ Len(Append(o.log, v)) = Len(o.log) + 1
      /\ \A i \in 1 .. Len(o.log) : Append(o.log, v)[i] = o.log[i]
      /\ Append(o.log, v)[Len(o.log) + 1] = v
  <2>1. o.log \in Seq(ToSet(o.log) \union {v})
    BY SeqMonotonic DEF IsObject
  <2> QED
    BY <2>1, AppendProperties
<1>3. Len(o.log) \in Nat \ {0}
  BY Positions
<1>4. p.log \in Seq(ToSet(p.log))
  <2>1. p.log = Append(o.log, v)
    BY <1>1
  <2> QED
    BY <1>2, <2>1, OwnElements
<1>5. p.log # << >>
  BY <1>1, <1>2, <1>3, EmptySeq
<1>6. IsObject(p)
  BY <1>1, <1>4, <1>5 DEF IsObject
<1> QED
  BY <1>1, <1>2, <1>3, <1>6 DEF At, Stored

\* The cache moves on to the next version.
LEMMA Delivered ==
    ASSUME NEW o, IsObject(o), ~Current(o)
    PROVE  LET p == Next1(o)
           IN  /\ IsObject(p) /\ p.cache = o.log[2] /\ 2 \in At(o)
               /\ Len(p.log) = Len(o.log) - 1
               /\ \A i \in At(p) : i + 1 \in At(o) /\ p.log[i] = o.log[i + 1]
               /\ Stored(p) = Stored(o)
<1> DEFINE p == Next1(o)
           t == Tail(o.log)
<1>1. p = [cache |-> o.log[2], log |-> t]
  BY DEF Next1
<1>2. Len(o.log) \in Nat /\ Len(o.log) > 1
  <2>1. Len(o.log) \in Nat \ {0} /\ Len(o.log) # 1
    BY Positions DEF Current
  <2>2. \A n \in Nat \ {0} : n # 1 => n \in Nat /\ n > 1
    OBVIOUS
  <2> QED
    BY <2>1, <2>2
<1>3. /\ t \in Seq(ToSet(o.log))
      /\ Len(t) = Len(o.log) - 1
      /\ \A i \in 1 .. Len(t) : t[i] = o.log[i + 1]
  BY HeadTailProperties DEF IsObject
<1> HIDE DEF p, t
<1>4. p.log = t /\ p.cache = o.log[2]
  BY <1>1
<1>5. p.log \in Seq(ToSet(p.log))
  BY <1>3, <1>4, OwnElements
<1>6. p.log # << >>
  <2>1. Len(t) # 0
    BY <1>2, <1>3
  <2> QED
    BY <1>4, <2>1, EmptySeq
<1>7. IsObject(p)
  BY <1>1, <1>4, <1>5, <1>6 DEF IsObject
<1>8. Stored(p) = Stored(o)
  <2>1. Len(t) \in 1 .. Len(t) /\ Len(t) + 1 = Len(o.log)
    BY <1>2, <1>3
  <2>2. t[Len(t)] = o.log[Len(t) + 1]
    BY <1>3, <2>1
  <2> QED
    BY <1>4, <2>1, <2>2 DEF Stored
<1>9. /\ 2 \in At(o) /\ Len(p.log) = Len(o.log) - 1
      /\ \A i \in At(p) : i + 1 \in At(o) /\ p.log[i] = o.log[i + 1]
  BY <1>2, <1>3, <1>4 DEF At
<1> QED
  BY <1>4, <1>7, <1>8, <1>9 DEF p

\* Filled anew, the cache has the stored version and nothing else.
LEMMA Refilled ==
    ASSUME NEW v
    PROVE  LET p == [cache |-> v, log |-> <<v>>]
           IN  IsObject(p) /\ p.cache = v /\ At(p) = {1} /\ p.log[1] = v /\ Stored(p) = v
<1> DEFINE p == [cache |-> v, log |-> <<v>>]
<1>1. <<v>> \in Seq({v}) /\ Len(<<v>>) = 1 /\ <<v>>[1] = v /\ <<v>> # << >>
  OBVIOUS
<1>2. <<v>> \in Seq(ToSet(<<v>>))
  BY <1>1, OwnElements
<1> QED
  BY <1>1, <1>2 DEF IsObject, At, Stored

-----------------------------------------------------------------------------
(* Versions of a release.                                                   *)

LEMMA Uids ==
    ASSUME NEW v
    PROVE  /\ IsRelease(v) \/ IsTarget(v) => v.uid \in Nat /\ (v = Absent <=> v.uid = 0)
           /\ Absent.uid = 0 /\ IsRelease(Absent) /\ IsTarget(Absent) /\ Blank(Absent)
  BY DEF IsRelease, IsTarget, Absent, Blank

\* What assigning clusters, marking and patching do to a release.
LEMMA Versioned ==
    ASSUME NEW a \in Nat \ {0}, NEW b, NEW c, NEW d
    PROVE  LET w == [uid |-> a, clusters |-> b, sched |-> c, complete |-> d]
           IN  IsRelease(w) /\ w # Absent /\ w.uid = a /\ w.clusters = b /\ w.sched = c
  BY DEF IsRelease, Absent

LEMMA Assigned ==
    ASSUME NEW v, IsRelease(v), v # Absent, NEW x
    PROVE  LET w == [v EXCEPT !.clusters = x]
           IN  /\ IsRelease(w) /\ w # Absent
               /\ w.uid = v.uid /\ w.clusters = x /\ w.sched = v.sched
<1> DEFINE a == v.uid
           b == v.clusters
           c == v.sched
           d == v.complete
<1>1. v = [uid |-> a, clusters |-> b, sched |-> c, complete |-> d] /\ a \in Nat \ {0}
  BY DEF IsRelease
<1> HIDE DEF a, b, c, d
<1>2. [v EXCEPT !.clusters = x] = [uid |-> a, clusters |-> x, sched |-> c, complete |-> d]
  BY <1>1
<1> QED
  BY <1>1, <1>2, Versioned DEF a, c

LEMMA Marked ==
    ASSUME NEW v, IsRelease(v), v # Absent, NEW x
    PROVE  LET w == [v EXCEPT !.sched = x]
           IN  /\ IsRelease(w) /\ w # Absent
               /\ w.uid = v.uid /\ w.clusters = v.clusters /\ w.sched = x
<1> DEFINE a == v.uid
           b == v.clusters
           c == v.sched
           d == v.complete
<1>1. v = [uid |-> a, clusters |-> b, sched |-> c, complete |-> d] /\ a \in Nat \ {0}
  BY DEF IsRelease
<1> HIDE DEF a, b, c, d
<1>2. [v EXCEPT !.sched = x] = [uid |-> a, clusters |-> b, sched |-> x, complete |-> d]
  BY <1>1
<1> QED
  BY <1>1, <1>2, Versioned DEF a, b

PatchOf(v, x, y) == [v EXCEPT !.sched = x, !.complete = y]

LEMMA Patched ==
    ASSUME NEW v, IsRelease(v), v # Absent, NEW x, NEW y
    PROVE  /\ IsRelease(PatchOf(v, x, y)) /\ PatchOf(v, x, y) # Absent
           /\ PatchOf(v, x, y).uid = v.uid /\ PatchOf(v, x, y).clusters = v.clusters
           /\ PatchOf(v, x, y).sched = x
<1> DEFINE a == v.uid
           b == v.clusters
           c == v.sched
           d == v.complete
           u == [v EXCEPT !.sched = x]
<1>1. v = [uid |-> a, clusters |-> b, sched |-> c, complete |-> d] /\ a \in Nat \ {0}
  BY DEF IsRelease
<1>2. PatchOf(v, x, y) = [u EXCEPT !.complete = y]
  BY <1>1 DEF PatchOf
<1> HIDE DEF a, b, c, d
<1>3. u = [uid |-> a, clusters |-> b, sched |-> x, complete |-> d]
  BY <1>1
<1> HIDE DEF u
<1>4. PatchOf(v, x, y) = [uid |-> a, clusters |-> b, sched |-> x, complete |-> y]
  BY <1>2, <1>3
<1> QED
  BY <1>1, <1>4, Versioned DEF a, b

\* A release that has clusters is the only one there is in the versions, as
\* long as it is stored.
LEMMA OneOwner ==
    ASSUME NEW o, NEW last, ReleaseObject(o, last), Stored(o) # Absent,
           NEW i \in At(o), ~Blank(o.log[i])
    PROVE  \A j \in At(o) : o.log[j].uid = Stored(o).uid
<1>1. Stored(o).uid = o.log[i].uid
  <2>1. IsRelease(Stored(o))
    BY Positions DEF ReleaseObject
  <2> QED
    BY <2>1, Uids DEF ReleaseObject
<1>2. \A j \in At(o) : j <= i => o.log[j].uid = Stored(o).uid
  BY <1>1 DEF ReleaseObject
<1>3. \A j \in At(o) : i <= j => o.log[j].uid = Stored(o).uid
  BY <1>1 DEF ReleaseObject
<1>4. \A j \in At(o) : i <= j \/ j <= i
  BY DEF At
<1> QED
  BY <1>2, <1>3, <1>4

\* A new version of a release: of the one that is stored, its deletion, or
\* the next one of the name.
LEMMA ReleaseAppended ==
    ASSUME NEW o, NEW last \in Nat, ReleaseObject(o, last),
           NEW v, IsRelease(v), NEW now \in Nat, last <= now, v.uid <= now,
           \/ v = Absent
           \/ /\ v.uid = Stored(o).uid
              /\ ~Blank(v) => \A i \in At(o) : o.log[i].uid = v.uid
           \/ /\ last < v.uid /\ Blank(v)
              /\ \A i \in At(o) : Blank(o.log[i])
    PROVE  ReleaseObject(Append1(o, v), now)
<1> DEFINE p == Append1(o, v)
<1>1. IsObject(o) /\ Len(o.log) \in Nat \ {0}
  BY Positions DEF ReleaseObject
<1>2. /\ IsObject(p) /\ p.cache = o.cache
      /\ Len(p.log) = Len(o.log) + 1
      /\ \A i \in At(o) : i \in At(p) /\ p.log[i] = o.log[i]
      /\ \A i \in At(p) : i \in At(o) \/ i = Len(p.log)
      /\ p.log[Len(p.log)] = v /\ Stored(p) = v
  BY <1>1, Appended
<1>3. 1 \in At(o) /\ p.log[1] = o.log[1]
  BY <1>1, <1>2, Positions
<1> HIDE DEF p
<1>4. \A i \in At(o) : /\ o.log[i].uid \in Nat /\ o.log[i].uid <= last
                       /\ o.log[i] = Absent <=> o.log[i].uid = 0
                       /\ IsRelease(o.log[i])
  BY Uids DEF ReleaseObject
<1>5. v.uid \in Nat /\ (v = Absent <=> v.uid = 0)
  BY Uids
<1>6. \A i \in At(p) : IsRelease(p.log[i]) /\ p.log[i].uid <= now
  BY <1>2, <1>4
<1>7. /\ p.cache.uid = p.log[1].uid /\ IsRelease(p.cache)
      /\ p.cache # Absent =>
            /\ p.cache.clusters = p.log[1].clusters
            /\ p.cache.sched = "True" => p.log[1].sched = "True"
  BY <1>2, <1>3 DEF ReleaseObject
<1>8. ASSUME NEW i \in At(p), NEW j \in At(p), i <= j, ~Blank(p.log[j])
      PROVE  p.log[i].uid = p.log[j].uid
  <2>1. CASE j \in At(o)
    <3>1. i \in At(o)
      BY <1>1, <1>8, <2>1 DEF At
    <3> QED
      BY <1>2, <1>8, <2>1, <3>1 DEF ReleaseObject
  <2>2. CASE j = Len(p.log)
    BY <1>2, <1>8, <2>2, Uids
  <2> QED
    BY <1>2, <2>1, <2>2
<1>9. ASSUME NEW i \in At(p), ~Blank(p.log[i])
      PROVE  Stored(p).uid \in {0, p.log[i].uid}
  <2>1. CASE i \in At(o)
    <3>1. p.log[i] = o.log[i] /\ Stored(o).uid \in {0, o.log[i].uid}
      BY <1>2, <1>9, <2>1 DEF ReleaseObject
    <3> QED
      BY <1>2, <1>5, <1>9, <2>1, <3>1
  <2> QED
    BY <1>2, <1>9, <2>1
<1>10. ASSUME Stored(p) # Absent, NEW i \in At(p), NEW j \in At(p), i <= j,
              p.log[i].uid = Stored(p).uid
       PROVE  p.log[j].uid = Stored(p).uid
  <2>1. CASE j \in At(o)
    <3>1. i \in At(o)
      BY <1>1, <1>10, <2>1 DEF At
    <3>2. v.uid = Stored(o).uid
      BY <1>2, <1>4, <1>5, <1>10, <3>1
    <3>3. Stored(o) # Absent
      BY <1>2, <1>5, <1>10, <3>2, Uids
    <3> QED
      BY <1>2, <1>10, <2>1, <3>1, <3>2, <3>3 DEF ReleaseObject
  <2> QED
    BY <1>2, <2>1
<1>11. ReleaseObject(p, now)
  BY <1>2, <1>6, <1>7, <1>8, <1>9, <1>10 DEF ReleaseObject
<1> QED
  BY <1>11 DEF p

\* The cache sees the next version.
LEMMA ReleaseDelivered ==
    ASSUME NEW o, NEW last \in Nat, ReleaseObject(o, last), ~Current(o)
    PROVE  ReleaseObject(Next1(o), last)
<1> DEFINE p == Next1(o)
<1>1. IsObject(o)
  BY DEF ReleaseObject
<1>2. /\ IsObject(p) /\ p.cache = o.log[2] /\ 2 \in At(o)
      /\ Len(p.log) = Len(o.log) - 1
      /\ \A i \in At(p) : i + 1 \in At(o) /\ p.log[i] = o.log[i + 1]
      /\ Stored(p) = Stored(o)
  BY <1>1, Delivered
<1> HIDE DEF p
<1>3. 1 \in At(p) /\ p.log[1] = o.log[2]
  BY <1>2, Positions
<1>4. \A i, j \in At(p) : i <= j => i + 1 <= j + 1
  BY DEF At
<1>5. ReleaseObject(p, last)
  BY <1>2, <1>3, <1>4, SMTT(30) DEF ReleaseObject
<1> QED
  BY <1>5 DEF p

\* The caches are filled anew.
LEMMA ReleaseRefilled ==
    ASSUME NEW o, NEW last \in Nat, ReleaseObject(o, last)
    PROVE  ReleaseObject([cache |-> Stored(o), log |-> <<Stored(o)>>], last)
<1> DEFINE v == Stored(o)
           p == [cache |-> v, log |-> <<v>>]
<1>1. IsRelease(v) /\ v.uid <= last
  BY Positions DEF ReleaseObject
<1> HIDE DEF v
<1>2. IsObject(p) /\ p.cache = v /\ At(p) = {1} /\ p.log[1] = v /\ Stored(p) = v
  BY Refilled
<1> HIDE DEF p
<1>3. ReleaseObject(p, last)
  BY <1>1, <1>2 DEF ReleaseObject
<1> QED
  BY <1>3 DEF p, v

\* Scheduled becomes False in the cache itself.
LEMMA ReleaseUnmarked ==
    ASSUME NEW o, NEW last \in Nat, ReleaseObject(o, last), o.cache # Absent
    PROVE  LET p == [o EXCEPT !.cache = [o.cache EXCEPT !.sched = "False"]]
           IN  /\ ReleaseObject(p, last)
               /\ p.log = o.log /\ p.cache = [o.cache EXCEPT !.sched = "False"]
<1> DEFINE l == o.log
           c == o.cache
           w == [o.cache EXCEPT !.sched = "False"]
           p == [o EXCEPT !.cache = w]
<1>1. o = [cache |-> c, log |-> l] /\ IsRelease(c) /\ c # Absent
  BY DEF ReleaseObject, IsObject
<1>2. /\ IsRelease(w) /\ w # Absent
      /\ w.uid = c.uid /\ w.clusters = c.clusters /\ w.sched = "False"
  BY <1>1, Marked
<1> HIDE DEF l, c, w
<1>3. p = [cache |-> w, log |-> l]
  BY <1>1
<1> HIDE DEF p
<1>4. p.cache = w /\ p.log = o.log
  BY <1>3 DEF l
<1>5. IsObject(p) /\ Stored(p) = Stored(o) /\ At(p) = At(o)
  BY <1>3, <1>4 DEF ReleaseObject, IsObject, Stored, At
<1>6. ReleaseObject(p, last)
  BY <1>2, <1>4, <1>5 DEF ReleaseObject, c
<1> QED
  BY <1>4, <1>6 DEF p, w

\* Versions of a target object: created for the handler's release, deleted
\* once its owner is gone, or written by its owner or by anybody else.
LEMMA TargetAppended ==
    ASSUME NEW o, NEW last \in Nat, NEW own \in Nat, TargetObject(o, last, own),
           NEW v, IsTarget(v), v.uid <= last,
           \/ Stored(o) = Absent
           \/ Stored(o).uid # own
           \/ v.uid = Stored(o).uid
    PROVE  /\ TargetObject(Append1(o, v), last, own)
           /\ own # 0 /\ v.uid # own => Stored(o).uid # own
<1> DEFINE p == Append1(o, v)
<1>1. IsObject(o)
  BY DEF TargetObject
<1>2. /\ IsObject(p) /\ p.cache = o.cache
      /\ \A i \in At(o) : i \in At(p) /\ p.log[i] = o.log[i]
      /\ \A i \in At(p) : i \in At(o) \/ i = Len(p.log)
      /\ p.log[Len(p.log)] = v /\ Stored(p) = v
      /\ 1 \in At(o)
  BY <1>1, Appended, Positions
<1> HIDE DEF p
<1>3. own # 0 /\ v.uid # own => Stored(o).uid # own
  BY Uids
<1>4. TargetObject(p, last, own)
  BY <1>2, <1>3 DEF TargetObject
<1> QED
  BY <1>3, <1>4 DEF p

LEMMA TargetDelivered ==
    ASSUME NEW o, NEW last \in Nat, NEW own \in Nat, TargetObject(o, last, own), ~Current(o)
    PROVE  TargetObject(Next1(o), last, own)
<1> DEFINE p == Next1(o)
<1>1. IsObject(o)
  BY DEF TargetObject
<1>2. /\ IsObject(p) /\ p.cache = o.log[2] /\ 2 \in At(o)
      /\ \A i \in At(p) : i + 1 \in At(o) /\ p.log[i] = o.log[i + 1]
      /\ Stored(p) = Stored(o)
  BY <1>1, Delivered
<1> HIDE DEF p
<1>3. 1 \in At(p) /\ p.log[1] = o.log[2]
  BY <1>2, Positions
<1>4. TargetObject(p, last, own)
  BY <1>2, <1>3 DEF TargetObject
<1> QED
  BY <1>4 DEF p

LEMMA TargetRefilled ==
    ASSUME NEW o, NEW last \in Nat, NEW own \in Nat, TargetObject(o, last, own)
    PROVE  TargetObject([cache |-> Stored(o), log |-> <<Stored(o)>>], last, own)
<1> DEFINE v == Stored(o)
           p == [cache |-> v, log |-> <<v>>]
<1>1. IsTarget(v) /\ v.uid <= last
  BY Positions DEF TargetObject
<1> HIDE DEF v
<1>2. IsObject(p) /\ p.cache = v /\ At(p) = {1} /\ p.log[1] = v /\ Stored(p) = v
  BY Refilled
<1> HIDE DEF p
<1>3. TargetObject(p, last, own)
  BY <1>1, <1>2 DEF TargetObject
<1> QED
  BY <1>3 DEF p, v

\* The clusters change in the cache itself.
LEMMA TargetRepaired ==
    ASSUME NEW o, NEW last \in Nat, NEW own \in Nat, TargetObject(o, last, own),
           NEW w, IsTarget(w), w.uid = o.cache.uid
    PROVE  LET p == [o EXCEPT !.cache = w]
           IN  TargetObject(p, last, own) /\ p.log = o.log /\ Stored(p) = Stored(o)
<1> DEFINE l == o.log
           c == o.cache
           p == [o EXCEPT !.cache = w]
<1>1. o = [cache |-> c, log |-> l]
  BY DEF TargetObject, IsObject
<1> HIDE DEF l, c
<1>2. p = [cache |-> w, log |-> l]
  BY <1>1
<1> HIDE DEF p
<1>3. p.cache = w /\ p.log = o.log
  BY <1>2 DEF l
<1>4. IsObject(p) /\ Stored(p) = Stored(o) /\ At(p) = At(o)
  BY <1>2, <1>3 DEF TargetObject, IsObject, Stored, At
<1>5. TargetObject(p, last, own)
  BY <1>3, <1>4 DEF TargetObject
<1> QED
  BY <1>3, <1>4, <1>5 DEF p

-----------------------------------------------------------------------------
(* What a write to one object leaves true.                                  *)

\* The release changes.
LEMMA ReleaseStep ==
    ASSUME Inv, NEW r \in Gen, NEW o, rel' = [rel EXCEPT ![r] = o], tgt' = tgt,
           uids' \in [Gen -> Nat], \A q \in Gen : q # r => uids'[q] = uids[q],
           uids[r] <= uids'[r], ReleaseObject(o, uids'[r]),
           Stored(o).uid \in {0, Owner(r)} \/ Stored(o).uid > uids[r]
    PROVE  /\ rel' = [q \in Gen |-> rel'[q]] /\ tgt' = [q \in Gen |-> [k \in Kind |-> tgt'[q][k]]]
           /\ rel'[r] = o /\ \A q \in Gen : q # r => rel'[q] = rel[q]
           /\ Releases' /\ Targets'
<1>1. rel = [q \in Gen |-> rel[q]] /\ uids \in [Gen -> Nat]
  BY DEF Inv, Shapes
<1>2. rel'[r] = o /\ \A q \in Gen : q # r => rel'[q] = rel[q]
  BY <1>1
<1>3. rel' = [q \in Gen |-> rel'[q]]
  BY <1>1
<1>4. tgt' = [q \in Gen |-> [k \in Kind |-> tgt'[q][k]]]
  BY DEF Inv, Shapes
<1>5. Releases'
  BY <1>2 DEF Inv, Releases
<1>6. Targets'
  <2> SUFFICES ASSUME NEW q \in Gen, NEW k \in Kind
               PROVE  TargetObject(tgt[q][k], uids'[q], Owner(q)')
    BY DEF Targets
  <2>1. TargetObject(tgt[q][k], uids[q], Owner(q))
    BY DEF Inv, Targets
  <2>2. CASE q # r
    BY <1>2, <2>1, <2>2 DEF Owner
  <2>3. CASE q = r
    <3>1. Owner(q)' = Stored(o).uid
      BY <1>2, <2>3 DEF Owner
    <3>2. \A i \in At(tgt[q][k]) : /\ tgt[q][k].log[i].uid \in Nat
                                   /\ tgt[q][k].log[i].uid <= uids[q]
      BY <2>1, Uids DEF TargetObject
    <3>3. \A i \in At(tgt[q][k]) : tgt[q][k].log[i].uid <= uids'[q]
      BY <1>1, <2>3, <3>2
    <3>4. ASSUME Stored(o).uid # 0, NEW i \in At(tgt[q][k]), tgt[q][k].log[i].uid = Stored(o).uid
          PROVE  Stored(tgt[q][k]).uid = Stored(o).uid
      <4>1. ~(Stored(o).uid > uids[r])
        BY <1>1, <2>3, <3>2, <3>4
      <4>2. Stored(o).uid = Owner(q)
        BY <2>3, <3>4, <4>1
      <4> QED
        BY <2>1, <3>4, <4>2 DEF TargetObject
    <3> QED
      BY <2>1, <3>1, <3>3, <3>4 DEF TargetObject
  <2> QED
    BY <2>2, <2>3
<1> QED
  BY <1>2, <1>3, <1>4, <1>5, <1>6

\* The versions a release may get without another owner.
LEMMA SameOwner ==
    ASSUME Inv, NEW r \in Gen, NEW v, IsRelease(v), v # Absent, v.uid = Owner(r),
           ~Blank(v) => \A i \in At(rel[r]) : rel[r].log[i].uid = v.uid
    PROVE  LET o == Append1(rel[r], v)
           IN  /\ ReleaseObject(o, uids[r]) /\ o.cache = rel[r].cache
               /\ Stored(o).uid = Owner(r)
<1> DEFINE o == Append1(rel[r], v)
<1>1. ReleaseObject(rel[r], uids[r]) /\ uids[r] \in Nat
  BY DEF Inv, Releases, Shapes
<1>2. IsObject(rel[r]) /\ Stored(rel[r]).uid <= uids[r]
  BY <1>1, Positions DEF ReleaseObject
<1>3. o.cache = rel[r].cache /\ Stored(o) = v
  BY <1>2, Appended
<1>4. ReleaseObject(o, uids[r])
  BY <1>1, <1>2, ReleaseAppended DEF Owner
<1> HIDE DEF o
<1> QED
  BY <1>3, <1>4 DEF o

\* A release that does not change does no harm.
LEMMA SameRelease ==
    ASSUME Inv, NEW r \in Gen
    PROVE  ReleaseObject(rel[r], uids[r]) /\ Stored(rel[r]).uid = Owner(r)
  BY DEF Inv, Releases, Owner

LEMMA FieldEdit ==
    ASSUME NEW j, j = [f \in JobField |-> j[f]], NEW a \in JobField, NEW x
    PROVE  LET k == [j EXCEPT ![a] = x]
           IN  k = [f \in JobField |-> k[f]] /\ k[a] = x /\ \A f \in JobField : f # a => k[f] = j[f]
  OBVIOUS

\* What becomes of the job when the release changes behind its back, when the
\* cache moves on, when the handler fails, and when a target object is done.
LEMMA JobEdits ==
    ASSUME NEW j, IsJob(j), j.busy
    PROVE  /\ j = [f \in JobField |-> j[f]]
           /\ LET k == [j EXCEPT !.fresh = FALSE]
              IN  /\ IsJob(k) /\ k.busy /\ k.r = j.r /\ k.copy = j.copy /\ k.failed = j.failed
                  /\ k.todo = j.todo /\ k.fresh = FALSE /\ k.held = j.held /\ k.choosing = j.choosing
           /\ LET k == [j EXCEPT !.held = FALSE]
              IN  /\ IsJob(k) /\ k.busy /\ k.r = j.r /\ k.copy = j.copy /\ k.failed = j.failed
                  /\ k.todo = j.todo /\ k.fresh = j.fresh /\ k.held = FALSE /\ k.choosing = j.choosing
           /\ LET k == [j EXCEPT !.failed = TRUE]
              IN  /\ IsJob(k) /\ k.busy /\ k.r = j.r /\ k.copy = j.copy /\ k.failed = TRUE
                  /\ k.todo = j.todo /\ k.fresh = j.fresh /\ k.held = j.held /\ k.choosing = j.choosing
<1>1. j = [f \in JobField |-> j[f]]
  BY DEF IsJob, Idle
<1>2. LET k == [j EXCEPT !.fresh = FALSE]
      IN  /\ k = [f \in JobField |-> k[f]]
          /\ k.busy = j.busy /\ k.r = j.r /\ k.copy = j.copy /\ k.failed = j.failed
          /\ k.todo = j.todo /\ k.fresh = FALSE /\ k.held = j.held /\ k.choosing = j.choosing
  BY <1>1, FieldEdit DEF JobField
<1>3. LET k == [j EXCEPT !.held = FALSE]
      IN  /\ k = [f \in JobField |-> k[f]]
          /\ k.busy = j.busy /\ k.r = j.r /\ k.copy = j.copy /\ k.failed = j.failed
          /\ k.todo = j.todo /\ k.fresh = j.fresh /\ k.held = FALSE /\ k.choosing = j.choosing
  BY <1>1, FieldEdit DEF JobField
<1>4. LET k == [j EXCEPT !.failed = TRUE]
      IN  /\ k = [f \in JobField |-> k[f]]
          /\ k.busy = j.busy /\ k.r = j.r /\ k.copy = j.copy /\ k.failed = TRUE
          /\ k.todo = j.todo /\ k.fresh = j.fresh /\ k.held = j.held /\ k.choosing = j.choosing
  BY <1>1, FieldEdit DEF JobField
<1>5. /\ j.busy = TRUE /\ j.r \in Gen /\ j.todo \in Seq(Kind)
      /\ j.failed \in BOOLEAN /\ j.fresh \in BOOLEAN /\ j.held \in BOOLEAN
      /\ j.choosing \in BOOLEAN
  BY DEF IsJob, Idle
<1> QED
  BY <1>1, <1>2, <1>3, <1>4, <1>5 DEF IsJob

Advanced(j, t, x) == [j EXCEPT !.todo = t, !.failed = x]

LEMMA JobDone ==
    ASSUME NEW j, IsJob(j), j.busy, NEW x \in BOOLEAN, NEW t \in Seq(Kind)
    PROVE  LET k == Advanced(j, t, x)
           IN  /\ IsJob(k) /\ k.busy /\ k.r = j.r /\ k.copy = j.copy /\ k.failed = x
               /\ k.todo = t /\ k.fresh = j.fresh /\ k.held = j.held /\ k.choosing = j.choosing
<1> DEFINE e == [j EXCEPT !.todo = t]
           k == Advanced(j, t, x)
<1>1. j = [f \in JobField |-> j[f]]
  BY DEF IsJob, Idle
<1>2. k = [e EXCEPT !.failed = x]
  BY <1>1 DEF Advanced
<1>3. /\ e = [f \in JobField |-> e[f]]
      /\ e.busy = j.busy /\ e.r = j.r /\ e.copy = j.copy /\ e.todo = t
      /\ e.fresh = j.fresh /\ e.held = j.held /\ e.choosing = j.choosing
  BY <1>1, FieldEdit DEF JobField
<1> HIDE DEF e, k
<1>4. /\ k = [f \in JobField |-> k[f]]
      /\ k.busy = e.busy /\ k.r = e.r /\ k.copy = e.copy /\ k.failed = x
      /\ k.todo = e.todo /\ k.fresh = e.fresh /\ k.held = e.held /\ k.choosing = e.choosing
  BY <1>2, <1>3, FieldEdit DEF JobField
<1>5. /\ j.busy = TRUE /\ j.r \in Gen
      /\ j.fresh \in BOOLEAN /\ j.held \in BOOLEAN /\ j.choosing \in BOOLEAN
  BY DEF IsJob, Idle
<1>6. IsJob(k)
  BY <1>3, <1>4, <1>5 DEF IsJob
<1> QED
  BY <1>3, <1>4, <1>5, <1>6 DEF k

\* What the job knows of its target objects is still so when the release has
\* changed: it is the same, or it is not the one of the job's copy any more.
LEMMA WorkKept ==
    ASSUME Inv, job.busy, NEW r \in Gen, job.r = r, tgt' = tgt,
           job'.busy, job'.r = job.r, job'.copy = job.copy, job'.todo = job.todo,
           job'.choosing = job.choosing, ~job'.failed => ~job.failed,
           Owner(r)' \in {0, Owner(r)} \/ Owner(r)' > uids[r],
           uids'[r] \in Nat, uids[r] <= uids'[r],
           job'.fresh => Current(rel'[r]) /\ rel'[r].cache = job.copy,
           job'.held => rel'[r].cache = job.copy
    PROVE  Work'
<1>1. /\ job.copy # Absent /\ IsRelease(job.copy)
      /\ (job.choosing <=> job.copy.clusters = {}) /\ job.copy.uid <= uids[r]
  BY DEF Inv, Work
<1>2. job.copy.uid \in Nat \ {0} /\ uids[r] \in Nat
  BY <1>1, Uids DEF Inv, Shapes
<1>3. Owner(r)' = job.copy.uid => Owner(r) = job.copy.uid
  BY <1>1, <1>2
<1>4. ~job.choosing /\ ~job.failed /\ Owner(r) = job.copy.uid =>
        \A k \in Kind : k \in ToSet(job.todo) \/ Stored(tgt[r][k]).uid = job.copy.uid
  BY DEF Inv, Work
<1>5. job.copy.uid <= uids'[r]
  BY <1>1, <1>2
<1> QED
  BY <1>1, <1>3, <1>4, <1>5 DEF Work

\* The job is about another release.
LEMMA WorkElsewhere ==
    ASSUME Inv, job' = job, tgt' = tgt,
           job.busy => rel'[job.r] = rel[job.r] /\ uids'[job.r] = uids[job.r]
    PROVE  Work'
<1>1. job.busy => Owner(job.r)' = Owner(job.r)
  BY DEF Owner
<1> QED
  BY <1>1 DEF Inv, Work

\* A release is written by another than the job.
LEMMA WriteStep ==
    ASSUME Inv, NEW r \in Gen, NEW o, WriteRel(r, o), tgt' = tgt,
           uids' \in [Gen -> Nat], \A q \in Gen : q # r => uids'[q] = uids[q],
           uids[r] <= uids'[r], ReleaseObject(o, uids'[r]), o.cache = rel[r].cache,
           Stored(o).uid \in {0, Owner(r)} \/ Stored(o).uid > uids[r],
           o = rel[r] => uids'[r] = uids[r]
    PROVE  Inv'
<1>1. rel' = [rel EXCEPT ![r] = o]
  BY DEF WriteRel
<1>2. /\ rel' = [q \in Gen |-> rel'[q]] /\ tgt' = [q \in Gen |-> [k \in Kind |-> tgt'[q][k]]]
      /\ rel'[r] = o /\ \A q \in Gen : q # r => rel'[q] = rel[q]
      /\ Releases' /\ Targets'
  BY <1>1, ReleaseStep
<1>3. IsJob(job)
  BY DEF Inv, Shapes
<1>4. CASE job.busy /\ job.r = r /\ o # rel[r]
  <2>1. job' = [job EXCEPT !.fresh = FALSE]
    BY <1>4 DEF WriteRel
  <2>2. /\ IsJob(job') /\ job'.busy /\ job'.r = job.r /\ job'.copy = job.copy
        /\ job'.failed = job.failed /\ job'.todo = job.todo
        /\ job'.fresh = FALSE /\ job'.held = job.held /\ job'.choosing = job.choosing
    BY <1>3, <1>4, <2>1, JobEdits
  <2>3. Owner(r)' = Stored(o).uid
    BY <1>2 DEF Owner
  <2>4. job'.held => rel'[r].cache = job.copy
    BY <1>2, <1>4, <2>2 DEF Inv, Work
  <2>5. uids'[r] \in Nat
    OBVIOUS
  <2>6. Work'
    BY <1>4, <2>2, <2>3, <2>4, <2>5, WorkKept
  <2> QED
    BY <1>2, <2>2, <2>6 DEF Inv, Shapes
<1>5. CASE ~(job.busy /\ job.r = r /\ o # rel[r])
  <2>1. job' = job
    BY <1>5 DEF WriteRel
  <2>2. job.busy => job.r \in Gen
    BY <1>3 DEF IsJob, Idle
  <2>3. job.busy => rel'[job.r] = rel[job.r] /\ uids'[job.r] = uids[job.r]
    BY <1>2, <1>5, <2>2
  <2>4. Work'
    BY <2>1, <2>3, WorkElsewhere
  <2> QED
    BY <1>2, <1>3, <2>1, <2>4 DEF Inv, Shapes
<1> QED
  BY <1>4, <1>5

\* The same, with a version of the release that is stored, or with none.
LEMMA WriteVersion ==
    ASSUME Inv, NEW r \in Gen, UNCHANGED <<tgt, uids>>,
           NEW v, IsRelease(v), v # Absent, v.uid = Owner(r),
           ~Blank(v) => \A i \in At(rel[r]) : rel[r].log[i].uid = v.uid,
           WriteRel(r, Put(rel[r], v))
    PROVE  Inv'
<1>1. uids \in [Gen -> Nat]
  BY DEF Inv, Shapes
<1>2. uids[r] <= uids[r]
  BY <1>1
<1>3. CASE v = Stored(rel[r])
  <2>1. WriteRel(r, rel[r])
    BY <1>3 DEF Put
  <2> QED
    BY <1>1, <1>2, <2>1, SameRelease, WriteStep
<1>4. CASE v # Stored(rel[r])
  <2> DEFINE o == Append1(rel[r], v)
  <2>1. WriteRel(r, o)
    BY <1>4 DEF Put
  <2>2. ReleaseObject(o, uids[r]) /\ o.cache = rel[r].cache /\ Stored(o).uid = Owner(r)
    BY SameOwner
  <2> HIDE DEF o
  <2> QED
    BY <1>1, <1>2, <2>1, <2>2, WriteStep
<1> QED
  BY <1>3, <1>4

LEMMA Untouched ==
    ASSUME Inv, UNCHANGED <<rel, tgt, job, uids>>
    PROVE  Inv'
  BY DEF Inv, Shapes, Releases, Targets, Work, Owner

-----------------------------------------------------------------------------
(* The steps that write a release.                                          *)

\* What a cache that is up to date says about the stored release.
LEMMA UpToDate ==
    ASSUME Inv, NEW r \in Gen, Current(rel[r])
    PROVE  /\ At(rel[r]) = {1} /\ Stored(rel[r]) = rel[r].log[1]
           /\ rel[r].cache.uid = Owner(r)
           /\ \A i \in At(rel[r]) : rel[r].log[i].uid = Owner(r)
           /\ rel[r].cache # Absent => /\ Stored(rel[r]) # Absent
                                       /\ rel[r].cache.clusters = Stored(rel[r]).clusters
<1>1. ReleaseObject(rel[r], uids[r])
  BY DEF Inv, Releases
<1>2. Len(rel[r].log) = 1
  BY DEF Current
<1>3. At(rel[r]) = {1} /\ Stored(rel[r]) = rel[r].log[1]
  BY <1>2 DEF At, Stored
<1>4. IsRelease(rel[r].cache) /\ IsRelease(rel[r].log[1]) /\ rel[r].cache.uid = rel[r].log[1].uid
  BY <1>1, <1>3 DEF ReleaseObject
<1> QED
  BY <1>1, <1>3, <1>4, Uids DEF Owner, ReleaseObject

LEMMA EditClustersStep ==
    ASSUME Inv, NEW r \in Gen, EditClusters(r)
    PROVE  Inv'
<1>1. UNCHANGED <<tgt, uids>> /\ Stored(rel[r]) # Absent /\ Stored(rel[r]).clusters # {}
  BY DEF EditClusters
<1>2. PICK c \in fleet : WriteRel(r, Put(rel[r], [Stored(rel[r]) EXCEPT !.clusters = {c.name}]))
  BY DEF EditClusters
<1> DEFINE v == [Stored(rel[r]) EXCEPT !.clusters = {c.name}]
<1>3. ReleaseObject(rel[r], uids[r])
  BY DEF Inv, Releases
<1>4. /\ Len(rel[r].log) \in At(rel[r]) /\ Stored(rel[r]) = rel[r].log[Len(rel[r].log)]
      /\ IsRelease(Stored(rel[r]))
  BY <1>3, Positions DEF ReleaseObject
<1>5. IsRelease(v) /\ v # Absent /\ v.uid = Owner(r) /\ v.sched = Stored(rel[r]).sched
  BY <1>1, <1>4, Assigned, SMTT(30) DEF Owner
<1> HIDE DEF v
<1>6. ~Blank(Stored(rel[r])) /\ Owner(r) # 0
  BY <1>1, <1>4, Uids DEF Blank, Owner
<1>7. \A i \in At(rel[r]) : rel[r].log[i].uid = v.uid
  BY <1>1, <1>3, <1>4, <1>5, <1>6, OneOwner DEF Owner
<1> QED
  BY <1>1, <1>2, <1>5, <1>7, WriteVersion DEF v

LEMMA DeleteReleaseStep ==
    ASSUME Inv, NEW r \in Gen, DeleteRelease(r)
    PROVE  Inv'
<1> DEFINE o == Append1(rel[r], Absent)
<1>1. UNCHANGED <<tgt, uids>> /\ WriteRel(r, o)
  BY DEF DeleteRelease
<1>2. ReleaseObject(rel[r], uids[r]) /\ uids \in [Gen -> Nat] /\ uids[r] \in Nat
  BY DEF Inv, Releases, Shapes
<1>3. o.cache = rel[r].cache /\ Stored(o) = Absent
  BY <1>2, Appended DEF ReleaseObject
<1>4. IsRelease(Absent) /\ Absent.uid = 0
  BY Uids
<1>5. ReleaseObject(o, uids[r])
  BY <1>2, <1>4, ReleaseAppended
<1> HIDE DEF o
<1>6. uids[r] <= uids[r]
  BY <1>2
<1> QED
  BY <1>1, <1>2, <1>3, <1>4, <1>5, <1>6, WriteStep

LEMMA CreateReleaseStep ==
    ASSUME Inv, NEW r \in Gen, CreateRelease(r)
    PROVE  Inv'
<1> DEFINE v == [uid |-> uids[r] + 1, clusters |-> {}, sched |-> "none", complete |-> FALSE]
           o == Append1(rel[r], v)
<1>1. ReleaseObject(rel[r], uids[r]) /\ uids \in [Gen -> Nat] /\ uids[r] \in Nat
  BY DEF Inv, Releases, Shapes
<1>2. /\ uids' \in [Gen -> Nat] /\ uids'[r] = uids[r] + 1 /\ uids[r] <= uids'[r]
      /\ \A q \in Gen : q # r => uids'[q] = uids[q]
  BY <1>1 DEF CreateRelease
<1>3. tgt' = tgt /\ WriteRel(r, o) /\ rel[r].cache = Absent
  BY <1>2 DEF CreateRelease
<1>4. IsRelease(v) /\ v # Absent /\ v.uid = uids[r] + 1 /\ v.clusters = {} /\ v.sched = "none"
  BY <1>1, Versioned
<1> HIDE DEF v
<1>5. \A i \in At(rel[r]) : Blank(rel[r].log[i])
  <2> SUFFICES ASSUME NEW i \in At(rel[r]), ~Blank(rel[r].log[i])
               PROVE  FALSE
    OBVIOUS
  <2>1. 1 \in At(rel[r]) /\ 1 <= i
    BY <1>1, Positions DEF ReleaseObject, At
  <2>2. rel[r].log[i].uid = rel[r].log[1].uid
    BY <1>1, <2>1 DEF ReleaseObject
  <2>3. rel[r].log[i].uid = 0
    BY <1>1, <1>3, <2>2, Uids DEF ReleaseObject
  <2> QED
    BY <1>1, <2>3, Uids DEF ReleaseObject
<1>6. /\ o.cache = rel[r].cache /\ Stored(o) = v /\ o # rel[r]
      /\ \A i \in At(rel[r]) : o.log[i] = rel[r].log[i]
      /\ \A i \in At(o) : i \in At(rel[r]) \/ i = Len(o.log)
      /\ o.log[Len(o.log)] = v
  BY <1>1, Appended DEF ReleaseObject
<1>7. ReleaseObject(o, uids'[r])
  <2>1. Blank(v)
    BY <1>4 DEF Blank
  <2>2. v.uid <= uids'[r] /\ uids[r] < v.uid /\ uids'[r] \in Nat
    BY <1>1, <1>2, <1>4
  <2> QED
    BY <1>1, <1>2, <1>4, <1>5, <2>1, <2>2, ReleaseAppended
<1> HIDE DEF o
<1>8. Stored(o).uid > uids[r]
  BY <1>1, <1>4, <1>6
<1> QED
  BY <1>2, <1>3, <1>6, <1>7, <1>8, WriteStep

Less == OpToRel(<, Nat)

LEMMA LessThan == \A x, y \in Nat : <<x, y>> \in Less <=> x < y
  BY DEF Less, OpToRel

\* A set of numbers up to n has a greatest one.
LEMMA Greatest ==
    ASSUME NEW n \in Nat, NEW S \in SUBSET (1 .. n), S # {}
    PROVE  Max(S) \in S /\ \A y \in S : Max(S) >= y
<1> DEFINE T == {n - x : x \in S}
<1>1. T \subseteq Nat /\ T # {}
  <2>1. \A x \in S : x \in Int /\ n - x \in Nat
    OBVIOUS
  <2>2. PICK x : x \in S
    OBVIOUS
  <2>3. n - x \in T
    BY <2>2
  <2> QED
    BY <2>1, <2>3
<1>2. IsWellFoundedOn(Less, Nat)
  BY NatLessThanWellFounded DEF Less
<1>3. \E z \in T : \A y \in T : ~(<<y, z>> \in Less)
  BY <1>1, <1>2, WFMin
<1>4. PICK z \in T : \A y \in T : ~(<<y, z>> \in Less)
  BY <1>3
<1>5. PICK x \in S : z = n - x
  BY <1>4
<1>6. \A y \in S : x >= y
  <2> TAKE y \in S
  <2>1. n - y \in T /\ n - y \in Nat /\ z \in Nat
    BY <1>1, <1>4
  <2>2. ~(n - y < z)
    BY <1>4, <2>1, LessThan
  <2> QED
    BY <1>5, <2>2
<1> QED
  BY <1>6 DEF Max

LEMMA ContenderFacts ==
    ASSUME Contender # None
    PROVE  /\ Contender \in Gen
           /\ rel[Contender].cache # Absent /\ rel[Contender].cache.sched = "True"
<1> DEFINE s == {r \in Listed : rel[r].cache.sched = "True"}
<1>1. s # {} /\ Contender = Max(s)
  BY DEF Contender
<1>2. s \in SUBSET (1 .. Gens) /\ Gens \in Nat
  BY SchedulingAssumption DEF Listed, Gen
<1> HIDE DEF s
<1>3. Contender \in s
  BY <1>1, <1>2, Greatest
<1> QED
  BY <1>3 DEF s, Listed

LEMMA PatchContenderStep ==
    ASSUME Inv, Executing, PatchContender
    PROVE  Inv'
<1>1. PICK r \in Gen : r = exec.r
  BY DEF PatchContender, Executing
<1>2. UNCHANGED <<tgt, uids>>
  BY DEF PatchContender
<1>3. CASE Stored(rel[r]) # Absent
           /\ WriteRel(r, Put(rel[r], PatchOf(Stored(rel[r]), exec.sched, exec.complete)))
  <2> DEFINE v == PatchOf(Stored(rel[r]), exec.sched, exec.complete)
  <2>1. ReleaseObject(rel[r], uids[r])
    BY DEF Inv, Releases
  <2>2. /\ IsRelease(Stored(rel[r])) /\ Len(rel[r].log) \in At(rel[r])
        /\ Stored(rel[r]) = rel[r].log[Len(rel[r].log)]
    BY <2>1, Positions DEF ReleaseObject
  <2>3. /\ IsRelease(v) /\ v # Absent /\ v.uid = Owner(r)
        /\ v.clusters = Stored(rel[r]).clusters
    BY <1>3, <2>2, Patched DEF Owner
  <2>4. WriteRel(r, Put(rel[r], v))
    BY <1>3
  <2> HIDE DEF v
  <2>5. ~Blank(v) => ~Blank(Stored(rel[r]))
    BY <1>3, <2>3 DEF Blank
  <2>6. ~Blank(v) => \A i \in At(rel[r]) : rel[r].log[i].uid = v.uid
    BY <1>3, <2>1, <2>2, <2>3, <2>5, OneOwner DEF Owner
  <2> QED
    BY <1>2, <2>3, <2>4, <2>6, WriteVersion
<1>4. CASE UNCHANGED <<rel, job>>
  BY <1>2, <1>4, Untouched
<1> QED
  BY <1>1, <1>3, <1>4 DEF PatchContender, PatchOf

\* The handler starts on a copy of the cached release.
LEMMA StartSchedulingStep ==
    ASSUME Inv, NEW r \in Gen, StartScheduling(r)
    PROVE  Inv'
<1>1. UNCHANGED <<rel, tgt, uids>> /\ rel[r].cache # Absent /\ rel[r].cache.clusters # {}
  BY DEF StartScheduling
<1>2. PICK ok \in BOOLEAN :
        job' = [busy |-> TRUE, r |-> r, copy |-> rel[r].cache, choosing |-> FALSE,
                listed |-> {}, failed |-> ~ok, todo |-> IF ok THEN Kinds ELSE << >>,
                fresh |-> Current(rel[r]), held |-> TRUE]
  BY DEF StartScheduling
<1>3. /\ job' = [f \in JobField |-> job'[f]] /\ job'.busy = TRUE /\ job'.r = r
      /\ job'.copy = rel[r].cache /\ job'.failed = ~ok
      /\ job'.todo = (IF ok THEN Kinds ELSE << >>)
      /\ job'.fresh = Current(rel[r]) /\ job'.held = TRUE /\ job'.choosing = FALSE
  BY <1>2 DEF JobField
<1>4. Kinds \in Seq(Kind) /\ Kind = ToSet(Kinds)
  <2>1. Kinds \in Seq(ToSet(Kinds))
    BY SchedulingAssumption
  <2>2. DOMAIN Kinds = 1 .. Len(Kinds)
    BY <2>1, LenProperties
  <2> QED
    BY <2>1, <2>2 DEF Kind, ToSet
<1>5. IsJob(job')
  <2>1. job'.todo \in Seq(Kind)
    BY <1>3, <1>4
  <2>2. job'.fresh \in BOOLEAN /\ job'.failed \in BOOLEAN /\ job'.held \in BOOLEAN
    BY <1>3 DEF Current
  <2> QED
    BY <1>3, <2>1, <2>2 DEF IsJob
<1>6. IsRelease(rel[r].cache) /\ rel[r].cache.uid <= uids[r]
  BY Positions DEF Inv, Releases, ReleaseObject
<1>7. Work'
  <2>1. ~job'.failed => job'.todo = Kinds
    BY <1>3
  <2>2. ~job'.failed => \A k \in Kind : k \in ToSet(job'.todo)
    BY <1>4, <2>1
  <2> QED
    BY <1>1, <1>3, <1>6, <2>2 DEF Work, Owner
<1> QED
  BY <1>1, <1>5, <1>7 DEF Inv, Shapes, Releases, Targets, Owner

\* The same to choose its clusters.
LEMMA ListClustersStep ==
    ASSUME Inv, NEW r \in Gen, ListClusters(r)
    PROVE  Inv'
<1>1. UNCHANGED <<rel, tgt, uids>> /\ rel[r].cache # Absent /\ rel[r].cache.clusters = {}
  BY DEF ListClusters
<1>2. /\ job' = [f \in JobField |-> job'[f]] /\ job'.busy = TRUE /\ job'.r = r
      /\ job'.copy = rel[r].cache /\ job'.failed = FALSE /\ job'.todo = << >>
      /\ job'.fresh = Current(rel[r]) /\ job'.held = TRUE /\ job'.choosing = TRUE
  BY DEF ListClusters, JobField
<1>3. IsJob(job')
  <2>1. << >> \in Seq(Kind)
    OBVIOUS
  <2>2. job'.fresh \in BOOLEAN
    BY <1>2 DEF Current
  <2> QED
    BY <1>2, <2>1, <2>2 DEF IsJob
<1>4. IsRelease(rel[r].cache) /\ rel[r].cache.uid <= uids[r]
  BY Positions DEF Inv, Releases, ReleaseObject
<1>5. Work'
  BY <1>1, <1>2, <1>4 DEF Work, Owner
<1> QED
  BY <1>1, <1>3, <1>5 DEF Inv, Shapes, Releases, Targets, Owner

\* The handler marks the release it was about, and is done.
LEMMA MarkStep ==
    ASSUME Inv, job.busy, NEW o, rel' = [rel EXCEPT ![job.r] = o], UNCHANGED <<tgt, uids>>,
           job' = Idle, ReleaseObject(o, uids[job.r]),
           Stored(o).uid = Owner(job.r)
    PROVE  Inv'
<1>1. job.r \in Gen /\ uids \in [Gen -> Nat]
  BY DEF Inv, Shapes, IsJob, Idle
<1>2. uids[job.r] <= uids[job.r]
  BY <1>1
<1>3. /\ rel' = [q \in Gen |-> rel'[q]] /\ tgt' = [q \in Gen |-> [k \in Kind |-> tgt'[q][k]]]
      /\ Releases' /\ Targets'
  BY <1>1, <1>2, ReleaseStep
<1>4. ~job'.busy /\ IsJob(job')
  BY DEF Idle, IsJob
<1> QED
  BY <1>1, <1>3, <1>4 DEF Inv, Shapes, Work

\* ... or lets go of it.
LEMMA Released ==
    ASSUME Inv, UNCHANGED <<rel, tgt, uids>>, job' = Idle
    PROVE  Inv'
<1>1. ~job'.busy /\ IsJob(job')
  BY DEF Idle, IsJob
<1> QED
  BY <1>1 DEF Inv, Shapes, Releases, Targets, Work, Owner

\* ... or writes a version of its copy.
LEMMA MarkVersion ==
    ASSUME Inv, job.busy, job.fresh, UNCHANGED <<tgt, uids>>, job' = Idle,
           NEW v, IsRelease(v), v # Absent, v.uid = job.copy.uid,
           rel' = [rel EXCEPT ![job.r] = Put(@, v)]
    PROVE  Inv'
<1>1. PICK r \in Gen : r = job.r
  BY DEF Inv, Shapes, IsJob, Idle
<1>2. Current(rel[r]) /\ rel[r].cache = job.copy
  BY <1>1 DEF Inv, Work
<1>3. v.uid = Owner(r) /\ \A i \in At(rel[r]) : rel[r].log[i].uid = v.uid
  BY <1>2, UpToDate
<1>4. rel' = [rel EXCEPT ![r] = Put(rel[r], v)]
  BY <1>1 DEF Inv, Shapes
<1>5. CASE v = Stored(rel[r])
  <2>1. rel' = [rel EXCEPT ![r] = rel[r]]
    BY <1>4, <1>5 DEF Put
  <2> QED
    BY <1>1, <2>1, SameRelease, MarkStep
<1>6. CASE v # Stored(rel[r])
  <2>1. rel' = [rel EXCEPT ![r] = Append1(rel[r], v)]
    BY <1>4, <1>6 DEF Put
  <2>2. LET o == Append1(rel[r], v)
        IN  ReleaseObject(o, uids[r]) /\ Stored(o).uid = Owner(r)
    BY <1>3, SameOwner
  <2> QED
    BY <1>1, <2>1, <2>2, MarkStep
<1> QED
  BY <1>5, <1>6

LEMMA ChooseClustersStep ==
    ASSUME Inv, ChooseClusters
    PROVE  Inv'
<1>1. job.busy /\ UNCHANGED <<tgt, uids>> /\ job' = Idle
  BY DEF ChooseClusters, Choosing
<1>2. IsRelease(job.copy) /\ job.copy # Absent
  BY <1>1 DEF Inv, Work
<1>3. ASSUME NEW x, job.fresh, rel' = [rel EXCEPT ![job.r] = Put(@, [job.copy EXCEPT !.clusters = x])]
      PROVE  Inv'
  <2> DEFINE v == [job.copy EXCEPT !.clusters = x]
  <2>1. IsRelease(v) /\ v # Absent /\ v.uid = job.copy.uid
    BY <1>2, Assigned
  <2>2. rel' = [rel EXCEPT ![job.r] = Put(@, v)]
    BY <1>3
  <2> HIDE DEF v
  <2> QED
    BY <1>1, <1>3, <2>1, <2>2, MarkVersion
<1>4. CASE rel' = rel
  BY <1>1, <1>4, Released
<1> QED
  BY <1>3, <1>4 DEF ChooseClusters

LEMMA MarkScheduledStep ==
    ASSUME Inv, MarkScheduled
    PROVE  Inv'
<1> DEFINE r == job.r
           v == [job.copy EXCEPT !.sched = "True"]
<1>1. /\ job.busy /\ job.todo = << >> /\ ~job.failed /\ UNCHANGED <<tgt, uids>>
      /\ r \in Gen /\ IsJob(job)
  BY DEF MarkScheduled, Finished, Inv, Shapes, IsJob, Idle
<1>2. CASE job' = Idle /\ rel' = rel
  BY <1>1, <1>2, Released
<1>3. CASE job.fresh /\ rel' = [rel EXCEPT ![r] = Put(@, v)] /\ job' = Idle
  <2>1. IsRelease(job.copy) /\ job.copy # Absent
    BY <1>1 DEF Inv, Work
  <2>2. IsRelease(v) /\ v # Absent /\ v.uid = job.copy.uid
    BY <2>1, Marked
  <2> HIDE DEF v
  <2> QED
    BY <1>1, <1>3, <2>2, MarkVersion
<1>4. CASE job' = [job EXCEPT !.failed = TRUE] /\ rel' = rel
  <2>1. /\ IsJob(job') /\ job'.busy /\ job'.r = job.r /\ job'.copy = job.copy /\ job'.failed = TRUE
        /\ job'.todo = job.todo /\ job'.fresh = job.fresh /\ job'.held = job.held
        /\ job'.choosing = job.choosing
    BY <1>1, <1>4, JobEdits
  <2>2. Work'
    BY <1>1, <1>4, <2>1 DEF Inv, Work
  <2> QED
    BY <1>1, <1>4, <2>1, <2>2 DEF Inv, Shapes, Releases, Targets, Owner
<1> QED
  BY <1>2, <1>3, <1>4 DEF MarkScheduled

LEMMA MarkUnscheduledStep ==
    ASSUME Inv, MarkUnscheduled
    PROVE  Inv'
<1> DEFINE r == job.r
           v == [job.copy EXCEPT !.sched = "False"]
           o == IF job.held THEN [rel[r] EXCEPT !.cache = v] ELSE rel[r]
<1>1. /\ job.busy /\ UNCHANGED <<tgt, uids>> /\ job' = Idle
      /\ r \in Gen /\ uids[r] \in Nat
  BY DEF MarkUnscheduled, Finished, Inv, Shapes, IsJob, Idle
<1>2. \/ job.fresh /\ rel' = [rel EXCEPT ![r] = Put(o, v)]
      \/ rel' = [rel EXCEPT ![r] = o]
  BY DEF MarkUnscheduled
<1>3. IsRelease(job.copy) /\ job.copy # Absent
  BY <1>1 DEF Inv, Work
<1>4. IsRelease(v) /\ v # Absent /\ v.uid = job.copy.uid /\ v.sched = "False"
  BY <1>3, Marked
<1>5. ReleaseObject(rel[r], uids[r]) /\ Stored(rel[r]).uid = Owner(r)
  BY <1>1, SameRelease
<1>6. ReleaseObject(o, uids[r]) /\ o.log = rel[r].log
  <2>1. CASE job.held
    <3>1. rel[r].cache = job.copy
      BY <1>1, <2>1 DEF Inv, Work
    <3>2. o = [rel[r] EXCEPT !.cache = [rel[r].cache EXCEPT !.sched = "False"]]
      BY <2>1, <3>1
    <3> QED
      BY <1>1, <1>3, <1>5, <3>1, <3>2, ReleaseUnmarked
  <2>2. CASE ~job.held
    BY <1>5, <2>2
  <2> QED
    BY <2>1, <2>2
<1> HIDE DEF o, v
<1>7. Stored(o) = Stored(rel[r]) /\ At(o) = At(rel[r])
  BY <1>5, <1>6 DEF Stored, At
<1>8. CASE rel' = [rel EXCEPT ![r] = o]
  BY <1>1, <1>5, <1>6, <1>7, <1>8, MarkStep
<1>9. CASE job.fresh /\ rel' = [rel EXCEPT ![r] = Append1(o, v)]
  <2> DEFINE p == Append1(o, v)
  <2>1. Current(rel[r]) /\ rel[r].cache = job.copy
    BY <1>1, <1>9 DEF Inv, Work
  <2>2. v.uid = Owner(r) /\ \A i \in At(o) : o.log[i].uid = v.uid
    BY <1>1, <1>4, <1>6, <1>7, <2>1, UpToDate
  <2>3. Stored(o).uid = v.uid /\ v.uid <= uids[r]
    BY <1>5, <1>6, <1>7, <2>2, Positions DEF ReleaseObject
  <2>4. ReleaseObject(p, uids[r])
    BY <1>1, <1>4, <1>6, <2>2, <2>3, ReleaseAppended
  <2>5. Stored(p) = v
    BY <1>6, Appended DEF ReleaseObject
  <2> HIDE DEF p
  <2> QED
    BY <1>1, <1>9, <2>2, <2>4, <2>5, MarkStep DEF p
<1> QED
  BY <1>2, <1>8, <1>9 DEF Put

-----------------------------------------------------------------------------
(* The steps that write a target object.                                    *)

\* The owner that is stored does not lose a target object.
Keeps(r, o, p) == Owner(r) # 0 /\ Stored(o).uid = Owner(r) => Stored(p).uid = Owner(r)

\* No owner that is stored does.
AllKept == \A q \in Gen, j \in Kind : Keeps(q, tgt[q][j], tgt'[q][j])

LEMMA TargetStep ==
    ASSUME Inv, NEW r \in Gen, NEW k \in Kind, NEW o, tgt' = [tgt EXCEPT ![r][k] = o],
           UNCHANGED <<rel, uids>>, TargetObject(o, uids[r], Owner(r)), Keeps(r, tgt[r][k], o)
    PROVE  /\ tgt' = [q \in Gen |-> [j \in Kind |-> tgt'[q][j]]]
           /\ tgt'[r][k] = o
           /\ \A q \in Gen, j \in Kind : q # r \/ j # k => tgt'[q][j] = tgt[q][j]
           /\ \A q \in Gen, j \in Kind : Keeps(q, tgt[q][j], tgt'[q][j])
           /\ Releases' /\ Targets'
<1>1. tgt = [q \in Gen |-> [j \in Kind |-> tgt[q][j]]]
  BY DEF Inv, Shapes
<1>2. tgt' = [q \in Gen |-> [j \in Kind |-> IF q = r /\ j = k THEN o ELSE tgt[q][j]]]
  BY <1>1
<1>3. /\ tgt'[r][k] = o
      /\ \A q \in Gen, j \in Kind : q # r \/ j # k => tgt'[q][j] = tgt[q][j]
      /\ tgt' = [q \in Gen |-> [j \in Kind |-> tgt'[q][j]]]
  <2>1. \A q \in Gen, j \in Kind : tgt'[q][j] = IF q = r /\ j = k THEN o ELSE tgt[q][j]
    BY <1>2
  <2>2. tgt' = [q \in Gen |-> [j \in Kind |-> tgt'[q][j]]]
    BY <1>2, <2>1, Zenon
  <2> QED
    BY <2>1, <2>2
<1>4. \A q \in Gen : Owner(q)' = Owner(q)
  BY DEF Owner
<1>5. \A q \in Gen, j \in Kind : Keeps(q, tgt[q][j], tgt'[q][j])
  BY <1>3 DEF Keeps
<1>6. Targets'
  BY <1>3, <1>4 DEF Inv, Targets
<1>7. Releases'
  BY DEF Inv, Releases
<1> QED
  BY <1>3, <1>5, <1>6, <1>7

\* ... by another than the job.
LEMMA TargetStepAside ==
    ASSUME Inv, NEW r \in Gen, NEW k \in Kind, NEW o, tgt' = [tgt EXCEPT ![r][k] = o],
           UNCHANGED <<rel, uids, job>>, TargetObject(o, uids[r], Owner(r)), Keeps(r, tgt[r][k], o)
    PROVE  Inv' /\ AllKept
<1>1. /\ tgt' = [q \in Gen |-> [j \in Kind |-> tgt'[q][j]]]
      /\ \A q \in Gen, j \in Kind : Keeps(q, tgt[q][j], tgt'[q][j])
      /\ Releases' /\ Targets'
  BY TargetStep
<1>2. Work'
  <2> SUFFICES ASSUME job.busy
               PROVE  Work'
    BY DEF Work
  <2>1. job.r \in Gen
    BY DEF Inv, Shapes, IsJob, Idle
  <2>2. job.copy.uid # 0 /\ Owner(job.r)' = Owner(job.r)
    BY Uids DEF Inv, Work, Owner
  <2>3. ~job.choosing /\ ~job.failed /\ Owner(job.r) = job.copy.uid =>
          \A j \in Kind : j \in ToSet(job.todo) \/ Stored(tgt'[job.r][j]).uid = job.copy.uid
    BY <1>1, <2>1, <2>2 DEF Inv, Work, Keeps
  <2> QED
    BY <2>2, <2>3 DEF Inv, Work
<1> QED
  BY <1>1, <1>2 DEF Inv, Shapes, AllKept

\* The numbers, as the lemmas on target objects need them.
LEMMA Numbers ==
    ASSUME Inv, NEW r \in Gen
    PROVE  uids[r] \in Nat /\ Owner(r) \in Nat
  BY Positions, Uids, SMTT(30) DEF Inv, Shapes, Releases, ReleaseObject, Owner

LEMMA CollectGarbageStep ==
    ASSUME Inv, NEW r \in Gen, NEW k \in Kind, CollectGarbage(r, k)
    PROVE  Inv' /\ AllKept
<1> DEFINE o == Append1(tgt[r][k], Absent)
<1>1. UNCHANGED <<rel, uids, job>> /\ Stored(tgt[r][k]).uid # Owner(r)
  BY DEF CollectGarbage, Owner
<1>2. tgt' = [tgt EXCEPT ![r][k] = o]
  BY DEF CollectGarbage, Inv, Shapes
<1>3. TargetObject(tgt[r][k], uids[r], Owner(r))
  BY DEF Inv, Targets
<1>4. IsTarget(Absent) /\ Absent.uid <= uids[r]
  BY Uids, Numbers
<1>5. TargetObject(o, uids[r], Owner(r))
  BY <1>1, <1>3, <1>4, Numbers, TargetAppended
<1>6. Keeps(r, tgt[r][k], o)
  BY <1>1 DEF Keeps
<1> QED
  BY <1>1, <1>2, <1>5, <1>6, TargetStepAside

LEMMA TouchTargetStep ==
    ASSUME Inv, NEW r \in Gen, NEW k \in Kind, TouchTarget(r, k)
    PROVE  Inv' /\ AllKept
<1> DEFINE v == Stored(tgt[r][k])
           o == Append1(tgt[r][k], v)
<1>1. UNCHANGED <<rel, uids, job>>
  BY DEF TouchTarget
<1>2. tgt' = [tgt EXCEPT ![r][k] = o]
  BY DEF TouchTarget, Inv, Shapes
<1>3. TargetObject(tgt[r][k], uids[r], Owner(r))
  BY DEF Inv, Targets
<1>4. IsTarget(v) /\ v.uid <= uids[r]
  BY <1>3, Positions DEF TargetObject
<1>5. Stored(o) = v
  BY <1>3, Appended DEF TargetObject
<1>6. TargetObject(o, uids[r], Owner(r))
  BY <1>3, <1>4, Numbers, TargetAppended
<1>7. Keeps(r, tgt[r][k], o)
  BY <1>5 DEF Keeps
<1> QED
  BY <1>1, <1>2, <1>6, <1>7, TargetStepAside

LEMMA DeliverTargetStep ==
    ASSUME Inv, NEW r \in Gen, NEW k \in Kind, DeliverTarget(r, k)
    PROVE  Inv' /\ AllKept
<1> DEFINE o == Next1(tgt[r][k])
<1>1. UNCHANGED <<rel, uids, job>> /\ ~Current(tgt[r][k])
  BY DEF DeliverTarget
<1>2. tgt' = [tgt EXCEPT ![r][k] = o]
  BY DEF DeliverTarget, Inv, Shapes
<1>3. TargetObject(tgt[r][k], uids[r], Owner(r))
  BY DEF Inv, Targets
<1>4. TargetObject(o, uids[r], Owner(r))
  BY <1>1, <1>3, Numbers, TargetDelivered
<1>5. Keeps(r, tgt[r][k], o)
  BY <1>1, <1>3, Delivered DEF Keeps, TargetObject
<1> QED
  BY <1>1, <1>2, <1>4, <1>5, TargetStepAside

\* What is left to do after a target object.
LEMMA Rest ==
    ASSUME NEW t \in Seq(Kind), t # << >>
    PROVE  Tail(t) \in Seq(Kind) /\ \A k \in ToSet(t) : k = Head(t) \/ k \in ToSet(Tail(t))
<1> DEFINE u == Tail(t)
<1>1. /\ u \in Seq(Kind) /\ Len(u) = Len(t) - 1
      /\ \A i \in 1 .. Len(u) : u[i] = t[i + 1]
  BY HeadTailProperties
<1>2. Head(t) = t[1]
  BY HeadTailProperties
<1>3. DOMAIN t = 1 .. Len(t) /\ DOMAIN u = 1 .. Len(u) /\ Len(t) \in Nat /\ Len(u) \in Nat
  BY <1>1, LenProperties
<1> HIDE DEF u
<1>4. ASSUME NEW i \in 1 .. Len(t), i # 1
      PROVE  t[i] \in ToSet(u)
  <2>1. i - 1 \in 1 .. Len(u) /\ (i - 1) + 1 = i
    BY <1>1, <1>3, <1>4
  <2>2. u[i - 1] = t[i]
    BY <1>1, <2>1
  <2> QED
    BY <1>3, <2>1, <2>2 DEF ToSet
<1>5. \A k \in ToSet(t) : \E i \in 1 .. Len(t) : k = t[i]
  BY <1>3 DEF ToSet
<1> QED
  BY <1>1, <1>2, <1>4, <1>5 DEF u

\* The job is done with a target object.
LEMMA DoneStep ==
    ASSUME Inv, NEW r \in Gen, r = job.r, NEW k \in Kind, Working(k),
           NEW o, NEW ok \in BOOLEAN, TargetDone(k, o, ok),
           TargetObject(o, uids[r], Owner(r)), Keeps(r, tgt[r][k], o),
           ok /\ Owner(r) = job.copy.uid => Stored(o).uid = job.copy.uid
    PROVE  Inv' /\ AllKept
<1>1. /\ job.busy /\ job.todo # << >> /\ Head(job.todo) = k /\ IsJob(job)
      /\ job.todo \in Seq(Kind) /\ job.failed \in BOOLEAN
  BY DEF Working, Inv, Shapes, IsJob, Idle
<1>2. /\ UNCHANGED <<rel, uids>> /\ tgt' = [tgt EXCEPT ![r][k] = o]
  BY DEF TargetDone
<1>3. /\ tgt' = [q \in Gen |-> [j \in Kind |-> tgt'[q][j]]] /\ tgt'[r][k] = o
      /\ \A q \in Gen, j \in Kind : Keeps(q, tgt[q][j], tgt'[q][j])
      /\ Releases' /\ Targets'
  <2>1. Inv /\ TargetObject(o, uids[r], Owner(r)) /\ Keeps(r, tgt[r][k], o)
    OBVIOUS
  <2> QED
    BY ONLY <1>2, <2>1, r \in Gen, k \in Kind, TargetStep
<1> DEFINE x == job.failed \/ ~ok
           t == Tail(job.todo)
<1>4. job' = Advanced(job, t, x)
  BY DEF TargetDone, Advanced
<1>5. x \in BOOLEAN
  BY <1>1
<1>6. t \in Seq(Kind) /\ \A j \in ToSet(job.todo) : j = k \/ j \in ToSet(t)
  BY <1>1, Rest
<1>7. ~x => ~job.failed /\ ok
  OBVIOUS
<1> HIDE DEF x, t
<1>8. /\ IsJob(job') /\ job'.busy /\ job'.r = job.r /\ job'.copy = job.copy /\ job'.failed = x
      /\ job'.todo = t /\ job'.fresh = job.fresh /\ job'.held = job.held
      /\ job'.choosing = job.choosing
  <2>1. LET j == Advanced(job, t, x)
        IN  /\ IsJob(j) /\ j.busy /\ j.r = job.r /\ j.copy = job.copy /\ j.failed = x
            /\ j.todo = t /\ j.fresh = job.fresh /\ j.held = job.held
            /\ j.choosing = job.choosing
    BY <1>1, <1>5, <1>6, JobDone
  <2> QED
    BY <1>4, <2>1
<1>9. Work'
  <2>1. job.copy.uid # 0 /\ Owner(r)' = Owner(r)
    BY <1>1, <1>2, Uids DEF Inv, Work, Owner
  <2>2. ASSUME ~job.choosing, ~x, Owner(r) = job.copy.uid, NEW j \in Kind
        PROVE  j \in ToSet(t) \/ Stored(tgt'[r][j]).uid = job.copy.uid
    <3>1. CASE j = k
      BY <1>3, <1>7, <2>2, <3>1
    <3>2. CASE j \in ToSet(job.todo)
      BY <1>6, <3>1, <3>2
    <3>3. CASE Stored(tgt[r][j]).uid = job.copy.uid
      BY <1>3, <2>1, <2>2, <3>3 DEF Keeps
    <3> QED
      BY <1>1, <1>7, <2>2, <3>2, <3>3 DEF Inv, Work
  <2>3. /\ job.copy # Absent /\ IsRelease(job.copy)
        /\ (job.choosing <=> job.copy.clusters = {}) /\ job.copy.uid <= uids[r]
        /\ job.fresh => Current(rel[r]) /\ rel[r].cache = job.copy
        /\ job.held => rel[r].cache = job.copy
    BY <1>1 DEF Inv, Work
  <2> QED
    BY <1>2, <1>8, <2>1, <2>2, <2>3 DEF Work
<1> QED
  BY <1>2, <1>3, <1>8, <1>9 DEF Inv, Shapes, AllKept

\* What the job knows when it works on a target object.
LEMMA WorkingFacts ==
    ASSUME Inv, NEW k \in Kind, Working(k)
    PROVE  /\ job.r \in Gen
           /\ TargetObject(tgt[job.r][k], uids[job.r], Owner(job.r))
           /\ IsTarget(NewTarget) /\ NewTarget.uid = job.copy.uid
           /\ job.copy.uid \in Nat \ {0} /\ job.copy.uid <= uids[job.r]
<1>1. job.busy /\ job.r \in Gen
  BY DEF Working, Inv, Shapes, IsJob, Idle
<1>2. IsRelease(job.copy) /\ job.copy # Absent /\ job.copy.uid <= uids[job.r]
  BY <1>1 DEF Inv, Work
<1>3. job.copy.uid \in Nat \ {0}
  BY <1>2, Uids
<1>4. IsTarget(NewTarget) /\ NewTarget.uid = job.copy.uid
  BY <1>3 DEF NewTarget, IsTarget
<1> QED
  BY <1>1, <1>2, <1>3, <1>4 DEF Inv, Targets

\* A target object is left as it is, for better or for worse.
LEMMA LeaveTargetStep ==
    ASSUME Inv, NEW k \in Kind, Working(k), NEW ok \in BOOLEAN,
           TargetDone(k, tgt[job.r][k], ok),
           ok => tgt[job.r][k].cache.uid = job.copy.uid
    PROVE  Inv' /\ AllKept
<1>1. /\ job.r \in Gen /\ TargetObject(tgt[job.r][k], uids[job.r], Owner(job.r))
      /\ job.copy.uid \in Nat \ {0}
  BY WorkingFacts
<1>2. PICK r \in Gen : r = job.r
  BY <1>1
<1>3. Keeps(r, tgt[r][k], tgt[r][k])
  BY DEF Keeps
<1>4. ok /\ Owner(r) = job.copy.uid => Stored(tgt[r][k]).uid = job.copy.uid
  BY <1>1, <1>2, Positions DEF TargetObject
<1>5. TargetDone(k, tgt[r][k], ok)
  BY <1>2
<1> QED
  BY <1>1, <1>2, <1>3, <1>4, <1>5, DoneStep

LEMMA CreateTargetStep ==
    ASSUME Inv, NEW k \in Kind, CreateTarget(k)
    PROVE  Inv' /\ AllKept
<1>1. Working(k)
  BY DEF CreateTarget
<1>2. /\ job.r \in Gen /\ TargetObject(tgt[job.r][k], uids[job.r], Owner(job.r))
      /\ IsTarget(NewTarget) /\ NewTarget.uid = job.copy.uid /\ job.copy.uid <= uids[job.r]
  BY <1>1, WorkingFacts
<1>3. PICK r \in Gen : r = job.r
  BY <1>2
<1>4. CASE TargetDone(k, tgt[job.r][k], FALSE)
  BY <1>1, <1>4, LeaveTargetStep
<1>5. CASE Stored(tgt[job.r][k]) = Absent /\ TargetDone(k, Append1(tgt[job.r][k], NewTarget), TRUE)
  <2> DEFINE o == Append1(tgt[r][k], NewTarget)
  <2>1. TargetObject(o, uids[r], Owner(r))
    BY <1>2, <1>3, <1>5, Numbers, TargetAppended
  <2>2. Stored(o) = NewTarget
    BY <1>2, <1>3, Appended DEF TargetObject
  <2>3. TargetDone(k, o, TRUE)
    BY <1>3, <1>5
  <2> HIDE DEF o
  <2>4. Keeps(r, tgt[r][k], o)
    BY <1>3, <1>5, Uids DEF Keeps
  <2> QED
    BY <1>1, <1>2, <1>3, <2>1, <2>2, <2>3, <2>4, DoneStep
<1> QED
  BY <1>4, <1>5 DEF CreateTarget

LEMMA CheckTargetStep ==
    ASSUME Inv, NEW k \in Kind, CheckTarget(k)
    PROVE  Inv' /\ AllKept
<1> DEFINE ok == tgt[job.r][k].cache.uid = job.copy.uid
<1>1. Working(k) /\ TargetDone(k, tgt[job.r][k], ok)
  BY DEF CheckTarget
<1>2. ok \in BOOLEAN /\ (ok => tgt[job.r][k].cache.uid = job.copy.uid)
  OBVIOUS
<1> HIDE DEF ok
<1> QED
  BY <1>1, <1>2, LeaveTargetStep

LEMMA RepairTargetStep ==
    ASSUME Inv, NEW k \in Kind, RepairTarget(k)
    PROVE  Inv' /\ AllKept
<1>1. Working(k) /\ tgt[job.r][k].cache.uid = job.copy.uid
  BY DEF RepairTarget
<1>2. /\ job.r \in Gen /\ TargetObject(tgt[job.r][k], uids[job.r], Owner(job.r))
      /\ IsTarget(NewTarget) /\ NewTarget.uid = job.copy.uid /\ job.copy.uid <= uids[job.r]
  BY <1>1, WorkingFacts
<1>3. PICK r \in Gen : r = job.r
  BY <1>2
<1> DEFINE mine == [tgt[r][k] EXCEPT !.cache = NewTarget]
<1>4. TargetObject(mine, uids[r], Owner(r)) /\ mine.log = tgt[r][k].log
      /\ Stored(mine) = Stored(tgt[r][k])
  BY <1>1, <1>2, <1>3, Numbers, TargetRepaired
<1>5. \/ TargetDone(k, mine, FALSE)
      \/ Current(tgt[r][k]) /\ TargetDone(k, Put(mine, NewTarget), TRUE)
  BY <1>3 DEF RepairTarget
<1> HIDE DEF mine
<1>6. CASE TargetDone(k, mine, FALSE)
  <2>1. Keeps(r, tgt[r][k], mine)
    BY <1>4 DEF Keeps
  <2> QED
    BY <1>1, <1>3, <1>4, <1>6, <2>1, DoneStep
<1>7. CASE Current(tgt[r][k]) /\ TargetDone(k, Put(mine, NewTarget), TRUE)
  <2>1. Stored(tgt[r][k]).uid = NewTarget.uid
    BY <1>1, <1>2, <1>3, <1>7 DEF Current, Stored, TargetObject
  <2>2. /\ TargetObject(Put(mine, NewTarget), uids[r], Owner(r))
        /\ Stored(Put(mine, NewTarget)).uid = NewTarget.uid
    <3>1. CASE NewTarget = Stored(mine)
      BY <1>4, <2>1, <3>1 DEF Put
    <3>2. CASE NewTarget # Stored(mine)
      <4>1. Put(mine, NewTarget) = Append1(mine, NewTarget)
        BY <3>2 DEF Put
      <4>2. TargetObject(Append1(mine, NewTarget), uids[r], Owner(r))
        BY <1>2, <1>3, <1>4, <2>1, Numbers, TargetAppended
      <4>3. Stored(Append1(mine, NewTarget)) = NewTarget
        BY <1>4, Appended DEF TargetObject
      <4> QED
        BY <4>1, <4>2, <4>3
    <3> QED
      BY <3>1, <3>2
  <2> DEFINE o == Put(mine, NewTarget)
  <2>3. Keeps(r, tgt[r][k], o)
    BY <2>1, <2>2 DEF Keeps
  <2> HIDE DEF o
  <2> QED
    BY <1>1, <1>2, <1>3, <1>7, <2>2, <2>3, DoneStep DEF o
<1> QED
  BY <1>5, <1>6, <1>7

-----------------------------------------------------------------------------
(* The rest, and the theorems.                                              *)

LEMMA DeliverReleaseStep ==
    ASSUME Inv, NEW r \in Gen, DeliverRelease(r)
    PROVE  Inv'
<1> DEFINE o == Next1(rel[r])
<1>1. UNCHANGED <<tgt, uids>> /\ ~Current(rel[r])
  BY DEF DeliverRelease
<1>2. rel' = [rel EXCEPT ![r] = o]
  BY DEF DeliverRelease, Inv, Shapes
<1>3. ReleaseObject(rel[r], uids[r]) /\ uids \in [Gen -> Nat] /\ uids[r] <= uids[r]
  BY SameRelease, Numbers DEF Inv, Shapes
<1>4. ReleaseObject(o, uids[r])
  BY <1>1, <1>3, Numbers, ReleaseDelivered
<1>5. Stored(o) = Stored(rel[r]) /\ \A i \in At(o) : i + 1 \in At(rel[r]) /\ o.log[i] = rel[r].log[i + 1]
  BY <1>1, <1>3, Delivered DEF ReleaseObject
<1> HIDE DEF o
<1>6. Stored(o).uid = Owner(r)
  BY <1>5 DEF Owner
<1>7. /\ rel' = [q \in Gen |-> rel'[q]] /\ tgt' = [q \in Gen |-> [k \in Kind |-> tgt'[q][k]]]
      /\ rel'[r] = o /\ \A q \in Gen : q # r => rel'[q] = rel[q]
      /\ Releases' /\ Targets'
  BY <1>1, <1>2, <1>3, <1>4, <1>6, ReleaseStep
<1>8. IsJob(job)
  BY DEF Inv, Shapes
<1>9. CASE job.busy /\ job.r = r
  <2>1. job' = [job EXCEPT !.held = FALSE]
    BY <1>9 DEF DeliverRelease
  <2>2. /\ IsJob(job') /\ job'.busy /\ job'.r = job.r /\ job'.copy = job.copy
        /\ job'.failed = job.failed /\ job'.todo = job.todo
        /\ job'.fresh = job.fresh /\ job'.held = FALSE /\ job'.choosing = job.choosing
    BY <1>8, <1>9, <2>1, JobEdits
  <2>3. ~job.fresh
    BY <1>1, <1>9 DEF Inv, Work
  <2>4. Owner(r)' = Owner(r)
    BY <1>6, <1>7 DEF Owner
  <2>5. uids'[r] \in Nat /\ uids[r] <= uids'[r]
    BY <1>1, <1>3
  <2>6. Work'
    BY <1>1, <1>9, <2>2, <2>3, <2>4, <2>5, WorkKept
  <2> QED
    BY <1>1, <1>3, <1>7, <2>2, <2>6 DEF Inv, Shapes
<1>10. CASE ~(job.busy /\ job.r = r)
  <2>1. job' = job
    BY <1>10 DEF DeliverRelease
  <2>2. job.busy => job.r \in Gen
    BY <1>8 DEF IsJob, Idle
  <2>3. Work'
    BY <1>1, <1>7, <1>10, <2>1, <2>2, WorkElsewhere
  <2> QED
    BY <1>1, <1>3, <1>7, <1>8, <2>1, <2>3 DEF Inv, Shapes
<1> QED
  BY <1>9, <1>10

LEMMA RestartStep ==
    ASSUME Inv, Restart
    PROVE  Inv'
<1>1. /\ \A r \in Gen : rel'[r] = [cache |-> Stored(rel[r]), log |-> <<Stored(rel[r])>>]
      /\ \A r \in Gen, k \in Kind :
            tgt'[r][k] = [cache |-> Stored(tgt[r][k]), log |-> <<Stored(tgt[r][k])>>]
      /\ job' = Idle /\ uids' = uids
  BY DEF Restart
<1>2. /\ rel' = [r \in Gen |-> rel'[r]]
      /\ tgt' = [r \in Gen |-> [k \in Kind |-> tgt'[r][k]]]
  BY DEF Restart
<1>3. \A r \in Gen : /\ Stored(rel'[r]) = Stored(rel[r]) /\ At(rel'[r]) = {1}
                     /\ rel'[r].log[1] = Stored(rel[r])
  BY <1>1, Refilled, ZenonT(60)
<1>4. \A r \in Gen, k \in Kind : Stored(tgt'[r][k]) = Stored(tgt[r][k])
  BY <1>1, Refilled
<1>5. \A r \in Gen : Owner(r)' = Owner(r)
  BY <1>3 DEF Owner
<1>6. Releases'
  BY <1>1, Numbers, ReleaseRefilled DEF Inv, Releases
<1>7. Targets'
  BY <1>1, <1>5, Numbers, TargetRefilled, ZenonT(60) DEF Inv, Targets
<1>8. ~job'.busy /\ IsJob(job')
  BY <1>1 DEF Idle, IsJob
<1> QED
  BY <1>1, <1>2, <1>6, <1>7, <1>8 DEF Inv, Shapes, Work

LEMMA InvInit == Init => Inv
<1> SUFFICES ASSUME Init
             PROVE  Inv
  OBVIOUS
<1> DEFINE o == [cache |-> Absent, log |-> <<Absent>>]
<1>1. /\ rel = [r \in Gen |-> o] /\ tgt = [r \in Gen |-> [k \in Kind |-> o]]
      /\ uids = [r \in Gen |-> 0] /\ job = Idle
  BY DEF Init
<1>2. IsObject(o) /\ o.cache = Absent /\ At(o) = {1} /\ o.log[1] = Absent /\ Stored(o) = Absent
  BY Refilled
<1>3. IsRelease(Absent) /\ IsTarget(Absent) /\ Absent.uid = 0 /\ Blank(Absent) /\ 0 <= 0
  BY Uids
<1> HIDE DEF o
<1>4. (\A r \in Gen : rel[r] = o /\ uids[r] = 0) /\ (\A r \in Gen, k \in Kind : tgt[r][k] = o)
  BY <1>1
<1>5. Releases
  BY <1>2, <1>3, <1>4 DEF Releases, ReleaseObject
<1>6. Targets
  BY <1>2, <1>3, <1>4 DEF Targets, TargetObject, Owner
<1>7. Shapes /\ Work
  <2>1. ~job.busy /\ IsJob(job)
    BY <1>1 DEF Idle, IsJob
  <2>2. rel = [r \in Gen |-> rel[r]] /\ tgt = [r \in Gen |-> [k \in Kind |-> tgt[r][k]]]
    BY <1>1, <1>4
  <2> QED
    BY <1>1, <2>1, <2>2 DEF Shapes, Work
<1> QED
  BY <1>5, <1>6, <1>7 DEF Inv

LEMMA InvStep == Inv /\ Executing /\ [Next]_vars => Inv'
<1> SUFFICES ASSUME Inv, Executing, [Next]_vars
             PROVE  Inv'
  OBVIOUS
<1>1. CASE \E r \in Gen : ScheduleRelease(r)
  BY <1>1, ListClustersStep, StartSchedulingStep DEF ScheduleRelease
<1>2. CASE EnsureTarget
  BY <1>2, CreateTargetStep, CheckTargetStep, RepairTargetStep DEF EnsureTarget
<1>3. CASE ChooseClusters \/ MarkScheduled \/ MarkUnscheduled \/ PatchContender
  BY <1>3, ChooseClustersStep, MarkScheduledStep, MarkUnscheduledStep, PatchContenderStep
<1>4. CASE \E r \in Gen :
              \/ CreateRelease(r) \/ DeleteRelease(r) \/ EditClusters(r) \/ DeliverRelease(r)
              \/ \E k \in Kind : CollectGarbage(r, k) \/ TouchTarget(r, k) \/ DeliverTarget(r, k)
  BY <1>4, CreateReleaseStep, DeleteReleaseStep, EditClustersStep, DeliverReleaseStep,
     CollectGarbageStep, TouchTargetStep, DeliverTargetStep
<1>5. CASE ExecuteStrategy \/ \E c \in fleet : Cordon(c)
  BY <1>5, Untouched DEF ExecuteStrategy, Cordon
<1>6. CASE Restart
  BY <1>6, RestartStep
<1>7. CASE UNCHANGED vars
  BY <1>7, Untouched DEF vars
<1> QED
  BY <1>1, <1>2, <1>3, <1>4, <1>5, <1>6, <1>7 DEF Next

LEMMA ExecutingStep == Executing /\ [Next]_vars => Executing'
<1> SUFFICES ASSUME Executing, [Next]_vars
             PROVE  Executing'
  OBVIOUS
<1>1. CASE exec' = exec
  BY <1>1 DEF Executing
<1>2. CASE exec' = Idle
  BY <1>2 DEF Executing, Idle
<1>3. CASE ExecuteStrategy
  BY <1>3, ContenderFacts DEF ExecuteStrategy, Executing
<1>4. exec' = exec \/ exec' = Idle \/ ExecuteStrategy
  BY DEF Next, vars, ScheduleRelease, ListClusters, StartScheduling, ChooseClusters,
     EnsureTarget, CreateTarget, CheckTarget, RepairTarget, TargetDone, MarkScheduled,
     MarkUnscheduled, PatchContender, CreateRelease, DeleteRelease, EditClusters,
     DeliverRelease, CollectGarbage, TouchTarget, DeliverTarget, Cordon, Restart
<1> QED
  BY <1>1, <1>2, <1>3, <1>4

LEMMA AlwaysInv == Spec => [](Inv /\ Executing)
<1>1. Init => Inv /\ Executing
  BY InvInit DEF Init, Executing, Idle
<1> QED
  BY <1>1, InvStep, ExecutingStep, PTL DEF Spec

-----------------------------------------------------------------------------
(* Who may call a release Scheduled.                                        *)

\* If somebody says that owner u of release r is Scheduled, and nothing was
\* said of it that was meant for another, then it has its target objects.
Vouched(r, u) == u = Owner(r) /\ u # 0 /\ ~mixed[r] => Owned(r)

\* Every version that says Scheduled may say so, and so may the executor's
\* patch.
Marks ==
    /\ mixed \in [Gen -> BOOLEAN]
    /\ \A r \in Gen : \A i \in At(rel[r]) :
          rel[r].log[i] # Absent /\ rel[r].log[i].sched = "True" => Vouched(r, rel[r].log[i].uid)
    /\ exec.busy => /\ exec.uid \in Nat \ {0} /\ exec.uid <= uids[exec.r]
                    /\ Vouched(exec.r, exec.uid)

\* Target objects change, or nothing does.
LEMMA MarksKept ==
    ASSUME Inv, Executing, Marks, UNCHANGED <<rel, uids, mixed>>, exec' \in {exec, Idle}, AllKept
    PROVE  Marks'
<1>1. \A r \in Gen : Owner(r)' = Owner(r)
  BY DEF Owner
<1>2. \A r \in Gen : \A u : Vouched(r, u) => Vouched(r, u)'
  BY <1>1 DEF Vouched, Owned, AllKept, Keeps
<1>3. exec'.busy => exec' = exec /\ exec.busy /\ exec.r \in Gen
  BY DEF Executing, Idle
<1> QED
  BY <1>2, <1>3 DEF Marks

LEMMA NoneLost ==
    ASSUME tgt' = tgt
    PROVE  AllKept
  BY DEF AllKept, Keeps

\* A release changes: what is new in its versions must be true.
LEMMA MarksWrite ==
    ASSUME Inv, Executing, Marks, NEW q \in Gen, NEW o, rel' = [rel EXCEPT ![q] = o], tgt' = tgt,
           uids' \in [Gen -> Nat], \A r \in Gen : uids[r] <= uids'[r],
           mixed' \in [Gen -> BOOLEAN], \A r \in Gen : r # q => mixed'[r] = mixed[r],
           exec' \in {exec, Idle},
           \/ Stored(o).uid = 0
           \/ Stored(o).uid > uids[q]
           \/ Stored(o).uid = Owner(q) /\ (mixed[q] => mixed'[q]),
           \A i \in At(o) :
              \/ \E j \in At(rel[q]) : o.log[i] = rel[q].log[j]
              \/ o.log[i] = Absent
              \/ o.log[i].sched = "True" /\ ~mixed'[q] => Stored(o).uid = Owner(q) /\ Owned(q)
    PROVE  Marks'
<1>1. rel'[q] = o /\ \A r \in Gen : r # q => rel'[r] = rel[r]
  BY DEF Inv, Shapes
<1>2. Owner(q)' = Stored(o).uid /\ \A r \in Gen : r # q => Owner(r)' = Owner(r)
  BY <1>1 DEF Owner
<1>3. \A r \in Gen : Owner(r)' = Owner(r) => (Owned(r)' <=> Owned(r))
  BY DEF Owned
<1> DEFINE Still(r, u) == u = Owner(r)' /\ u # 0 /\ ~mixed'[r] => Owned(r)'
<1>4. ASSUME NEW r \in Gen, NEW u \in Nat, u <= uids[r], Vouched(r, u)
      PROVE  Still(r, u)
  <2>1. CASE r # q
    BY <1>2, <1>3, <1>4, <2>1 DEF Vouched
  <2>2. CASE r = q /\ Stored(o).uid = Owner(q) /\ (mixed[q] => mixed'[q])
    BY <1>2, <1>3, <1>4, <2>2 DEF Vouched
  <2>3. CASE r = q /\ Stored(o).uid > uids[q]
    <3>1. u # Stored(o).uid
      BY <1>4, <2>3 DEF Inv, Shapes
    <3> QED
      BY <1>2, <2>3, <3>1
  <2>4. CASE r = q /\ Stored(o).uid = 0
    BY <1>2, <2>4
  <2> QED
    BY <2>1, <2>2, <2>3, <2>4
<1>5. \A r \in Gen : \A i \in At(rel[r]) : rel[r].log[i].uid \in Nat /\ rel[r].log[i].uid <= uids[r]
  BY Uids DEF Inv, Releases, ReleaseObject
<1>6. ASSUME NEW r \in Gen, NEW i \in At(rel'[r]), rel'[r].log[i] # Absent, rel'[r].log[i].sched = "True"
      PROVE  Still(r, rel'[r].log[i].uid)
  <2>1. CASE \E j \in At(rel[r]) : rel'[r].log[i] = rel[r].log[j]
    <3>1. PICK j \in At(rel[r]) : rel'[r].log[i] = rel[r].log[j]
      BY <2>1
    <3>2. Vouched(r, rel[r].log[j].uid)
      BY <1>6, <3>1 DEF Marks
    <3>3. Still(r, rel[r].log[j].uid)
      BY <1>4, <1>5, <3>2
    <3> QED
      BY <3>1, <3>3
  <2>2. CASE r = q /\ (~mixed'[q] => Stored(o).uid = Owner(q) /\ Owned(q))
    BY <1>2, <1>3, <2>2
  <2> QED
    BY <1>1, <1>6, <2>1, <2>2
<1>7. ASSUME exec'.busy
      PROVE  /\ exec'.uid \in Nat \ {0} /\ exec'.uid <= uids'[exec'.r]
             /\ exec' = exec /\ exec.r \in Gen /\ Still(exec.r, exec.uid)
  <2>1. exec' = exec /\ exec.busy /\ exec.r \in Gen
    BY <1>7 DEF Executing, Idle
  <2>2. exec.uid \in Nat \ {0} /\ exec.uid <= uids[exec.r] /\ Vouched(exec.r, exec.uid)
    BY <2>1 DEF Marks
  <2>3. exec.uid <= uids'[exec.r]
    BY <2>1, <2>2 DEF Inv, Shapes
  <2>4. PICK r \in Gen : r = exec.r
    BY <2>1
  <2>5. Still(r, exec.uid)
    BY <1>4, <2>2, <2>4
  <2> QED
    BY <2>1, <2>2, <2>3, <2>4, <2>5
<1> QED
  BY <1>6, <1>7 DEF Marks, Vouched

\* ... if it says nothing new.
LEMMA MarksSame ==
    ASSUME Inv, Executing, Marks, NEW q \in Gen, NEW o, rel' = [rel EXCEPT ![q] = o],
           UNCHANGED <<tgt, uids, mixed, exec>>, Stored(o).uid \in {0, Owner(q)},
           \A i \in At(o) : (\E j \in At(rel[q]) : o.log[i] = rel[q].log[j]) \/ o.log[i] = Absent
    PROVE  Marks'
<1>1. uids \in [Gen -> Nat] /\ (\A r \in Gen : uids[r] <= uids[r]) /\ mixed \in [Gen -> BOOLEAN]
  BY DEF Inv, Shapes, Marks
<1>2. /\ uids' \in [Gen -> Nat] /\ \A r \in Gen : uids[r] <= uids'[r]
      /\ mixed' \in [Gen -> BOOLEAN] /\ \A r \in Gen : r # q => mixed'[r] = mixed[r]
      /\ exec' \in {exec, Idle} /\ tgt' = tgt
  BY <1>1
<1>3. \/ Stored(o).uid = 0
      \/ Stored(o).uid > uids[q]
      \/ Stored(o).uid = Owner(q) /\ (mixed[q] => mixed'[q])
  OBVIOUS
<1>4. \A i \in At(o) :
         \/ \E j \in At(rel[q]) : o.log[i] = rel[q].log[j]
         \/ o.log[i] = Absent
         \/ o.log[i].sched = "True" /\ ~mixed'[q] => Stored(o).uid = Owner(q) /\ Owned(q)
  BY Zenon
<1> QED
  BY ONLY Inv, Executing, Marks, q \in Gen, rel' = [rel EXCEPT ![q] = o], <1>2, <1>3, <1>4, MarksWrite

\* The versions after a write.
LEMMA PutVersions ==
    ASSUME NEW o, IsObject(o), NEW v
    PROVE  /\ Stored(Put(o, v)) = v
           /\ \A i \in At(Put(o, v)) : (\E j \in At(o) : Put(o, v).log[i] = o.log[j]) \/ Put(o, v).log[i] = v
<1>1. CASE v = Stored(o)
  BY <1>1 DEF Put
<1>2. CASE v # Stored(o)
  BY <1>2, Appended DEF Put
<1> QED
  BY <1>1, <1>2

\* A version v is written, which may say Scheduled.
LEMMA MarksPut ==
    ASSUME Inv, Executing, Marks, NEW q \in Gen, NEW v, rel' = [rel EXCEPT ![q] = Put(rel[q], v)],
           UNCHANGED <<tgt, uids>>, mixed' \in [Gen -> BOOLEAN],
           \A r \in Gen : r # q => mixed'[r] = mixed[r], mixed[q] => mixed'[q],
           exec' \in {exec, Idle}, v.uid = Owner(q),
           v.sched = "True" /\ ~mixed'[q] => Owned(q)
    PROVE  Marks'
<1>1. IsObject(rel[q])
  BY DEF Inv, Releases, ReleaseObject
<1> DEFINE o == Put(rel[q], v)
<1>2. /\ Stored(o) = v
      /\ \A i \in At(o) : (\E j \in At(rel[q]) : o.log[i] = rel[q].log[j]) \/ o.log[i] = v
  BY <1>1, PutVersions
<1>3. uids \in [Gen -> Nat] /\ \A r \in Gen : uids[r] <= uids[r]
  BY DEF Inv, Shapes
<1>4. rel' = [rel EXCEPT ![q] = o]
  OBVIOUS
<1> HIDE DEF o
<1>5. Stored(o).uid = Owner(q) /\ (mixed[q] => mixed'[q])
  BY <1>2
<1>6. \A i \in At(o) :
         \/ \E j \in At(rel[q]) : o.log[i] = rel[q].log[j]
         \/ o.log[i] = Absent
         \/ o.log[i].sched = "True" /\ ~mixed'[q] => Stored(o).uid = Owner(q) /\ Owned(q)
  BY <1>2, <1>5, Zenon
<1>7. /\ uids' \in [Gen -> Nat] /\ \A r \in Gen : uids[r] <= uids'[r]
      /\ mixed' \in [Gen -> BOOLEAN] /\ \A r \in Gen : r # q => mixed'[r] = mixed[r]
      /\ exec' \in {exec, Idle} /\ tgt' = tgt
  BY <1>3
<1>8. \/ Stored(o).uid = 0
      \/ Stored(o).uid > uids[q]
      \/ Stored(o).uid = Owner(q) /\ (mixed[q] => mixed'[q])
  BY <1>5
<1> QED
  BY ONLY Inv, Executing, Marks, q \in Gen, rel' = [rel EXCEPT ![q] = o], <1>4, <1>6, <1>7, <1>8, MarksWrite

\* The handler's own writes.
LEMMA MarksJob ==
    ASSUME Inv, Executing, Marks, ChooseClusters \/ MarkScheduled \/ MarkUnscheduled
    PROVE  Marks'
<1>1. job.busy /\ UNCHANGED <<tgt, uids, mixed, exec>>
  BY DEF ChooseClusters, Choosing, MarkScheduled, MarkUnscheduled, Finished
<1>2. PICK q \in Gen : q = job.r
  BY <1>1 DEF Inv, Shapes, IsJob, Idle
<1>3. IsRelease(job.copy) /\ job.copy # Absent /\ mixed \in [Gen -> BOOLEAN]
  BY <1>1 DEF Inv, Work, Marks
<1>4. job.fresh => Current(rel[q]) /\ rel[q].cache = job.copy /\ job.copy.uid = Owner(q)
  BY <1>1, <1>2, UpToDate DEF Inv, Work
<1>5. CASE rel' = rel
  BY <1>1, <1>5, MarksKept, NoneLost
<1>6. ASSUME NEW v, job.fresh, v.uid = job.copy.uid, v.sched = "True" /\ ~mixed[q] => Owned(q),
             rel' = [rel EXCEPT ![job.r] = Put(@, v)]
      PROVE  Marks'
  <2>1. rel' = [rel EXCEPT ![q] = Put(rel[q], v)]
    BY <1>2, <1>6 DEF Inv, Shapes
  <2>2. v.uid = Owner(q)
    BY <1>4, <1>6
  <2>3. /\ mixed' \in [Gen -> BOOLEAN] /\ \A r \in Gen : r # q => mixed'[r] = mixed[r]
        /\ (mixed[q] => mixed'[q]) /\ exec' \in {exec, Idle} /\ UNCHANGED <<tgt, uids>>
        /\ (v.sched = "True" /\ ~mixed'[q] => Owned(q))
    BY <1>1, <1>3, <1>6
  <2> QED
    BY ONLY Inv, Executing, Marks, q \in Gen, <2>1, <2>2, <2>3, MarksPut
<1>7. CASE ChooseClusters
  <2>1. ASSUME NEW x, job.fresh, rel' = [rel EXCEPT ![job.r] = Put(@, [job.copy EXCEPT !.clusters = x])]
        PROVE  Marks'
    <3> DEFINE v == [job.copy EXCEPT !.clusters = x]
    <3>1. v.uid = job.copy.uid /\ v.sched = job.copy.sched
      BY <1>3, Assigned
    <3>2. rel' = [rel EXCEPT ![job.r] = Put(@, v)]
      BY <2>1
    <3> HIDE DEF v
    <3>3. ReleaseObject(rel[q], uids[q]) /\ At(rel[q]) = {1} /\ rel[q].log[1].uid = Owner(q)
      BY <1>4, <2>1, UpToDate DEF Inv, Releases
    <3>4. v.sched = "True" => rel[q].log[1] # Absent /\ rel[q].log[1].sched = "True" /\ Owner(q) # 0
      <4>1. rel[q].cache # Absent /\ rel[q].cache.sched = v.sched /\ rel[q].cache.uid = Owner(q)
        BY <1>3, <1>4, <2>1, <3>1
      <4>2. IsRelease(rel[q].cache) /\ IsRelease(rel[q].log[1])
        BY <3>3 DEF ReleaseObject
      <4>3. Owner(q) # 0 /\ rel[q].log[1] # Absent
        BY <3>3, <4>1, <4>2, Uids
      <4> QED
        BY <3>3, <4>1, <4>3 DEF ReleaseObject
    <3>5. v.sched = "True" /\ ~mixed[q] => Owned(q)
      BY <3>3, <3>4 DEF Marks, Vouched
    <3> QED
      BY <1>6, <2>1, <3>1, <3>2, <3>5
  <2> QED
    BY <1>5, <1>7, <2>1 DEF ChooseClusters
<1>8. CASE MarkScheduled
  <2>1. CASE job.fresh /\ rel' = [rel EXCEPT ![job.r] = Put(@, [job.copy EXCEPT !.sched = "True"])]
    <3> DEFINE v == [job.copy EXCEPT !.sched = "True"]
    <3>1. v.uid = job.copy.uid
      BY <1>3, Marked
    <3>2. rel' = [rel EXCEPT ![job.r] = Put(@, v)]
      BY <2>1
    <3> HIDE DEF v
    <3>3. job.todo = << >> /\ ~job.failed /\ ~job.choosing
      BY <1>8 DEF MarkScheduled, Finished
    <3>4. \A k : k \notin ToSet(job.todo)
      BY <3>3 DEF ToSet
    <3>5. Owned(q)
      BY <1>1, <1>2, <1>4, <2>1, <3>3, <3>4 DEF Inv, Work, Owned
    <3> QED
      BY <1>6, <2>1, <3>1, <3>2, <3>5
  <2> QED
    BY <1>5, <1>8, <2>1 DEF MarkScheduled
<1>9. CASE MarkUnscheduled
  <2> DEFINE v == [job.copy EXCEPT !.sched = "False"]
             o == IF job.held THEN [rel[q] EXCEPT !.cache = v] ELSE rel[q]
  <2>1. \/ job.fresh /\ rel' = [rel EXCEPT ![q] = Put(o, v)]
        \/ rel' = [rel EXCEPT ![q] = o]
    BY <1>2, <1>9 DEF MarkUnscheduled
  <2>2. v.uid = job.copy.uid /\ v.sched = "False"
    BY <1>3, Marked
  <2>3. IsObject(o) /\ o.log = rel[q].log
    <3>1. ReleaseObject(rel[q], uids[q]) /\ uids[q] \in Nat
      BY Numbers DEF Inv, Releases
    <3>2. CASE job.held
      <4>1. rel[q].cache = job.copy
        BY <1>1, <1>2, <3>2 DEF Inv, Work
      <4>2. o = [rel[q] EXCEPT !.cache = [rel[q].cache EXCEPT !.sched = "False"]]
        BY <3>2, <4>1
      <4>3. ReleaseObject(o, uids[q]) /\ o.log = rel[q].log
        BY <1>3, <3>1, <4>1, <4>2, ReleaseUnmarked
      <4> QED
        BY <4>3 DEF ReleaseObject
    <3>3. CASE ~job.held
      BY <3>1, <3>3 DEF ReleaseObject
    <3> QED
      BY <3>2, <3>3
  <2> HIDE DEF o, v
  <2>4. Stored(o) = Stored(rel[q]) /\ At(o) = At(rel[q])
    BY <2>3 DEF Stored, At
  <2>5. uids \in [Gen -> Nat] /\ \A r \in Gen : uids[r] <= uids[r]
    BY DEF Inv, Shapes
  <2>6. CASE rel' = [rel EXCEPT ![q] = o]
    <3>1. Stored(o).uid \in {0, Owner(q)}
      BY <2>4 DEF Owner
    <3>2. \A i \in At(o) : (\E j \in At(rel[q]) : o.log[i] = rel[q].log[j]) \/ o.log[i] = Absent
      BY <2>3, <2>4
    <3> QED
      BY <1>1, <2>6, <3>1, <3>2, MarksSame
  <2>7. CASE job.fresh /\ rel' = [rel EXCEPT ![q] = Put(o, v)]
    <3> DEFINE p == Put(o, v)
    <3>1. /\ Stored(p) = v
          /\ \A i \in At(p) : (\E j \in At(o) : p.log[i] = o.log[j]) \/ p.log[i] = v
      BY <2>3, PutVersions
    <3>2. rel' = [rel EXCEPT ![q] = p]
      BY <2>7
    <3> HIDE DEF p
    <3>3. \A i \in At(p) : (\E j \in At(rel[q]) : p.log[i] = rel[q].log[j]) \/ p.log[i].sched # "True"
      BY <2>2, <2>3, <2>4, <3>1
    <3>4. Stored(p).uid = Owner(q)
      BY <1>4, <2>2, <2>7, <3>1
    <3> QED
      BY <1>1, <1>3, <2>5, <3>2, <3>3, <3>4, MarksWrite
  <2> QED
    BY <2>1, <2>6, <2>7
<1> QED
  BY <1>7, <1>8, <1>9

\* The executor reads and patches.
LEMMA MarksExecute ==
    ASSUME Inv, Executing, Marks, ExecuteStrategy
    PROVE  Marks'
<1>1. UNCHANGED <<rel, tgt, uids, mixed>>
  BY DEF ExecuteStrategy
<1>2. PICK r \in Gen : r = Contender /\ rel[r].cache # Absent /\ rel[r].cache.sched = "True"
  BY ContenderFacts DEF ExecuteStrategy
<1>3. exec'.busy /\ exec'.r = r /\ exec'.uid = rel[r].cache.uid
  BY <1>2 DEF ExecuteStrategy
<1>4. ReleaseObject(rel[r], uids[r]) /\ 1 \in At(rel[r])
  BY Positions DEF Inv, Releases, ReleaseObject
<1>5. /\ rel[r].cache.uid = rel[r].log[1].uid /\ rel[r].log[1].uid <= uids[r]
      /\ rel[r].cache.uid \in Nat \ {0}
      /\ rel[r].log[1] # Absent /\ rel[r].log[1].sched = "True"
  BY <1>2, <1>4, Uids DEF ReleaseObject
<1>6. Vouched(r, rel[r].cache.uid)
  BY <1>4, <1>5 DEF Marks
<1>7. \A q \in Gen : Owner(q)' = Owner(q) /\ (Owned(q)' <=> Owned(q))
  BY <1>1 DEF Owner, Owned
<1>8. ASSUME NEW q \in Gen, NEW i \in At(rel[q]), rel[q].log[i] # Absent, rel[q].log[i].sched = "True"
      PROVE  rel[q].log[i].uid = Owner(q)' /\ rel[q].log[i].uid # 0 /\ ~mixed[q] => Owned(q)'
  BY <1>7, <1>8 DEF Marks, Vouched
<1>9. rel[r].cache.uid = Owner(r)' /\ rel[r].cache.uid # 0 /\ ~mixed[r] => Owned(r)'
  BY <1>6, <1>7 DEF Vouched
<1> QED
  BY <1>1, <1>3, <1>5, <1>8, <1>9 DEF Marks, Vouched

LEMMA MarksPatch ==
    ASSUME Inv, Executing, Marks, PatchContender
    PROVE  Marks'
<1>1. exec.busy /\ exec' = Idle /\ UNCHANGED <<tgt, uids>>
  BY DEF PatchContender
<1>2. PICK r \in Gen : r = exec.r
  BY <1>1 DEF Executing
<1>3. CASE UNCHANGED <<rel, mixed>>
  BY <1>1, <1>3, MarksKept, NoneLost
<1> DEFINE v == PatchOf(Stored(rel[r]), exec.sched, exec.complete)
<1>4. CASE /\ Stored(rel[r]) # Absent /\ rel' = [rel EXCEPT ![r] = Put(rel[r], v)]
           /\ mixed' = [mixed EXCEPT ![r] = @ \/ Owner(r) # exec.uid]
  <2>1. IsRelease(Stored(rel[r])) /\ mixed \in [Gen -> BOOLEAN]
    BY Positions DEF Inv, Releases, ReleaseObject, Marks
  <2>2. v.uid = Owner(r)
    BY <1>4, <2>1, Patched DEF Owner
  <2> HIDE DEF v
  <2>3. /\ mixed' \in [Gen -> BOOLEAN] /\ mixed'[r] = (mixed[r] \/ Owner(r) # exec.uid)
        /\ \A q \in Gen : q # r => mixed'[q] = mixed[q]
    BY <1>4, <2>1
  <2>4. exec.uid \in Nat \ {0} /\ Vouched(r, exec.uid)
    BY <1>1, <1>2 DEF Marks
  <2>5. ~mixed'[r] => Owned(r)
    BY <2>3, <2>4 DEF Vouched
  <2> QED
    BY <1>1, <1>4, <2>2, <2>3, <2>5, MarksPut
<1> QED
  BY <1>2, <1>3, <1>4 DEF PatchContender, WriteRel, PatchOf, Owner

\* The writes of users and operators, and the caches.
LEMMA MarksAside ==
    ASSUME Inv, Executing, Marks, NEW q \in Gen,
           CreateRelease(q) \/ DeleteRelease(q) \/ EditClusters(q) \/ DeliverRelease(q)
    PROVE  Marks'
<1>1. ReleaseObject(rel[q], uids[q]) /\ IsObject(rel[q]) /\ IsRelease(Stored(rel[q]))
  BY Positions DEF Inv, Releases, ReleaseObject
<1>2. uids \in [Gen -> Nat] /\ (\A r \in Gen : uids[r] <= uids[r]) /\ mixed \in [Gen -> BOOLEAN]
  BY DEF Inv, Shapes, Marks
<1>3. CASE CreateRelease(q)
  <2> DEFINE v == [uid |-> uids[q] + 1, clusters |-> {}, sched |-> "none", complete |-> FALSE]
             o == Append1(rel[q], v)
  <2>1. /\ uids' \in [Gen -> Nat] /\ uids'[q] = uids[q] + 1
        /\ \A r \in Gen : uids[r] <= uids'[r]
    BY <1>2, <1>3 DEF CreateRelease
  <2>2. tgt' = tgt /\ exec' = exec /\ rel' = [rel EXCEPT ![q] = o]
    BY <1>3, <2>1 DEF CreateRelease, WriteRel
  <2>3. mixed' \in [Gen -> BOOLEAN] /\ \A r \in Gen : r # q => mixed'[r] = mixed[r]
    BY <1>2, <1>3 DEF CreateRelease
  <2>4. v.uid > uids[q] /\ v.sched = "none"
    BY <1>2
  <2> HIDE DEF v
  <2>5. /\ Stored(o) = v
        /\ \A i \in At(o) : (\E j \in At(rel[q]) : o.log[i] = rel[q].log[j]) \/ o.log[i] = v
    BY <1>1, Appended
  <2> HIDE DEF o
  <2>6. \A i \in At(o) : (\E j \in At(rel[q]) : o.log[i] = rel[q].log[j]) \/ o.log[i].sched # "True"
    BY <2>4, <2>5
  <2> QED
    BY <2>1, <2>2, <2>3, <2>4, <2>5, <2>6, MarksWrite
<1>4. CASE DeleteRelease(q)
  <2> DEFINE o == Append1(rel[q], Absent)
  <2>1. UNCHANGED <<tgt, uids, mixed, exec>> /\ rel' = [rel EXCEPT ![q] = o]
    BY <1>4 DEF DeleteRelease, WriteRel
  <2>2. /\ Stored(o).uid = 0
        /\ \A i \in At(o) : (\E j \in At(rel[q]) : o.log[i] = rel[q].log[j]) \/ o.log[i] = Absent
    BY <1>1, Appended, Uids
  <2> HIDE DEF o
  <2> QED
    BY <2>1, <2>2, MarksSame
<1>5. CASE EditClusters(q)
  <2>1. UNCHANGED <<tgt, uids, mixed, exec>> /\ Stored(rel[q]) # Absent
    BY <1>5 DEF EditClusters
  <2>2. PICK c \in fleet : rel' = [rel EXCEPT ![q] = Put(rel[q], [Stored(rel[q]) EXCEPT !.clusters = {c.name}])]
    BY <1>5 DEF EditClusters, WriteRel
  <2> DEFINE v == [Stored(rel[q]) EXCEPT !.clusters = {c.name}]
  <2>3. v.uid = Owner(q) /\ v.sched = Stored(rel[q]).sched
    BY <1>1, <2>1, Assigned, SMTT(30) DEF Owner
  <2>4. rel' = [rel EXCEPT ![q] = Put(rel[q], v)]
    BY <2>2
  <2> HIDE DEF v
  <2>5. /\ Len(rel[q].log) \in At(rel[q]) /\ Stored(rel[q]) = rel[q].log[Len(rel[q].log)]
        /\ Owner(q) # 0
    BY <1>1, <2>1, Positions, Uids DEF Owner
  <2>6. v.sched = "True" /\ ~mixed[q] => Owned(q)
    BY <2>1, <2>3, <2>5 DEF Marks, Vouched, Owner
  <2> QED
    BY <1>2, <2>1, <2>3, <2>4, <2>6, MarksPut
<1>6. CASE DeliverRelease(q)
  <2> DEFINE o == Next1(rel[q])
  <2>1. UNCHANGED <<tgt, uids, mixed, exec>> /\ ~Current(rel[q])
    BY <1>6 DEF DeliverRelease
  <2>2. rel' = [rel EXCEPT ![q] = o]
    BY <1>6 DEF DeliverRelease, Inv, Shapes
  <2>3. Stored(o) = Stored(rel[q]) /\ \A i \in At(o) : i + 1 \in At(rel[q]) /\ o.log[i] = rel[q].log[i + 1]
    BY <1>1, <2>1, Delivered
  <2> HIDE DEF o
  <2>4. Stored(o).uid \in {0, Owner(q)}
    BY <2>3 DEF Owner
  <2>5. \A i \in At(o) : (\E j \in At(rel[q]) : o.log[i] = rel[q].log[j]) \/ o.log[i] = Absent
    BY <2>3
  <2> QED
    BY <2>1, <2>2, <2>4, <2>5, MarksSame
<1> QED
  BY <1>3, <1>4, <1>5, <1>6

LEMMA MarksRestart ==
    ASSUME Inv, Executing, Marks, Restart
    PROVE  Marks'
<1>1. /\ \A r \in Gen : rel'[r] = [cache |-> Stored(rel[r]), log |-> <<Stored(rel[r])>>]
      /\ \A r \in Gen, k \in Kind :
            tgt'[r][k] = [cache |-> Stored(tgt[r][k]), log |-> <<Stored(tgt[r][k])>>]
      /\ exec' = Idle /\ mixed' = mixed
  BY DEF Restart
<1>2. \A r \in Gen : /\ Stored(rel'[r]) = Stored(rel[r]) /\ At(rel'[r]) = {1}
                     /\ rel'[r].log[1] = Stored(rel[r])
  BY <1>1, Refilled, ZenonT(60)
<1>3. \A r \in Gen, k \in Kind : Stored(tgt'[r][k]) = Stored(tgt[r][k])
  BY <1>1, Refilled
<1>4. \A r \in Gen : Owner(r)' = Owner(r) /\ (Owned(r) => Owned(r)')
  BY <1>2, <1>3 DEF Owner, Owned
<1>5. ASSUME NEW r \in Gen, NEW i \in At(rel'[r]), rel'[r].log[i] # Absent, rel'[r].log[i].sched = "True"
      PROVE  rel'[r].log[i].uid = Owner(r)' /\ rel'[r].log[i].uid # 0 /\ ~mixed[r] => Owned(r)'
  <2>1. Len(rel[r].log) \in At(rel[r]) /\ rel[r].log[Len(rel[r].log)] = rel'[r].log[i]
    BY <1>2, Positions DEF Inv, Releases, ReleaseObject
  <2>2. Vouched(r, rel'[r].log[i].uid)
    BY <1>5, <2>1 DEF Marks
  <2> QED
    BY <1>4, <2>2 DEF Vouched
<1>6. ~exec'.busy
  BY <1>1 DEF Idle
<1> QED
  BY <1>1, <1>5, <1>6 DEF Marks, Vouched

LEMMA MarksStep == Inv /\ Executing /\ Marks /\ [Next]_vars => Marks'
<1> SUFFICES ASSUME Inv, Executing, Marks, [Next]_vars
             PROVE  Marks'
  OBVIOUS
<1>1. CASE (\E r \in Gen : ScheduleRelease(r)) \/ (\E c \in fleet : Cordon(c)) \/ UNCHANGED vars
  <2>1. UNCHANGED <<rel, tgt, uids, mixed, exec>>
    BY <1>1 DEF ScheduleRelease, ListClusters, StartScheduling, Cordon, vars
  <2> QED
    BY <2>1, MarksKept, NoneLost
<1>2. CASE EnsureTarget
  <2>1. AllKept
    BY <1>2, CreateTargetStep, CheckTargetStep, RepairTargetStep DEF EnsureTarget
  <2>2. UNCHANGED <<rel, uids, mixed, exec>>
    BY <1>2 DEF EnsureTarget, CreateTarget, CheckTarget, RepairTarget, TargetDone
  <2> QED
    BY <2>1, <2>2, MarksKept
<1>3. CASE \E r \in Gen, k \in Kind : CollectGarbage(r, k) \/ TouchTarget(r, k) \/ DeliverTarget(r, k)
  <2>1. AllKept
    BY <1>3, CollectGarbageStep, TouchTargetStep, DeliverTargetStep
  <2>2. UNCHANGED <<rel, uids, mixed, exec>>
    BY <1>3 DEF CollectGarbage, TouchTarget, DeliverTarget
  <2> QED
    BY <2>1, <2>2, MarksKept
<1>4. CASE ChooseClusters \/ MarkScheduled \/ MarkUnscheduled
  BY <1>4, MarksJob
<1>5. CASE ExecuteStrategy \/ PatchContender
  BY <1>5, MarksExecute, MarksPatch
<1>6. CASE \E r \in Gen : CreateRelease(r) \/ DeleteRelease(r) \/ EditClusters(r) \/ DeliverRelease(r)
  BY <1>6, MarksAside
<1>7. CASE Restart
  BY <1>7, MarksRestart
<1> QED
  BY <1>1, <1>2, <1>3, <1>4, <1>5, <1>6, <1>7 DEF Next

LEMMA MarksInit == Init => Marks
<1> SUFFICES ASSUME Init
             PROVE  Marks
  OBVIOUS
<1> DEFINE o == [cache |-> Absent, log |-> <<Absent>>]
<1>1. At(o) = {1} /\ o.log[1] = Absent
  BY Refilled
<1>2. (\A r \in Gen : rel[r] = o) /\ mixed \in [Gen -> BOOLEAN] /\ ~exec.busy
  BY DEF Init, Idle
<1> HIDE DEF o
<1> QED
  BY <1>1, <1>2 DEF Marks

LEMMA MarksOwn == Inv /\ Marks => ScheduledOwnsTargets
<1> SUFFICES ASSUME Inv, Marks, NEW r \in Gen, Stored(rel[r]) # Absent,
                    Stored(rel[r]).sched = "True", ~mixed[r], NEW k \in Kind
             PROVE  Stored(tgt[r][k]).uid = Stored(rel[r]).uid
  BY DEF ScheduledOwnsTargets
<1>1. /\ Len(rel[r].log) \in At(rel[r]) /\ Stored(rel[r]) = rel[r].log[Len(rel[r].log)]
      /\ IsRelease(Stored(rel[r]))
  BY Positions DEF Inv, Releases, ReleaseObject
<1>2. Owner(r) # 0
  BY <1>1, Uids DEF Owner
<1>3. Owned(r)
  BY <1>1, <1>2 DEF Marks, Vouched, Owner
<1> QED
  BY <1>3 DEF Owned, Owner

\* A release that is stored as Scheduled has all its target objects, and they
\* are its own (scheduler.go, ScheduleRelease), unless the executor's patch of
\* a deleted namesake landed on it (application.go, syncOneApplicationHandler):
\* for any number of releases, kinds of target objects, failures, restarts and
\* versions in flight.
THEOREM AlwaysOwnsTargets == Spec => []ScheduledOwnsTargets
<1>1. Spec => []Marks
  BY AlwaysInv, MarksInit, MarksStep, PTL DEF Spec
<1> QED
  BY <1>1, AlwaysInv, MarksOwn, PTL

-----------------------------------------------------------------------------
(* Clusters are assigned once.                                              *)

LEMMA StoredPut ==
    ASSUME NEW o, IsObject(o), NEW v
    PROVE  Stored(Put(o, v)) = v
  BY Appended DEF Put

\* What a step may not do to the clusters of release r.
SameClusters(r) ==
    LET v == Stored(rel[r])
        w == Stored(rel'[r])
    IN  v # Absent /\ w.uid = v.uid /\ v.clusters # {} => w.clusters = v.clusters

\* A write to q leaves the others alone.
LEMMA WriteAside ==
    ASSUME Inv, NEW q \in Gen, NEW o, rel' = [rel EXCEPT ![q] = o], NEW r \in Gen,
           r = q => (Stored(rel[q]) # Absent /\ Stored(o).uid = Stored(rel[q]).uid
                        /\ Stored(rel[q]).clusters # {} =>
                     Stored(o).clusters = Stored(rel[q]).clusters)
    PROVE  SameClusters(r)
<1>1. rel'[q] = o /\ (r # q => rel'[r] = rel[r])
  BY DEF Inv, Shapes
<1> QED
  BY <1>1 DEF SameClusters

LEMMA AssignStep ==
    ASSUME Inv, Executing, [Next]_vars, NEW r \in Gen, ~EditClusters(r)
    PROVE  SameClusters(r)
<1>1. CASE rel' = rel
  BY <1>1 DEF SameClusters
<1>2. CASE ChooseClusters
  <2>1. PICK q \in Gen : q = job.r
    BY <1>2 DEF ChooseClusters, Choosing, Inv, Shapes, IsJob, Idle
  <2>2. job.busy /\ job.copy.clusters = {}
    BY <1>2 DEF ChooseClusters, Choosing, Inv, Work
  <2>3. CASE job.fresh /\ \E o : rel' = [rel EXCEPT ![q] = o]
    <3>1. Stored(rel[q]).clusters = {}
      BY <2>1, <2>2, <2>3, UpToDate DEF Inv, Work
    <3> QED
      BY <2>3, <3>1, WriteAside
  <2>4. rel' = rel \/ (job.fresh /\ \E o : rel' = [rel EXCEPT ![q] = o])
    BY <1>2, <2>1 DEF ChooseClusters
  <2> QED
    BY <1>1, <2>3, <2>4
<1>3. CASE MarkScheduled \/ MarkUnscheduled
  <2>1. job.busy
    BY <1>3 DEF MarkScheduled, MarkUnscheduled, Finished
  <2>2. PICK q \in Gen : q = job.r
    BY <2>1 DEF Inv, Shapes, IsJob, Idle
  <2>3. /\ IsRelease(job.copy) /\ job.copy # Absent
        /\ job.fresh => Stored(rel[q]).clusters = job.copy.clusters
    BY <2>1, <2>2, UpToDate DEF Inv, Work
  <2>4. IsObject(rel[q])
    BY DEF Inv, Releases, ReleaseObject
  <2>5. ASSUME NEW o, IsObject(o), NEW x, job.fresh,
               rel' = [rel EXCEPT ![q] = Put(o, [job.copy EXCEPT !.sched = x])]
        PROVE  SameClusters(r)
    <3> DEFINE v == [job.copy EXCEPT !.sched = x]
    <3>1. v.clusters = job.copy.clusters
      BY <2>3, Marked
    <3>2. rel' = [rel EXCEPT ![q] = Put(o, v)]
      BY <2>5
    <3> HIDE DEF v
    <3>3. Stored(Put(o, v)) = v
      BY <2>5, StoredPut
    <3>4. Stored(Put(o, v)).clusters = Stored(rel[q]).clusters
      BY <2>3, <2>5, <3>1, <3>3
    <3> QED
      BY ONLY Inv, q \in Gen, r \in Gen, <3>2, <3>4, WriteAside
  <2>6. CASE MarkScheduled
    <3>1. CASE job.fresh /\ rel' = [rel EXCEPT ![job.r] = Put(@, [job.copy EXCEPT !.sched = "True"])]
      <4>1. rel' = [rel EXCEPT ![q] = Put(rel[q], [job.copy EXCEPT !.sched = "True"])]
        BY <2>2, <3>1 DEF Inv, Shapes
      <4> QED
        BY <2>4, <2>5, <3>1, <4>1
    <3> QED
      BY <1>1, <2>6, <3>1 DEF MarkScheduled
  <2>7. CASE MarkUnscheduled
    <3> DEFINE v == [job.copy EXCEPT !.sched = "False"]
               o == IF job.held THEN [rel[q] EXCEPT !.cache = v] ELSE rel[q]
    <3>1. \/ job.fresh /\ rel' = [rel EXCEPT ![q] = Put(o, v)]
          \/ rel' = [rel EXCEPT ![q] = o]
      BY <2>2, <2>7 DEF MarkUnscheduled
    <3>2. IsObject(o) /\ o.log = rel[q].log
      <4>1. CASE job.held
        <5>1. rel[q].cache = job.copy /\ uids[q] \in Nat
          BY <2>1, <2>2, <4>1, Numbers DEF Inv, Work
        <5>2. o = [rel[q] EXCEPT !.cache = [rel[q].cache EXCEPT !.sched = "False"]]
          BY <4>1, <5>1
        <5>3. ReleaseObject(rel[q], uids[q])
          BY DEF Inv, Releases
        <5>4. ReleaseObject(o, uids[q]) /\ o.log = rel[q].log
          BY <2>3, <5>1, <5>2, <5>3, ReleaseUnmarked
        <5> QED
          BY <5>4 DEF ReleaseObject
      <4>2. CASE ~job.held
        BY <2>4, <4>2
      <4> QED
        BY <4>1, <4>2
    <3> HIDE DEF o
    <3>3. Stored(o) = Stored(rel[q])
      BY <3>2 DEF Stored
    <3> QED
      BY <2>5, <3>1, <3>2, <3>3, WriteAside
  <2> QED
    BY <1>3, <2>6, <2>7
<1>4. CASE PatchContender
  <2>1. PICK q \in Gen : q = exec.r
    BY <1>4 DEF PatchContender, Executing
  <2> DEFINE v == PatchOf(Stored(rel[q]), exec.sched, exec.complete)
  <2>2. CASE Stored(rel[q]) # Absent /\ rel' = [rel EXCEPT ![q] = Put(rel[q], v)]
    <3>1. IsObject(rel[q]) /\ IsRelease(Stored(rel[q]))
      BY Positions DEF Inv, Releases, ReleaseObject
    <3>2. v.clusters = Stored(rel[q]).clusters
      BY <2>2, <3>1, Patched
    <3>3. Stored(Put(rel[q], v)) = v
      BY <3>1, StoredPut
    <3> HIDE DEF v
    <3> QED
      BY <2>2, <3>2, <3>3, WriteAside
  <2>3. rel' = rel \/ (Stored(rel[q]) # Absent /\ rel' = [rel EXCEPT ![q] = Put(rel[q], v)])
    BY <1>4, <2>1 DEF PatchContender, WriteRel, PatchOf
  <2> QED
    BY <1>1, <2>2, <2>3
<1>5. ASSUME NEW q \in Gen, CreateRelease(q) \/ DeleteRelease(q) \/ DeliverRelease(q) \/ EditClusters(q)
      PROVE  SameClusters(r)
  <2>1. IsObject(rel[q]) /\ IsRelease(Stored(rel[q]))
    BY Positions DEF Inv, Releases, ReleaseObject
  <2>2. CASE CreateRelease(q)
    <3>1. Stored(rel[q]) = Absent
      BY <2>2 DEF CreateRelease
    <3>2. PICK o : rel' = [rel EXCEPT ![q] = o]
      BY <2>2 DEF CreateRelease, WriteRel
    <3> QED
      BY <3>1, <3>2, WriteAside
  <2>3. CASE DeleteRelease(q)
    <3>1. rel' = [rel EXCEPT ![q] = Append1(rel[q], Absent)]
      BY <2>3 DEF DeleteRelease, WriteRel
    <3>2. Stored(Append1(rel[q], Absent)).uid = 0
      BY <2>1, Appended, Uids
    <3> QED
      BY <2>1, <3>1, <3>2, Uids, WriteAside
  <2>4. CASE DeliverRelease(q)
    <3>1. rel' = [rel EXCEPT ![q] = Next1(rel[q])] /\ ~Current(rel[q])
      BY <2>4 DEF DeliverRelease, Inv, Shapes
    <3>2. Stored(Next1(rel[q])) = Stored(rel[q])
      BY <2>1, <3>1, Delivered
    <3> QED
      BY <3>1, <3>2, WriteAside
  <2>5. CASE EditClusters(q)
    <3>1. q # r
      BY <2>5
    <3>2. PICK o : rel' = [rel EXCEPT ![q] = o]
      BY <2>5 DEF EditClusters, WriteRel
    <3> QED
      BY <3>1, <3>2, WriteAside
  <2> QED
    BY <1>5, <2>2, <2>3, <2>4, <2>5
<1>6. CASE Restart
  BY <1>6, Refilled DEF Restart, SameClusters
<1>7. CASE (\E q \in Gen : ScheduleRelease(q)) \/ ExecuteStrategy
  BY <1>1, <1>7 DEF ScheduleRelease, ListClusters, StartScheduling, ExecuteStrategy
<1>8. CASE EnsureTarget
  BY <1>1, <1>8 DEF EnsureTarget, CreateTarget, CheckTarget, RepairTarget, TargetDone
<1>9. CASE \E q \in Gen, k \in Kind : CollectGarbage(q, k) \/ TouchTarget(q, k) \/ DeliverTarget(q, k)
  BY <1>1, <1>9 DEF CollectGarbage, TouchTarget, DeliverTarget
<1>10. CASE (\E c \in fleet : Cordon(c)) \/ UNCHANGED vars
  BY <1>1, <1>10 DEF Cordon, vars
<1> QED
  BY <1>2, <1>3, <1>4, <1>5, <1>6, <1>7, <1>8, <1>9, <1>10 DEF Next

\* Clusters are assigned to a release once (release_controller.go): neither a
\* stale cache, nor a patch, nor a late handler changes them afterwards; only
\* an operator's edit does.
THEOREM ClustersAssignedOnce == Spec => AssignedOnce
<1>1. Inv /\ Executing /\ [Next]_vars =>
        [\A r \in Gen :
            LET v == Stored(rel[r])
                w == Stored(rel'[r])
            IN  v # Absent /\ w.uid = v.uid /\ v.clusters # {} /\ ~EditClusters(r) =>
                    w.clusters = v.clusters]_vars
  BY AssignStep DEF SameClusters
<1> QED
  BY <1>1, AlwaysInv, PTL DEF Spec, AssignedOnce

=============================================================================
