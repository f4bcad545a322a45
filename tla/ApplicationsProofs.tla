------------------------- MODULE ApplicationsProofs -------------------------
(***************************************************************************)
(* Proofs about the application controller when the events of Releases     *)
(* reach it before its next sync (Prompt): then the releases it works from *)
(* are the ones that exist.  Without that neither result holds; the run    *)
(* FalseAbort shows an abort that no deletion caused.                      *)
(*                                                                         *)
(* What carries the first proof is that the stored set of releases is only *)
(* ever extended by a release newer than all of it, and that no other      *)
(* step, the completion of a release and the clean up among them, gives a  *)
(* release a new generation.  The second one counts: a deletion may leave  *)
(* a high water mark above every release that exists, or above what will   *)
(* exist when the clean up in progress is over, and only such a mark makes *)
(* the controller abort.                                                   *)
(***************************************************************************)
EXTENDS Applications, SequencesExt, SequenceTheorems, TLAPS

\* A release.  Templates and iterations play no part here.
IsRelease(r) ==
    r = [f \in {"tmpl", "iter", "gen", "complete"} |-> r[f]] /\ r.gen \in Nat

AreReleases(S) == \A r \in S : IsRelease(r)

IsApplication(a) ==
    a = [f \in {"tmpl", "hog", "aborting"} |-> a[f]] /\ a.hog \in Nat

IsJob(j) ==
    \/ j = Idle
    \/ /\ j = [f \in {"busy", "app", "update", "doomed"} |-> j[f]]
       /\ j.busy = TRUE /\ IsApplication(j.app) /\ AreReleases(j.doomed)

\* A history of versions is never empty.
IsHistory(h) == h \in Seq(ToSet(h)) /\ h # << >>

\* The shapes of what is stored, and of every version on its way to a cache.
Shapes ==
    /\ IsHistory(app) /\ \A i \in 1 .. Len(app) : IsApplication(app[i])
    /\ IsHistory(rels) /\ \A i \in 1 .. Len(rels) : AreReleases(rels[i])
    /\ IsJob(job)

\* Generations, and names, are told apart in this set of releases.
Distinct(S) == \A r, q \in S : r.gen = q.gen \/ SameName(r, q) => r = q

\* A release to be removed: whatever has its name has its generation.
DoomedKnown ==
    job.busy => \A d \in job.doomed, q \in Server(rels) : SameName(d, q) => q.gen = d.gen

Inv == Shapes /\ Distinct(Server(rels)) /\ DoomedKnown

-----------------------------------------------------------------------------
(* Records that differ in one field.                                        *)

LEMMA FieldEdit ==
    ASSUME NEW F, NEW j, j = [f \in F |-> j[f]], NEW a \in F, NEW x
    PROVE  LET k == [j EXCEPT ![a] = x]
           IN  k = [f \in F |-> k[f]] /\ k[a] = x /\ \A f \in F : f # a => k[f] = j[f]
  OBVIOUS

LEMMA ReleaseEdit ==
    ASSUME NEW r, IsRelease(r)
    PROVE  LET s == [r EXCEPT !.complete = TRUE]
           IN  IsRelease(s) /\ s.gen = r.gen /\ s.tmpl = r.tmpl /\ s.iter = r.iter
  BY FieldEdit DEF IsRelease

LEMMA ApplicationEdit ==
    ASSUME NEW a, IsApplication(a), NEW t, NEW g \in Nat
    PROVE  /\ LET b == [a EXCEPT !.aborting = FALSE]
              IN  IsApplication(b) /\ b.aborting = FALSE /\ b.hog = a.hog
           /\ LET b == [a EXCEPT !.hog = g]
              IN  IsApplication(b) /\ b.aborting = a.aborting /\ b.hog = g
           /\ LET b == [a EXCEPT !.tmpl = t]
              IN  IsApplication(b) /\ b.hog = a.hog
  <1>1. LET b == [a EXCEPT !.aborting = FALSE]
        IN  IsApplication(b) /\ b.aborting = FALSE /\ b.hog = a.hog
    BY FieldEdit DEF IsApplication
  <1>2. LET b == [a EXCEPT !.hog = g]
        IN  IsApplication(b) /\ b.aborting = a.aborting /\ b.hog = g
    BY FieldEdit DEF IsApplication
  <1>3. LET b == [a EXCEPT !.tmpl = t]
        IN  IsApplication(b) /\ b.hog = a.hog
    BY FieldEdit DEF IsApplication
  <1> QED  BY <1>1, <1>2, <1>3

LEMMA JobEdit ==
    ASSUME NEW j, IsJob(j), j.busy, NEW D \in SUBSET j.doomed
    PROVE  LET k == [j EXCEPT !.doomed = D]
           IN  IsJob(k) /\ k.doomed = D /\ k.busy /\ k.app = j.app /\ k.update = j.update
  <1>1. /\ j = [f \in {"busy", "app", "update", "doomed"} |-> j[f]] /\ j.busy = TRUE
        /\ IsApplication(j.app) /\ AreReleases(j.doomed)
    BY DEF IsJob, Idle
  <1>2. AreReleases(D)
    BY <1>1 DEF AreReleases
  <1> QED  BY <1>1, <1>2, FieldEdit DEF IsJob

-----------------------------------------------------------------------------
(* Histories.                                                               *)

\* A sequence over any set is one over its own elements.
LEMMA OwnElements ==
    ASSUME NEW S, NEW s \in Seq(S)
    PROVE  s \in Seq(ToSet(s))
  <1>1. s \in [1 .. Len(s) -> ToSet(s)] /\ Len(s) \in Nat
    BY LenProperties DEF ToSet
  <1> QED  BY <1>1, SeqDef

\* The cached version is the first, the stored one the last.
LEMMA Ends ==
    ASSUME NEW h, IsHistory(h)
    PROVE  /\ Len(h) \in Nat \ {0}
           /\ Server(h) = h[Len(h)] /\ Cached(h) = h[1]
           /\ Len(h) = 1 => Cached(h) = Server(h)
  <1>1. Len(h) \in Nat /\ Len(h) # 0
    BY LenProperties, EmptySeq DEF IsHistory
  <1> QED  BY <1>1 DEF Server, Cached, IsHistory

\* A version is added behind the others.
LEMMA Appended ==
    ASSUME NEW h, IsHistory(h), NEW v
    PROVE  LET p == Append(h, v)
           IN  /\ IsHistory(p) /\ Server(p) = v
               /\ \A i \in 1 .. Len(p) : p[i] = v \/ (i \in 1 .. Len(h) /\ p[i] = h[i])
  <1> DEFINE p == Append(h, v)
  <1>0. Len(h) \in Nat \ {0}
    BY Ends
  <1>1. h \in Seq(ToSet(h) \union {v})
    BY SeqMonotonic DEF IsHistory
  <1>2. /\ p \in Seq(ToSet(h) \union {v}) /\ Len(p) = Len(h) + 1
        /\ \A i \in 1 .. Len(h) : p[i] = h[i]
        /\ p[Len(h) + 1] = v
    BY <1>1, AppendProperties
  <1>3. p \in Seq(ToSet(p))
    BY <1>2, OwnElements
  <1>4. p # << >>
    BY <1>0, <1>2, EmptySeq
  <1> QED  BY <1>0, <1>2, <1>3, <1>4 DEF IsHistory, Server

\* A version is added unless it is there already.
LEMMA Pushed ==
    ASSUME NEW h, IsHistory(h), NEW v
    PROVE  LET p == Push(h, v)
           IN  /\ IsHistory(p) /\ Server(p) = v
               /\ \A i \in 1 .. Len(p) : p[i] = v \/ (i \in 1 .. Len(h) /\ p[i] = h[i])
  BY Appended DEF Push

\* The cache moves on; what is stored does not.
LEMMA Delivered ==
    ASSUME NEW h, IsHistory(h), Len(h) > 1
    PROVE  LET p == Tail(h)
           IN  /\ IsHistory(p) /\ Server(p) = Server(h)
               /\ \A i \in 1 .. Len(p) : i + 1 \in 1 .. Len(h) /\ p[i] = h[i + 1]
  <1> DEFINE p == Tail(h)
  <1>0. Len(h) \in Nat
    BY Ends
  <1>1. /\ p \in Seq(ToSet(h)) /\ Len(p) = Len(h) - 1
        /\ \A i \in 1 .. Len(p) : p[i] = h[i + 1]
    BY HeadTailProperties DEF IsHistory
  <1>2. p \in Seq(ToSet(p))
    BY <1>1, OwnElements
  <1>3. p # << >>
    <2>1. Len(p) # 0
      BY <1>0, <1>1
    <2> QED  BY <2>1, EmptySeq
  <1> HIDE DEF p
  <1>4. Len(p) \in 1 .. Len(p) /\ Len(p) + 1 = Len(h)
    BY <1>0, <1>1
  <1>5. Server(p) = Server(h)
    BY <1>1, <1>4 DEF Server
  <1> QED  BY <1>0, <1>1, <1>2, <1>3, <1>5 DEF IsHistory, p

-----------------------------------------------------------------------------
(* What the steps do to the releases that are stored.                       *)

\* The releases: some are removed, one newer than all the others is created, or
\* one is completed.
ReleasesStep ==
    \/ UNCHANGED rels
    \/ Len(rels) > 1 /\ rels' = Tail(rels)
    \/ \E S \in SUBSET Server(rels) : rels' \in {Push(rels, S), Append(rels, S)}
    \/ \E new :
          /\ IsRelease(new) /\ \A r \in Server(rels) : r.gen < new.gen /\ ~SameName(r, new)
          /\ rels' = Push(rels, Server(rels) \union {new})
    \/ \E r \in Server(rels) :
          rels' = Append(rels, (Server(rels) \ {r}) \union {[r EXCEPT !.complete = TRUE]})

\* Any of these keeps the generations apart.
LEMMA ReleasesKept ==
    ASSUME Inv, ReleasesStep
    PROVE  /\ IsHistory(rels') /\ \A i \in 1 .. Len(rels') : AreReleases(rels'[i])
           /\ Distinct(Server(rels)')
  <1>0. /\ IsHistory(rels) /\ \A i \in 1 .. Len(rels) : AreReleases(rels[i])
        /\ Distinct(Server(rels)) /\ Server(rels)' = Server(rels')
    BY DEF Inv, Shapes, Server
  <1>1. AreReleases(Server(rels)) /\ Len(rels) \in Nat \ {0}
    BY <1>0, Ends
  <1>new. ASSUME NEW S, AreReleases(S), Distinct(S),
                 rels' = Push(rels, S) \/ rels' = Append(rels, S)
          PROVE  /\ IsHistory(rels') /\ \A i \in 1 .. Len(rels') : AreReleases(rels'[i])
                 /\ Distinct(Server(rels'))
    <2>1. \A i \in 1 .. Len(rels') : rels'[i] = S \/ (i \in 1 .. Len(rels) /\ rels'[i] = rels[i])
      BY <1>0, <1>new, Pushed, Appended
    <2>2. IsHistory(rels') /\ Server(rels') = S
      BY <1>0, <1>new, Pushed, Appended
    <2> QED  BY <1>0, <1>new, <2>1, <2>2
  <1>2. CASE UNCHANGED rels
    BY <1>0, <1>2
  <1>3. CASE Len(rels) > 1 /\ rels' = Tail(rels)
    BY <1>0, <1>3, Delivered
  <1>4. CASE \E S \in SUBSET Server(rels) : rels' \in {Push(rels, S), Append(rels, S)}
    <2> PICK S \in SUBSET Server(rels) : rels' \in {Push(rels, S), Append(rels, S)}
      BY <1>4
    <2>1. AreReleases(S) /\ Distinct(S)
      BY <1>0, <1>1 DEF AreReleases, Distinct
    <2> QED  BY <1>0, <1>new, <2>1
  <1>5. CASE \E new :
                /\ IsRelease(new) /\ \A r \in Server(rels) : r.gen < new.gen /\ ~SameName(r, new)
                /\ rels' = Push(rels, Server(rels) \union {new})
    <2> PICK new : /\ IsRelease(new) /\ \A r \in Server(rels) : r.gen < new.gen /\ ~SameName(r, new)
                   /\ rels' = Push(rels, Server(rels) \union {new})
      BY <1>5
    <2>1. AreReleases(Server(rels) \union {new})
      BY <1>1 DEF AreReleases
    <2>2. Distinct(Server(rels) \union {new})
      BY <1>0, <1>1 DEF Distinct, AreReleases, IsRelease, SameName
    <2> QED  BY <1>0, <1>new, <2>1, <2>2
  <1>6. CASE \E r \in Server(rels) :
                rels' = Append(rels, (Server(rels) \ {r}) \union {[r EXCEPT !.complete = TRUE]})
    <2> PICK r \in Server(rels) :
                rels' = Append(rels, (Server(rels) \ {r}) \union {[r EXCEPT !.complete = TRUE]})
      BY <1>6
    <2> DEFINE s == [r EXCEPT !.complete = TRUE]
    <2>1. IsRelease(s) /\ s.gen = r.gen /\ s.tmpl = r.tmpl /\ s.iter = r.iter
      BY <1>1, ReleaseEdit DEF AreReleases
    <2> HIDE DEF s
    <2>2. AreReleases((Server(rels) \ {r}) \union {s})
      BY <1>1, <2>1 DEF AreReleases
    <2>3. Distinct((Server(rels) \ {r}) \union {s})
      BY <1>0, <2>1 DEF Distinct, SameName
    <2> QED  BY <1>0, <1>new, <2>2, <2>3 DEF s
  <1> QED  BY <1>0, <1>2, <1>3, <1>4, <1>5, <1>6 DEF ReleasesStep

-----------------------------------------------------------------------------
(* The handler.                                                             *)

\* However it goes on, the handler has a copy of the application to write, and
\* removes releases of its list, but not the newest.
LEMMA Continues ==
    ASSUME NEW list, AreReleases(list), NEW copy, IsApplication(copy), NEW ok,
           Continue(list, copy, ok)
    PROVE  /\ IsJob(job') /\ job'.busy /\ job'.app = copy /\ job'.update = ok
           /\ \E last \in Newest(list) : job'.doomed \subseteq list \ {last}
  <1> PICK last \in Newest(list) : \E doomed \in Doomed(list, last) :
           job' = [busy |-> TRUE, app |-> copy, update |-> ok, doomed |-> doomed]
    BY DEF Continue
  <1>1. PICK doomed \in Doomed(list, last) :
           job' = [busy |-> TRUE, app |-> copy, update |-> ok, doomed |-> doomed]
    OBVIOUS
  <1>2. doomed \subseteq list \ {last}
    BY DEF Doomed
  <1>3. AreReleases(doomed)
    BY <1>2 DEF AreReleases
  <1> QED  BY <1>1, <1>2, <1>3 DEF IsJob

\* What a handler that starts may leave: nothing, or a job whose mark, if it is
\* to be written, is the newest generation and whose doomed releases are older.
Starts ==
    \/ job' = Idle
    \/ /\ IsJob(job') /\ job'.busy
       /\ \E last \in Newest(Server(rels')) :
             /\ job'.doomed \subseteq Server(rels') \ {last}
             /\ job'.update => job'.app.hog = last.gen
             /\ job'.app.aborting => last.gen < Cached(app).hog

\* The newest releases share one generation.
LEMMA NewestEqual ==
    ASSUME NEW S, AreReleases(S), NEW r \in Newest(S), NEW q \in Newest(S)
    PROVE  r.gen = q.gen
  BY DEF Newest, AreReleases, IsRelease

\* Creating a release that is newer than all there are.
LEMMA Creates ==
    ASSUME Inv, NEW copy, IsApplication(copy), copy.aborting = FALSE, NEW gen \in Nat,
           \A r \in Server(rels) : r.gen < gen,
           CreateRelease(Server(rels), copy, gen)
    PROVE  ReleasesStep /\ Starts /\ Server(rels) \subseteq Server(rels')
  <1> DEFINE new == [tmpl |-> copy.tmpl, iter |-> NextIteration(Server(rels), copy.tmpl),
                     gen |-> gen, complete |-> FALSE]
             mark == [copy EXCEPT !.hog = gen]
             seen == Server(rels)
  <1>0. IsHistory(rels) /\ AreReleases(seen)
    BY Ends DEF Inv, Shapes
  <1>1. IsRelease(new) /\ new.gen = gen
    BY DEF IsRelease
  <1>2. IsApplication(mark) /\ mark.aborting = FALSE /\ mark.hog = gen
    BY ApplicationEdit
  <1>3. \/ /\ \A r \in seen : ~SameName(r, new)
           /\ rels' = Push(rels, seen \union {new})
           /\ Continue(seen \union {new}, mark, TRUE)
        \/ UNCHANGED rels /\ job' = Idle
        \/ UNCHANGED rels /\ Continue(seen, copy, FALSE)
    BY DEF CreateRelease
  <1> HIDE DEF new, mark
  <1>4. CASE /\ \A r \in seen : ~SameName(r, new)
             /\ rels' = Push(rels, seen \union {new})
             /\ Continue(seen \union {new}, mark, TRUE)
    <2>1. Server(rels') = seen \union {new}
      BY <1>0, <1>4, Pushed
    <2>2. AreReleases(seen \union {new})
      BY <1>0, <1>1 DEF AreReleases
    <2>3. /\ IsJob(job') /\ job'.busy /\ job'.app = mark
          /\ \E last \in Newest(seen \union {new}) : job'.doomed \subseteq (seen \union {new}) \ {last}
      BY <1>2, <1>4, <2>2, Continues
    <2>4. \A last \in Newest(seen \union {new}) : last.gen = gen
      <3>1. new \in Newest(seen \union {new})
        BY <1>0, <1>1 DEF Newest, AreReleases, IsRelease
      <3> QED  BY <1>1, <2>2, <3>1, NewestEqual
    <2>5. ReleasesStep
      BY <1>1, <1>4 DEF ReleasesStep
    <2>6. Starts
      BY <1>2, <2>1, <2>3, <2>4 DEF Starts
    <2> QED  BY <2>1, <2>5, <2>6
  <1>5. CASE UNCHANGED rels /\ job' = Idle
    BY <1>5 DEF ReleasesStep, Starts
  <1>6. CASE UNCHANGED rels /\ Continue(seen, copy, FALSE)
    <2>1. /\ IsJob(job') /\ job'.busy /\ job'.app = copy /\ job'.update = FALSE
          /\ \E last \in Newest(seen) : job'.doomed \subseteq seen \ {last}
      BY <1>0, <1>6, Continues
    <2> QED  BY <1>6, <2>1 DEF ReleasesStep, Starts
  <1> QED  BY <1>3, <1>4, <1>5, <1>6

\* A handler that creates nothing works on the newest release there is.
LEMMA Settles ==
    ASSUME Inv, NEW c \in Newest(Server(rels)), NEW copy, IsApplication(copy), copy.hog = c.gen,
           copy.aborting => c.gen < Cached(app).hog,
           Continue(Server(rels), copy, TRUE), UNCHANGED rels
    PROVE  ReleasesStep /\ Starts /\ Server(rels) \subseteq Server(rels')
  <1>0. AreReleases(Server(rels))
    BY Ends DEF Inv, Shapes
  <1>1. /\ IsJob(job') /\ job'.busy /\ job'.app = copy
        /\ \E last \in Newest(Server(rels)) : job'.doomed \subseteq Server(rels) \ {last}
    BY <1>0, Continues
  <1>2. \A last \in Newest(Server(rels)) : last.gen = c.gen
    BY <1>0, NewestEqual
  <1> QED  BY <1>1, <1>2 DEF ReleasesStep, Starts

\* A sync reads the releases that are stored: it creates a release newer than
\* all of them or none, and aborts only if none is as new as the mark it read.
LEMMA SyncStep ==
    ASSUME Prompt, Inv, SyncApplication
    PROVE  ReleasesStep /\ Starts /\ Server(rels) \subseteq Server(rels')
  <1> DEFINE old == Cached(app)
             kept == [old EXCEPT !.aborting = FALSE]
  <1>0. Cached(rels) = Server(rels) /\ AreReleases(Server(rels)) /\ IsApplication(old)
    BY Ends DEF SyncApplication, Inv, Shapes
  <1>1. IsApplication(kept) /\ kept.aborting = FALSE
    BY <1>0, ApplicationEdit
  <1>2. ASSUME NEW c \in Newest(Cached(rels))
        PROVE  /\ c \in Newest(Server(rels)) /\ c.gen \in Nat
               /\ \A r \in Server(rels) : r.gen \in Nat /\ r.gen <= c.gen
    BY <1>0, <1>2 DEF Newest, AreReleases, IsRelease
  <1>3. CASE CreateFirst
    <2>1. CreateRelease(Server(rels), kept, 0) /\ Server(rels) = {}
      BY <1>0, <1>3 DEF CreateFirst
    <2> HIDE DEF kept
    <2> QED  BY <1>1, <2>1, Creates
  <1>4. CASE Abort
    <2> PICK c \in Newest(Cached(rels)) :
               /\ c.gen < old.hog
               /\ Continue(Cached(rels), [tmpl |-> c.tmpl, hog |-> c.gen, aborting |-> TRUE], TRUE)
      BY <1>4 DEF Abort
    <2> DEFINE copy == [tmpl |-> c.tmpl, hog |-> c.gen, aborting |-> TRUE]
    <2>1. IsApplication(copy) /\ copy.hog = c.gen
      BY <1>2 DEF IsApplication
    <2>2. Continue(Server(rels), copy, TRUE) /\ UNCHANGED rels
      BY <1>0, <1>4 DEF Abort
    <2> HIDE DEF copy
    <2> QED  BY <1>2, <2>1, <2>2, Settles
  <1>5. CASE KeepContender
    <2> PICK c \in Newest(Cached(rels)) :
               Continue(Cached(rels), [old EXCEPT !.hog = c.gen, !.aborting = FALSE], TRUE)
      BY <1>5 DEF KeepContender
    <2> DEFINE seen == [old EXCEPT !.hog = c.gen]
               copy == [seen EXCEPT !.aborting = FALSE]
    <2>1. IsApplication(copy) /\ copy.aborting = FALSE /\ copy.hog = c.gen
      <3>1. IsApplication(seen) /\ seen.hog = c.gen
        BY <1>0, <1>2, ApplicationEdit
      <3> HIDE DEF seen
      <3> QED  BY <3>1, ApplicationEdit
    <2>2. Continue(Server(rels), copy, TRUE) /\ UNCHANGED rels
      BY <1>0, <1>5 DEF KeepContender
    <2> HIDE DEF copy
    <2> QED  BY <1>2, <2>1, <2>2, Settles
  <1>6. CASE CreateNext
    <2> PICK c \in Newest(Cached(rels)) : CreateRelease(Cached(rels), kept, c.gen + 1)
      BY <1>6 DEF CreateNext
    <2>1. c.gen + 1 \in Nat /\ \A r \in Server(rels) : r.gen < c.gen + 1
      BY <1>2
    <2> HIDE DEF kept
    <2> QED  BY <1>0, <1>1, <2>1, Creates
  <1> QED  BY <1>3, <1>4, <1>5, <1>6 DEF SyncApplication

\* The clean up removes a release by its name, and forgets releases it was to
\* remove.
LEMMA CleanUpStep ==
    ASSUME Inv, CleanUpRelease
    PROVE  /\ ReleasesStep /\ IsJob(job') /\ job.busy /\ job'.busy
           /\ job'.doomed \subseteq job.doomed /\ job'.app = job.app /\ job'.update = job.update
           /\ \/ UNCHANGED rels
              \/ \E d \in job.doomed :
                    Server(rels') = Server(rels) \ {q \in Server(rels) : SameName(d, q)}
  <1>1. IsJob(job) /\ job.busy /\ IsHistory(rels)
    BY DEF CleanUpRelease, Inv, Shapes
  <1>2. PICK D \in SUBSET job.doomed : job' = [job EXCEPT !.doomed = D]
    BY DEF CleanUpRelease, NextDoomed
  <1>3. /\ IsJob(job') /\ job'.busy /\ job'.doomed = D /\ job'.app = job.app
        /\ job'.update = job.update
    BY <1>1, <1>2, JobEdit
  <1>4. \/ UNCHANGED rels
        \/ \E d \in job.doomed :
              rels' = Push(rels, Server(rels) \ {q \in Server(rels) : SameName(d, q)})
    BY DEF CleanUpRelease, NextDoomed
  <1>5. ReleasesStep
    BY <1>4 DEF ReleasesStep
  <1>6. \/ UNCHANGED rels
        \/ \E d \in job.doomed :
              Server(rels') = Server(rels) \ {q \in Server(rels) : SameName(d, q)}
    <2>1. \A S : rels' = Push(rels, S) => Server(rels') = S
      BY <1>1, Pushed
    <2> QED  BY <1>4, <2>1
  <1> QED  BY <1>1, <1>3, <1>5, <1>6

-----------------------------------------------------------------------------
(* The invariant, and what follows from it.                                 *)

\* The invariant holds at first ...
LEMMA InvInit == Init => Inv
  <1> SUFFICES ASSUME Init PROVE Inv
    OBVIOUS
  <1>1. ASSUME NEW v PROVE IsHistory(<<v>>) /\ Server(<<v>>) = v /\ Len(<<v>>) = 1 /\ <<v>>[1] = v
    <2>1. <<v>> \in Seq({v}) /\ Len(<<v>>) = 1 /\ <<v>>[1] = v /\ <<v>> # << >>
      OBVIOUS
    <2>2. <<v>> \in Seq(ToSet(<<v>>))
      BY <2>1, OwnElements
    <2> QED  BY <2>1, <2>2 DEF IsHistory, Server
  <1>2. PICK t \in Template : app = <<[tmpl |-> t, hog |-> 0, aborting |-> FALSE]>>
    BY DEF Init
  <1>3. IsHistory(app) /\ \A i \in 1 .. Len(app) : IsApplication(app[i])
    <2> DEFINE a == [tmpl |-> t, hog |-> 0, aborting |-> FALSE]
    <2>1. IsApplication(a)
      BY DEF IsApplication
    <2> HIDE DEF a
    <2>2. app = <<a>>
      BY <1>2 DEF a
    <2> QED  BY <1>1, <2>1, <2>2
  <1>4. IsHistory(rels) /\ Server(rels) = {} /\ \A i \in 1 .. Len(rels) : AreReleases(rels[i])
    BY <1>1 DEF Init, AreReleases
  <1> QED  BY <1>3, <1>4 DEF Init, Inv, Shapes, Distinct, DoomedKnown, IsJob, Idle

\* ... and every step keeps it.
LEMMA InvNext == Prompt /\ Inv /\ [Next]_vars => Inv'
  <1> SUFFICES ASSUME Prompt, Inv, [Next]_vars PROVE Inv'
    OBVIOUS
  <1>0. /\ IsHistory(app) /\ \A i \in 1 .. Len(app) : IsApplication(app[i])
        /\ IsJob(job) /\ DoomedKnown /\ Distinct(Server(rels))
        /\ IsHistory(rels) /\ AreReleases(Server(rels))
    BY Ends DEF Inv, Shapes
  <1>all. ASSUME ReleasesStep, IsJob(job'), DoomedKnown', IsHistory(app'),
                 \A i \in 1 .. Len(app') : IsApplication(app'[i])
          PROVE  Inv'
    BY <1>all, ReleasesKept DEF Inv, Shapes
  <1>same. ASSUME ReleasesStep, IsJob(job'), DoomedKnown', UNCHANGED app PROVE Inv'
    BY <1>0, <1>all, <1>same
  <1>known. ASSUME UNCHANGED job, Server(rels') \subseteq Server(rels) PROVE DoomedKnown'
    BY <1>0, <1>known DEF DoomedKnown, Server
  <1>idle. IsJob(Idle) /\ (job' = Idle => DoomedKnown')
    BY DEF IsJob, DoomedKnown, Idle
  <1>1. CASE SyncApplication
    <2>1. ReleasesStep /\ Starts
      BY <1>1, SyncStep
    <2>2. Distinct(Server(rels'))
      BY <2>1, ReleasesKept DEF Server
    <2>3. job' = Idle \/ (IsJob(job') /\ job'.doomed \subseteq Server(rels'))
      BY <2>1 DEF Starts
    <2>4. DoomedKnown'
      BY <1>idle, <2>2, <2>3 DEF DoomedKnown, Distinct, Server
    <2> QED  BY <1>1, <1>same, <1>idle, <2>1, <2>3, <2>4 DEF SyncApplication
  <1>2. CASE CleanUpRelease
    <2>1. /\ ReleasesStep /\ IsJob(job') /\ job.busy /\ job'.doomed \subseteq job.doomed
          /\ Server(rels') \subseteq Server(rels)
      BY <1>2, CleanUpStep
    <2>2. DoomedKnown'
      BY <1>0, <2>1 DEF DoomedKnown, Server
    <2> QED  BY <1>2, <1>same, <2>1, <2>2 DEF CleanUpRelease
  <1>3. CASE UpdateApplication
    <2>1. UNCHANGED rels /\ job' = Idle
          /\ (UNCHANGED app \/ (job.busy /\ app' = Push(app, job.app)))
      BY <1>3 DEF UpdateApplication
    <2>2. CASE job.busy /\ app' = Push(app, job.app)
      <3>1. IsApplication(job.app)
        BY <1>0, <2>2 DEF IsJob, Idle
      <3> QED  BY <1>0, <1>all, <1>idle, <2>1, <2>2, <3>1, Pushed DEF ReleasesStep
    <2> QED  BY <1>same, <1>idle, <2>1, <2>2 DEF ReleasesStep
  <1>4. CASE Crash
    BY <1>4, <1>same, <1>idle DEF Crash, ReleasesStep
  <1>5. ASSUME NEW t \in Template, EditTemplate(t) PROVE Inv'
    <2> DEFINE a == [Server(app) EXCEPT !.tmpl = t]
    <2>1. app' = Append(app, a) /\ UNCHANGED <<rels, job>>
      BY <1>5 DEF EditTemplate
    <2>2. IsApplication(Server(app))
      BY <1>0, Ends
    <2>3. IsApplication(a)
      BY <2>2, ApplicationEdit
    <2> HIDE DEF a
    <2> QED  BY <1>0, <1>all, <1>known, <2>1, <2>3, Appended DEF ReleasesStep
  <1>6. ASSUME NEW r \in Server(rels), DeleteRelease(r) PROVE Inv'
    <2>1. rels' = Append(rels, Server(rels) \ {r}) /\ UNCHANGED <<job, app>>
      BY <1>6 DEF DeleteRelease
    <2>2. Server(rels') \subseteq Server(rels)
      BY <1>0, <2>1, Appended
    <2> QED  BY <1>0, <1>same, <1>known, <2>1, <2>2 DEF ReleasesStep
  <1>7. ASSUME NEW r \in Server(rels), CompleteRelease(r) PROVE Inv'
    <2> DEFINE s == [r EXCEPT !.complete = TRUE]
    <2>1. rels' = Append(rels, (Server(rels) \ {r}) \union {s}) /\ UNCHANGED <<job, app>>
      BY <1>7 DEF CompleteRelease
    <2>2. Server(rels') = (Server(rels) \ {r}) \union {s}
      BY <1>0, <2>1, Appended
    <2>3. s.gen = r.gen /\ s.tmpl = r.tmpl /\ s.iter = r.iter
      BY <1>0, ReleaseEdit DEF AreReleases
    <2>4. ReleasesStep
      BY <2>1 DEF ReleasesStep
    <2> HIDE DEF s
    <2>5. DoomedKnown'
      BY <1>0, <2>1, <2>2, <2>3 DEF DoomedKnown, SameName, Server
    <2> QED  BY <1>0, <1>same, <2>1, <2>4, <2>5
  <1>8. CASE DeliverApplication
    BY <1>0, <1>8, <1>all, <1>known, Delivered DEF DeliverApplication, ReleasesStep
  <1>9. CASE DeliverReleases
    <2>1. Len(rels) > 1 /\ rels' = Tail(rels) /\ UNCHANGED <<job, app>>
      BY <1>9 DEF DeliverReleases
    <2>2. Server(rels') = Server(rels)
      BY <1>0, <2>1, Delivered
    <2> QED  BY <1>0, <1>same, <1>known, <2>1, <2>2 DEF ReleasesStep
  <1>10. CASE UNCHANGED vars
    BY <1>0, <1>10, <1>same, <1>known DEF vars, ReleasesStep
  <1> QED
    BY <1>1, <1>2, <1>3, <1>4, <1>5, <1>6, <1>7, <1>8, <1>9, <1>10 DEF Next

\* If every Release event reaches the controller before it syncs again, then no
\* two releases of an application ever have the same generation, for any
\* templates, history limit, edits, deletions, failed calls, crashes and
\* staleness of the Application itself (releaseForApplication and
\* processApplication in pkg/controller/application).
THEOREM AlwaysUnique == ASSUME Prompt PROVE Spec => []GenerationsUnique
  <1>1. Inv => GenerationsUnique
    BY DEF Inv, Distinct, GenerationsUnique
  <1>2. Inv /\ [Next]_vars => Inv'
    BY InvNext
  <1> QED  BY InvInit, <1>1, <1>2, PTL DEF Spec

-----------------------------------------------------------------------------
(* Counting the aborts.                                                     *)

\* Every release that exists is older than this mark.
Lost(x) == x > 0 /\ \A r \in Server(rels) : r.gen < x

\* The handler is about to write the Application, and then to overwrite the
\* template with an older one.
Writes == job.busy /\ job.update /\ fresh

Reverting == Writes /\ job.app.aborting

\* An abort is due, or will be: a mark that is or will be stored is lost, or
\* will be when the doomed releases are removed.
Owing ==
    \/ ~Reverting /\ Lost(Server(app).hog)
    \/ Writes /\ Lost(job.app.hog)
    \/ job.busy /\ \E d \in job.doomed : Lost(d.gen + 1)

\* Each abort done, in progress or due has a deletion of its own.
Warranted ==
    /\ reverts \in Nat /\ deletes \in Nat
    /\ reverts <= deletes
    /\ Reverting \/ Owing => reverts < deletes
    /\ Reverting /\ Owing => reverts + 1 < deletes

LEMMA WarrantedInit == Init => Warranted
  <1> SUFFICES ASSUME Init PROVE Warranted
    OBVIOUS
  <1>1. PICK t \in Template : app = <<[tmpl |-> t, hog |-> 0, aborting |-> FALSE]>>
    BY DEF Init
  <1>2. Server(app).hog = 0
    BY <1>1 DEF Server
  <1>3. job.busy = FALSE /\ reverts = 0 /\ deletes = 0
    BY DEF Init, Idle
  <1> QED  BY <1>2, <1>3 DEF Warranted, Owing, Reverting, Writes, Lost

LEMMA WarrantedNext == Prompt /\ Inv /\ Warranted /\ [Next]_vars => Warranted'
  <1> SUFFICES ASSUME Prompt, Inv, Warranted, [Next]_vars PROVE Warranted'
    OBVIOUS
  <1>0. /\ IsHistory(app) /\ IsApplication(Server(app))
        /\ IsHistory(rels) /\ AreReleases(Server(rels))
        /\ IsJob(job) /\ DoomedKnown
    BY Ends DEF Inv, Shapes
  <1>1. CASE SyncApplication
    <2>1. /\ Starts /\ Server(rels) \subseteq Server(rels')
          /\ IsHistory(rels') /\ AreReleases(Server(rels'))
          /\ job = Idle /\ UNCHANGED <<app, reverts, deletes>> /\ fresh' = (Len(app) = 1)
      <3>1. Starts /\ Server(rels) \subseteq Server(rels') /\ ReleasesStep
        BY <1>1, SyncStep
      <3>2. IsHistory(rels') /\ \A i \in 1 .. Len(rels') : AreReleases(rels'[i])
        BY <3>1, ReleasesKept
      <3> QED  BY <1>1, <3>1, <3>2, Ends DEF SyncApplication
    <2>2. ~Reverting /\ (Lost(Server(app).hog) => Owing)
      BY <2>1 DEF Reverting, Writes, Owing, Idle
    <2>3. \A x : Lost(x)' => Lost(x)
      BY <2>1 DEF Lost, Server
    <2>4. CASE job' = Idle
      BY <2>1, <2>2, <2>3, <2>4 DEF Warranted, Reverting, Writes, Owing, Idle
    <2>5. ASSUME job' # Idle
          PROVE  /\ ~(job'.update /\ Lost(job.app.hog)')
                 /\ ~\E d \in job'.doomed : Lost(d.gen + 1)'
                 /\ Reverting' => Lost(Server(app).hog)
      <3> PICK last \in Newest(Server(rels')) :
             /\ job'.doomed \subseteq Server(rels') \ {last}
             /\ job'.update => job'.app.hog = last.gen
             /\ job'.app.aborting => last.gen < Cached(app).hog
        BY <2>1, <2>5 DEF Starts
      <3>1. last \in Server(rels') /\ last.gen \in Nat /\ \A r \in Server(rels') : r.gen \in Nat /\ r.gen <= last.gen
        BY <2>1 DEF Newest, AreReleases, IsRelease
      <3>2. ~Lost(last.gen)'
        BY <3>1 DEF Lost, Server
      <3>3. \A d \in job'.doomed : ~Lost(d.gen + 1)'
        <4> SUFFICES ASSUME NEW d \in job'.doomed PROVE ~Lost(d.gen + 1)'
          OBVIOUS
        <4>1. d \in Server(rels') /\ d # last /\ d.gen # last.gen
          BY <2>1, <3>1, SyncStep, ReleasesKept, <1>1 DEF Distinct, Server
        <4>2. d.gen + 1 <= last.gen
          BY <3>1, <4>1
        <4> QED  BY <3>1, <4>2 DEF Lost, Server
      <3>4. Reverting' => Lost(Server(app).hog)
        <4> SUFFICES ASSUME Reverting' PROVE Lost(Server(app).hog)
          OBVIOUS
        <4>1. Cached(app) = Server(app) /\ last.gen < Server(app).hog
          BY <1>0, <2>1, Ends DEF Reverting, Writes
        <4> QED  BY <1>0, <2>1, <3>1, <4>1 DEF Lost, IsApplication
      <3> QED  BY <3>2, <3>3, <3>4
    <2>6. ASSUME job' # Idle PROVE Owing' => ~Reverting' /\ Lost(Server(app).hog)
      BY <2>1, <2>3, <2>5, <2>6 DEF Owing, Writes
    <2> QED  BY <2>1, <2>2, <2>4, <2>5, <2>6 DEF Warranted
  <1>2. CASE CleanUpRelease
    <2>1. /\ IsJob(job') /\ job.busy /\ job'.busy /\ job'.doomed \subseteq job.doomed
          /\ job'.app = job.app /\ job'.update = job.update
          /\ UNCHANGED <<app, fresh, reverts, deletes>>
      BY <1>2, CleanUpStep DEF CleanUpRelease
    <2>2. \A x \in Nat : Lost(x)' => Lost(x) \/ \E d \in job.doomed : Lost(d.gen + 1)
      <3> SUFFICES ASSUME NEW x \in Nat, Lost(x)', ~Lost(x)
                   PROVE  \E d \in job.doomed : Lost(d.gen + 1)
        OBVIOUS
      <3>1. PICK d \in job.doomed :
               Server(rels') = Server(rels) \ {q \in Server(rels) : SameName(d, q)}
        BY <1>2, CleanUpStep DEF Lost, Server
      <3>2. d.gen \in Nat /\ \A r \in Server(rels) : r.gen \in Nat
        BY <1>0, <2>1 DEF IsJob, Idle, AreReleases, IsRelease
      <3>3. PICK q \in Server(rels) : ~(q.gen < x)
        BY DEF Lost
      <3>4. \A r \in Server(rels) : SameName(d, r) => r.gen = d.gen
        BY <1>0, <2>1 DEF DoomedKnown
      <3>5. x <= d.gen
        BY <3>1, <3>2, <3>3, <3>4 DEF Lost, Server
      <3>6. \A r \in Server(rels) : r.gen < d.gen + 1
        BY <3>1, <3>2, <3>4, <3>5 DEF Lost, Server
      <3> QED  BY <3>2, <3>6 DEF Lost
    <2>3. Writes' = Writes /\ Reverting' = Reverting
      BY <2>1 DEF Writes, Reverting
    <2>4. /\ Server(app).hog \in Nat /\ job.app.hog \in Nat /\ \A d \in job.doomed : d.gen + 1 \in Nat
      BY <1>0, <2>1 DEF IsJob, Idle, IsApplication, AreReleases, IsRelease
    <2>5. Owing' => Owing
      BY <2>1, <2>2, <2>3, <2>4 DEF Owing
    <2> QED  BY <2>1, <2>3, <2>5 DEF Warranted
  <1>3. CASE UpdateApplication
    <2>1. job.busy /\ job' = Idle /\ ~Writes' /\ ~Reverting' /\ UNCHANGED <<rels, deletes>>
      BY <1>3 DEF UpdateApplication, Writes, Reverting, Idle
    <2>2. \A x : Lost(x)' = Lost(x)
      BY <2>1 DEF Lost
    <2>3. Owing' => Lost(Server(app').hog)
      BY <2>1, <2>2 DEF Owing, Server, Idle
    <2>4. CASE Writes
      <3>1. Server(app') = job.app /\ reverts' = IF Reverting THEN reverts + 1 ELSE reverts
        BY <1>0, <1>3, <2>4, Pushed DEF UpdateApplication, Writes, Reverting
      <3>2. Owing' => Owing
        BY <2>3, <2>4, <3>1 DEF Owing
      <3> QED  BY <2>1, <3>1, <3>2 DEF Warranted
    <2>5. CASE ~Writes
      <3>1. UNCHANGED <<app, reverts>> /\ ~Reverting
        BY <1>3, <2>5 DEF UpdateApplication, Writes, Reverting
      <3>2. Owing' => Owing
        BY <2>3, <3>1 DEF Owing
      <3> QED  BY <2>1, <3>1, <3>2 DEF Warranted
    <2> QED  BY <2>4, <2>5
  <1>4. CASE Crash
    <2>1. job' = Idle /\ ~Writes' /\ ~Reverting' /\ UNCHANGED <<app, rels, reverts, deletes>>
      BY <1>4 DEF Crash, Writes, Reverting, Idle
    <2>2. Owing' => Owing \/ Reverting
      BY <2>1 DEF Owing, Lost, Idle
    <2> QED  BY <2>1, <2>2 DEF Warranted
  <1>5. ASSUME NEW t \in Template, EditTemplate(t) PROVE Warranted'
    <2>1. UNCHANGED <<rels, job, reverts, deletes>> /\ ~Writes' /\ ~Reverting'
      BY <1>5 DEF EditTemplate, Writes, Reverting
    <2>2. Server(app').hog = Server(app).hog
      <3> DEFINE a == [Server(app) EXCEPT !.tmpl = t]
      <3>1. a.hog = Server(app).hog
        BY <1>0 DEF IsApplication
      <3>2. app' = Append(app, a)
        BY <1>5 DEF EditTemplate
      <3> HIDE DEF a
      <3> QED  BY <1>0, <3>1, <3>2, Appended
    <2>3. Owing' => Owing \/ Reverting
      BY <2>1, <2>2 DEF Owing, Lost, Server
    <2> QED  BY <2>1, <2>3 DEF Warranted
  <1>6. ASSUME NEW r \in Server(rels), DeleteRelease(r) PROVE Warranted'
    <2>1. UNCHANGED <<job, fresh, app, reverts>> /\ deletes' = deletes + 1
      BY <1>6 DEF DeleteRelease
    <2>2. Reverting' = Reverting
      BY <2>1 DEF Reverting, Writes
    <2> QED  BY <2>1, <2>2 DEF Warranted
  <1>7. ASSUME NEW r \in Server(rels), CompleteRelease(r) PROVE Warranted'
    <2> DEFINE s == [r EXCEPT !.complete = TRUE]
    <2>1. /\ rels' = Append(rels, (Server(rels) \ {r}) \union {s})
          /\ UNCHANGED <<job, fresh, app, reverts, deletes>>
      BY <1>7 DEF CompleteRelease
    <2>2. Server(rels') = (Server(rels) \ {r}) \union {s}
      BY <1>0, <2>1, Appended
    <2>3. s.gen = r.gen
      BY <1>0, ReleaseEdit DEF AreReleases
    <2> HIDE DEF s
    <2>4. \A x : Lost(x)' = Lost(x)
      BY <2>2, <2>3 DEF Lost, Server
    <2> QED  BY <2>1, <2>4 DEF Warranted, Owing, Reverting, Writes
  <1>8. CASE DeliverApplication
    <2>1. UNCHANGED <<rels, job, fresh, reverts, deletes>> /\ Server(app') = Server(app)
      BY <1>0, <1>8, Delivered DEF DeliverApplication
    <2> QED  BY <2>1 DEF Warranted, Owing, Reverting, Writes, Lost, Server
  <1>9. CASE DeliverReleases
    <2>1. UNCHANGED <<app, job, fresh, reverts, deletes>> /\ Server(rels') = Server(rels)
      BY <1>0, <1>9, Delivered DEF DeliverReleases
    <2> QED  BY <2>1 DEF Warranted, Owing, Reverting, Writes, Lost, Server
  <1>10. CASE UNCHANGED vars
    BY <1>10 DEF vars, Warranted, Owing, Reverting, Writes, Lost
  <1> QED
    BY <1>1, <1>2, <1>3, <1>4, <1>5, <1>6, <1>7, <1>8, <1>9, <1>10 DEF Next

\* Under the same condition the controller overwrites the user's template with
\* an older one (the abort in processApplication) at most once for each release
\* that users delete, whatever it computes again after a conflict or a crash
\* and whatever the clean up deletes.
THEOREM RevertsNeedDeletions == ASSUME Prompt PROVE Spec => []RevertsWarranted
  <1>1. Inv /\ Warranted => RevertsWarranted
    BY DEF Warranted, RevertsWarranted
  <1>2. Inv /\ Warranted /\ [Next]_vars => (Inv /\ Warranted)'
    BY InvNext, WarrantedNext
  <1> QED  BY InvInit, WarrantedInit, <1>1, <1>2, PTL DEF Spec

=============================================================================
