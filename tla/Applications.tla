---------------------------- MODULE Applications ----------------------------
(***************************************************************************)
(* The application controller (pkg/controller/application): it turns the   *)
(* edits of an Application's template into Releases, aborts a rollout      *)
(* whose Release was deleted, and removes superseded Releases.             *)
(*                                                                         *)
(* As in Rollout, an API object is the history of its versions from the    *)
(* cached one (Head) to the stored one (Last).  All the Releases of the    *)
(* application are one history of sets, for one watch delivers them in     *)
(* order.  A Release is named by its template and iteration.               *)
(***************************************************************************)
EXTENDS Integers, Sequences, FiniteSets

CONSTANTS
    Template,    \* the release environments users write
    Limit,       \* .spec.revisionHistoryLimit
    Prompt,      \* do Release events arrive before the next sync starts?
    MaxEdits,    \* bound: how many times users edit the template
    MaxDeletes,  \* bound: how many Releases users delete
    MaxFaults,   \* bound: how many calls fail or handlers crash
    AppLag,      \* bound: how many versions the Application cache is behind
    RelLag       \* bound: how many versions the Release cache is behind

ASSUME ApplicationsAssumption ==
    /\ Template # {}
    /\ Limit \in Nat /\ Prompt \in BOOLEAN
    /\ MaxEdits \in Nat /\ MaxDeletes \in Nat /\ MaxFaults \in Nat
    /\ AppLag \in Nat /\ RelLag \in Nat

VARIABLES
    app,    \* history of the Application: [tmpl, hog, aborting]
    rels,   \* history of the set of its Releases: [tmpl, iter, gen, complete]
    job,    \* the handler's own copy, and what it has left to do
    fresh,  \* would the handler's Update pass the resourceVersion check?
    reverts,  \* history: how many times an abort overwrote the stored template
    edits, deletes, faults

vars == <<app, rels, job, fresh, reverts, edits, deletes, faults>>

Server(h) == h[Len(h)]

Cached(h) == Head(h)

Push(h, v) == IF v = Server(h) THEN h ELSE Append(h, v)

Idle == [busy |-> FALSE]

Fault == faults < MaxFaults /\ faults' = faults + 1

-----------------------------------------------------------------------------
(* Helpers of the handler.                                                  *)

\* SortByGeneration*: releases of equal generation come in any order.
Newest(S) == {r \in S : \A q \in S : q.gen <= r.gen}

SameName(r, q) == r.tmpl = q.tmpl /\ r.iter = q.iter

\* Faulty variant: the iteration is not increased.
NextIterationSame(seen, t) == 0

\* releaseNameForApplication: one more than the highest iteration seen.
NextIteration(seen, t) ==
    LET used == {r.iter : r \in {q \in seen : q.tmpl = t}}
    IN  IF used = {} THEN 0 ELSE 1 + CHOOSE i \in used : \A j \in used : j <= i

\* cleanUpReleasesForApplication: the incomplete releases but the last, and
\* the oldest complete ones beyond the limit.  Ties are broken either way.
Doomed(list, last) ==
    LET others   == list \ {last}
        complete == {r \in others : r.complete}
        limit    == IF Limit > 1 THEN Limit ELSE 1
        overhead == Cardinality(complete) - limit
        Oldest(D) == /\ Cardinality(D) = (IF overhead > 0 THEN overhead ELSE 0)
                     /\ \A r \in D, q \in complete \ D : r.gen <= q.gen
    IN  {(others \ complete) \union D : D \in {D \in SUBSET complete : Oldest(D)}}

\* Which of them are removed next: a loop over the incomplete ones, then one
\* over the complete ones, each from the oldest on.
NextDoomed(D) ==
    {r \in D : \A q \in D : \/ ~r.complete /\ q.complete
                            \/ r.complete = q.complete /\ r.gen <= q.gen}

-----------------------------------------------------------------------------
(* syncApplication and processApplication.                                  *)

\* The rest of a handler that leaves the list of releases in list: the clean
\* up is deferred to every exit path; without an error the Update follows.
Continue(list, copy, ok) ==
    \E last \in Newest(list) : \E doomed \in Doomed(list, last) :
        job' = [busy |-> TRUE, app |-> copy, update |-> ok, doomed |-> doomed]

\* A Release is created, unless the name is taken or the call fails.
CreateRelease(seen, copy, gen) ==
    LET new == [tmpl |-> copy.tmpl, iter |-> NextIteration(seen, copy.tmpl),
                gen |-> gen, complete |-> FALSE]
        taken == \E r \in Server(rels) : SameName(r, new)
    IN  \/ /\ ~taken
           /\ rels' = Push(rels, Server(rels) \union {new})
           /\ Continue(seen \union {new}, [copy EXCEPT !.hog = gen], TRUE)
           /\ UNCHANGED faults
        \/ /\ IF taken THEN UNCHANGED faults ELSE Fault
           /\ UNCHANGED rels
           /\ IF seen = {} THEN job' = Idle ELSE Continue(seen, copy, FALSE)

\* No contender: this is the application's first release.
CreateFirst ==
    /\ Cached(rels) = {}
    /\ CreateRelease({}, [Cached(app) EXCEPT !.aborting = FALSE], 0)

\* Faulty variant: the high water mark itself counts as older.
AbortAtMark ==
    /\ \E contender \in Newest(Cached(rels)) :
          /\ contender.gen <= Cached(app).hog
          /\ Continue(Cached(rels),
                      [tmpl |-> contender.tmpl, hog |-> contender.gen, aborting |-> TRUE], TRUE)
    /\ UNCHANGED <<rels, faults>>

\* The contender is older than the newest release observed: that one was
\* deleted, so the contender's environment is copied back.
Abort ==
    /\ \E contender \in Newest(Cached(rels)) :
          /\ contender.gen < Cached(app).hog
          /\ Continue(Cached(rels),
                      [tmpl |-> contender.tmpl, hog |-> contender.gen, aborting |-> TRUE], TRUE)
    /\ UNCHANGED <<rels, faults>>

\* The template is the contender's: nothing to create.
KeepContender ==
    /\ \E contender \in Newest(Cached(rels)) :
          /\ contender.gen >= Cached(app).hog
          /\ contender.tmpl = Cached(app).tmpl
          /\ Continue(Cached(rels),
                      [Cached(app) EXCEPT !.hog = contender.gen, !.aborting = FALSE], TRUE)
    /\ UNCHANGED <<rels, faults>>

\* Faulty variant: the new release gets the contender's generation.
CreateNextSame ==
    \E contender \in Newest(Cached(rels)) :
        /\ contender.gen >= Cached(app).hog
        /\ contender.tmpl # Cached(app).tmpl
        /\ CreateRelease(Cached(rels), [Cached(app) EXCEPT !.aborting = FALSE], contender.gen)

\* The template was edited: a release of the next generation.
CreateNext ==
    \E contender \in Newest(Cached(rels)) :
        /\ contender.gen >= Cached(app).hog
        /\ contender.tmpl # Cached(app).tmpl
        /\ CreateRelease(Cached(rels), [Cached(app) EXCEPT !.aborting = FALSE], contender.gen + 1)

SyncApplication ==
    /\ job = Idle
    /\ Prompt => Len(rels) = 1
    /\ CreateFirst \/ Abort \/ KeepContender \/ CreateNext
    /\ fresh' = (Len(app) = 1)
    /\ Len(rels') <= RelLag + 1
    /\ UNCHANGED <<app, reverts, edits, deletes>>

\* One Delete.  The second loop of the clean up bails out on any error.
CleanUpRelease ==
    /\ job.busy
    /\ \E r \in NextDoomed(job.doomed) :
          LET gone == {q \in Server(rels) : SameName(r, q)}
              rest == job.doomed \ {r}
          IN  \/ /\ gone # {}
                 /\ rels' = Push(rels, Server(rels) \ gone)
                 /\ job' = [job EXCEPT !.doomed = rest]
                 /\ UNCHANGED faults
              \/ /\ IF gone = {} THEN UNCHANGED faults ELSE Fault
                 /\ job' = [job EXCEPT !.doomed = IF r.complete THEN {} ELSE rest]
                 /\ UNCHANGED rels
    /\ Len(rels') <= RelLag + 1
    /\ UNCHANGED <<app, fresh, reverts, edits, deletes>>

\* The Update of the Application, refused if the copy is out of date.
UpdateApplication ==
    /\ job.busy /\ job.doomed = {}
    /\ app' = IF job.update /\ fresh THEN Push(app, job.app) ELSE app
    /\ reverts' = IF job.update /\ fresh /\ job.app.aborting THEN reverts + 1 ELSE reverts
    /\ Len(app') <= AppLag + 1
    /\ job' = Idle
    /\ UNCHANGED <<rels, fresh, edits, deletes, faults>>

\* Shipper crashes and restarts: what was in progress is forgotten.
Crash ==
    /\ job.busy /\ Fault
    /\ job' = Idle
    /\ UNCHANGED <<app, rels, fresh, reverts, edits, deletes>>

-----------------------------------------------------------------------------
(* Users, the release controller and the informers.                         *)

EditTemplate(t) ==
    /\ edits < MaxEdits /\ edits' = edits + 1
    /\ t # Server(app).tmpl
    /\ app' = Append(app, [Server(app) EXCEPT !.tmpl = t])
    /\ Len(app') <= AppLag + 1
    /\ fresh' = FALSE
    /\ UNCHANGED <<rels, job, reverts, deletes, faults>>

\* A user aborts a rollout by deleting the newest release.
DeleteRelease(r) ==
    /\ deletes < MaxDeletes /\ deletes' = deletes + 1
    /\ r \in Newest(Server(rels))
    /\ rels' = Append(rels, Server(rels) \ {r})
    /\ Len(rels') <= RelLag + 1
    /\ UNCHANGED <<app, job, fresh, reverts, edits, faults>>

\* The release controller completes a release it works on.  A newer one may
\* be there that is not scheduled yet.
CompleteRelease(r) ==
    /\ ~r.complete
    /\ rels' = Append(rels, (Server(rels) \ {r}) \union {[r EXCEPT !.complete = TRUE]})
    /\ Len(rels') <= RelLag + 1
    /\ UNCHANGED <<app, job, fresh, reverts, edits, deletes, faults>>

DeliverApplication ==
    /\ Len(app) > 1 /\ app' = Tail(app)
    /\ UNCHANGED <<rels, job, fresh, reverts, edits, deletes, faults>>

DeliverReleases ==
    /\ Len(rels) > 1 /\ rels' = Tail(rels)
    /\ UNCHANGED <<app, job, fresh, reverts, edits, deletes, faults>>

-----------------------------------------------------------------------------
Init ==
    /\ \E t \in Template : app = <<[tmpl |-> t, hog |-> 0, aborting |-> FALSE]>>
    /\ rels = <<{}>>
    /\ job = Idle
    /\ fresh = FALSE
    /\ reverts = 0 /\ edits = 0 /\ deletes = 0 /\ faults = 0

Next ==
    \/ SyncApplication \/ CleanUpRelease \/ UpdateApplication \/ Crash
    \/ \E t \in Template : EditTemplate(t)
    \/ \E r \in Server(rels) : DeleteRelease(r) \/ CompleteRelease(r)
    \/ DeliverApplication \/ DeliverReleases

Spec == Init /\ [][Next]_vars

\* Every application is synced again at least once per resync period, the
\* handler runs to its end, and watch events arrive.
FairSpec ==
    /\ Spec
    /\ WF_vars(SyncApplication) /\ WF_vars(CleanUpRelease) /\ WF_vars(UpdateApplication)
    /\ WF_vars(DeliverApplication) /\ WF_vars(DeliverReleases)

-----------------------------------------------------------------------------
(* Properties.                                                              *)

\* No two releases of an application have the same generation, so that
\* "newest" means something to the controllers that sort by it.
GenerationsUnique ==
    \A r, q \in Server(rels) : r.gen = q.gen => r = q

\* An abort copies an old environment over the user's template only if the
\* newest release ever observed is really gone.
AbortIsReal ==
    [][job = Idle /\ job'.busy /\ job'.app.aborting =>
          \A r \in Server(rels) : r.gen < Cached(app).hog]_vars

\* The controller overwrites the user's template with an older one no more
\* often than users deleted a release: a deletion is answered once, although
\* its abort may be computed again after a conflict or a crash, and the clean
\* up, which deletes releases too, never causes one.
RevertsWarranted == reverts <= deletes

\* When users are done, the newest release has the environment of the
\* application's template, for good.
TemplateReleased ==
    <>[](\A r \in Newest(Server(rels)) : r.tmpl = Server(app).tmpl)

=============================================================================
