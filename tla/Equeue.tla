-------------------------------- MODULE Equeue --------------------------------
(***************************************************************************)
(* One event queue: orbistoun-kernel/src/equeue.rs, the kqueue behind      *)
(* sceKernelWaitEqueue.                                                    *)
(*                                                                         *)
(* knotes are the user events guests register, by identifier: the flags    *)
(* that say what a delivery does to one, and whether it has fired, is      *)
(* disabled, and is on the ready list.  routes are where subsystems post   *)
(* completions: a function from the routes registered to the caller's      *)
(* opaque word.  ready is the list a wait delivers from, oldest first, of  *)
(* posted events, numbered in the order they were posted, and of knotes.   *)
(*                                                                         *)
(* asking[t] holds the registrations whose sources t asks, without the     *)
(* queue's lock, before it would block; asked[t] says it did.  draining is *)
(* a delete between the table and the state.  Histories: sent[r] numbers   *)
(* the posts to r since it was registered, got[r] those delivered, gone[t] *)
(* the routes removed while t asks their sources, and stale is set when a  *)
(* removed registration gets its event.                                    *)
(***************************************************************************)
EXTENDS BlockingCall, FiniteSets, SequencesExt

CONSTANTS
  Idents,       \* identifiers of user events
  Changes,      \* the changes guests apply to them
  Routes,       \* where subsystems post
  Filters,      \* the sets of routes one post reaches
  Coalescing,   \* routes whose post replaces one that was not collected
  Sourced,      \* routes with a source to ask
  Words,        \* opaque words of registrations
  Wanted,       \* how many events a wait asks for
  MaxPosts      \* bound on posts

ASSUME EqueueAssumption ==
  /\ Changes \subseteq [ident : Idents, add : BOOLEAN, delete : BOOLEAN,
                        able : {"keep", "enable", "disable"}, force : BOOLEAN,
                        trigger : BOOLEAN, flags : SUBSET {"oneshot", "clear", "dispatch"}]
  /\ Filters \subseteq SUBSET Routes
  /\ Sourced \subseteq Coalescing /\ Coalescing \subseteq Routes
  /\ Wanted \subseteq Nat \ {0}
  /\ MaxPosts \in Nat

VARIABLES knotes, routes, ready, draining, asked, asking, wanted,
          posts, sent, got, gone, stale

history == <<posts, sent, got, gone, stale>>
loop == <<asked, asking, wanted>>
equeue == <<knotes, routes, ready, draining, loop, history>>
vars == <<equeue, waits>>

Knote == [flags : SUBSET {"oneshot", "clear", "dispatch"},
          fired : BOOLEAN, disabled : BOOLEAN, queued : BOOLEAN]
Posted(r, w, n) == [kind |-> "posted", route |-> r, word |-> w, number |-> n]
Listed(i) == [kind |-> "knote", ident |-> i]

Partial(D, R) == UNION {[S -> R] : S \in SUBSET D}

TypeOK ==
  /\ WaitsTypeOK
  /\ knotes \in Partial(Idents, Knote)
  /\ routes \in Partial(Routes, Words)
  /\ \A k \in DOMAIN ready :
       \/ ready[k].kind = "knote" /\ ready[k].ident \in DOMAIN knotes
       \/ /\ ready[k].kind = "posted"
          /\ ready[k].route \in DOMAIN routes /\ ready[k].word \in Words
          /\ ready[k].number \in 1..posts
  /\ draining \in BOOLEAN
  /\ asked \in [Threads -> BOOLEAN]
  /\ asking \in [Threads -> Partial(Sourced, Words)]
  /\ wanted \in [Threads -> Wanted]
  /\ posts \in 0..MaxPosts
  /\ gone \in [Threads -> SUBSET Sourced]
  /\ stale \in BOOLEAN

NoFunction == [x \in {} |-> {}]

Init ==
  /\ WaitsInit
  /\ knotes = NoFunction
  /\ routes = NoFunction
  /\ ready = <<>>
  /\ draining = FALSE
  /\ asked = [t \in Threads |-> FALSE]
  /\ asking = [t \in Threads |-> NoFunction]
  /\ wanted = [t \in Threads |-> CHOOSE n \in Wanted : TRUE]
  /\ posts = 0
  /\ sent = [r \in Routes |-> <<>>]
  /\ got = [r \in Routes |-> <<>>]
  /\ gone = [t \in Threads |-> {}]
  /\ stale = FALSE

\* A function with one more point, or another value at it; and with one less.
With(f, x, v) == [y \in DOMAIN f \cup {x} |-> IF y = x THEN v ELSE f[y]]
Without(f, x) == [y \in DOMAIN f \ {x} |-> f[y]]

-----------------------------------------------------------------------------
(* apply: what a change does to the knotes and the list *)

\* touch_user: a trigger fires, and EV_CLEAR in the change resets.
Touched(k, c) ==
  [k EXCEPT !.fired = (@ \/ c.trigger) /\ "clear" \notin c.flags]

Altered(k, c) ==
  Touched([k EXCEPT !.flags = IF c.force THEN @ \cup {"oneshot"} ELSE @,
                    !.fired = @ \/ c.force,
                    !.disabled = CASE c.able = "enable"  -> FALSE
                                   [] c.able = "disable" -> TRUE
                                   [] c.able = "keep"    -> @], c)

Added(c) ==
  [flags |-> c.flags, fired |-> c.trigger, disabled |-> c.able = "disable", queued |-> FALSE]

\* enqueue_if_ready: once on the list.
Reports(k) == k.fired /\ ~k.disabled /\ ~k.queued

\* The knote is stored, and listed if the filter reports it.
Store(i, k) ==
  /\ knotes' = With(knotes, i, IF Reports(k) THEN [k EXCEPT !.queued = TRUE] ELSE k)
  /\ ready' = IF Reports(k) THEN Append(ready, Listed(i)) ELSE ready

\* A knote and its entry of the list go together.
Drop(i) ==
  /\ knotes' = Without(knotes, i)
  /\ ready' = SelectSeq(ready, LAMBDA e : e # Listed(i))

\* A change to an event nobody added, or to a queue that is gone, is refused.
Apply(t, c) ==
  /\ Calls(t)
  /\ \/ c.ident \notin DOMAIN knotes /\ c.add /\ Store(c.ident, Added(c))
     \/ c.ident \in DOMAIN knotes /\ c.delete /\ Drop(c.ident)
     \/ /\ c.ident \in DOMAIN knotes /\ ~c.delete
        /\ Store(c.ident, Altered(knotes[c.ident], c))
  /\ at' = IF ready' # <<>> /\ Last(ready').kind = "knote" THEN NotifyAll(at) ELSE at
  /\ UNCHANGED <<routes, draining, loop, history, live, until, signals>>

-----------------------------------------------------------------------------
(* Routes and posts *)

\* A second registration takes the place of the first.
AddRoute(t, r, w) ==
  /\ Calls(t)
  /\ routes' = With(routes, r, w)
  /\ UNCHANGED <<knotes, ready, draining, loop, history, waits>>

\* Registrations removed while a thread asks their sources.
Gone(R) == gone' = [t \in Threads |-> gone[t] \cup (R \cap DOMAIN asking[t])]

RemoveRoute(t, r) ==
  /\ Calls(t) /\ r \in DOMAIN routes
  /\ routes' = Without(routes, r)
  /\ ready' = SelectSeq(ready, LAMBDA e : e.kind = "posted" => e.route # r)
  /\ sent' = [sent EXCEPT ![r] = <<>>]
  /\ got' = [got EXCEPT ![r] = <<>>]
  /\ Gone({r})
  /\ UNCHANGED <<knotes, draining, loop, posts, stale, waits>>

\* Where the route's event waits to be collected, if it does.
Uncollected(list, r) ==
  {k \in DOMAIN list : list[k].kind = "posted" /\ list[k].route = r}

\* Mutant: a coalescing route queues every post.
PutEvery(list, r, e) == Append(list, e)

\* GuestEqueue::post: in the place of the route's uncollected event when it
\* coalesces and has one, at the back otherwise.
Put(list, r, e) ==
  IF r \in Coalescing /\ Uncollected(list, r) # {}
  THEN [list EXCEPT ![Min(Uncollected(list, r))] = e]
  ELSE Append(list, e)

\* An event to each route of R, with the word words has for it.
PostAll(R, words) ==
  LET order == SetToSeq(R)
      number(k) == posts + k
      Each(list, k) == Put(list, order[k], Posted(order[k], words[order[k]], number(k)))
  IN  /\ number(Len(order)) <= MaxPosts
      /\ posts' = number(Len(order))
      /\ ready' = FoldLeft(Each, ready, [k \in DOMAIN order |-> k])
      /\ sent' = [r \in Routes |-> IF r \in R
                    THEN Append(sent[r], number(CHOOSE k \in DOMAIN order : order[k] = r))
                    ELSE sent[r]]

\* Mutant: nobody is told.
PostSilently(F) ==
  /\ live /\ F \cap DOMAIN routes # {}
  /\ PostAll(F \cap DOMAIN routes, routes)
  /\ UNCHANGED <<knotes, routes, draining, loop, got, gone, stale, waits>>

\* post_event and post_filtered_event: a subsystem completes work.
Post(F) ==
  /\ live /\ F \cap DOMAIN routes # {}
  /\ PostAll(F \cap DOMAIN routes, routes)
  /\ at' = NotifyAll(at)
  /\ UNCHANGED <<knotes, routes, draining, loop, got, gone, stale, live, until, signals>>

-----------------------------------------------------------------------------
(* scan: what a wait for n events takes off the list *)

\* Mutant: a knote listed again is not marked so.
VisitUnmarked(acc, e) ==
  IF e.kind = "posted" THEN [acc EXCEPT !.out = Append(@, e)]
  ELSE LET k == acc.knotes[e.ident]
           off == [acc.knotes EXCEPT ![e.ident].queued = FALSE]
       IN  IF k.disabled \/ ~k.fired
           THEN [acc EXCEPT !.knotes = off]
           ELSE [acc EXCEPT !.out = Append(@, e), !.knotes = off, !.back = Append(@, e)]

\* One entry: a posted event is delivered; a knote is delivered unless disabled
\* or no longer reported, and then dropped, reset, disabled, or listed again.
Visit(acc, e) ==
  IF e.kind = "posted" THEN [acc EXCEPT !.out = Append(@, e)]
  ELSE LET k == acc.knotes[e.ident]
           off == [acc.knotes EXCEPT ![e.ident].queued = FALSE]
       IN  IF k.disabled \/ ("oneshot" \notin k.flags /\ ~k.fired)
           THEN [acc EXCEPT !.knotes = off]
           ELSE IF "oneshot" \in k.flags
           THEN [acc EXCEPT !.out = Append(@, e), !.knotes = Without(@, e.ident)]
           ELSE IF k.flags \cap {"clear", "dispatch"} # {}
           THEN [acc EXCEPT !.out = Append(@, e),
                            !.knotes = [off EXCEPT ![e.ident] =
                              [@ EXCEPT !.fired = @ /\ "clear" \notin k.flags,
                                        !.disabled = "dispatch" \in k.flags]]]
           ELSE [acc EXCEPT !.out = Append(@, e), !.back = Append(@, e)]

\* Entries there at the start are visited once each until there are n.
Scan(n) ==
  LET One(acc, e) == IF Len(acc.out) < n THEN Visit(acc, e)
                     ELSE [acc EXCEPT !.rest = Append(@, e)]
  IN  FoldLeft(One, [out |-> <<>>, rest |-> <<>>, back |-> <<>>, knotes |-> knotes], ready)

\* The list and the knotes as the scan leaves them.
After(s) == knotes' = s.knotes /\ ready' = s.rest \o s.back

\* The numbers of the events of a route in a list.
Numbers(list, r) ==
  LET mine == SelectSeq(list, LAMBDA e : e.kind = "posted" /\ e.route = r)
  IN  [k \in DOMAIN mine |-> mine[k].number]

-----------------------------------------------------------------------------
(* wait_events *)

Begin(t, u, n) ==
  /\ Enter(t, u)
  /\ wanted' = [wanted EXCEPT ![t] = n]
  /\ UNCHANGED <<knotes, routes, ready, draining, asked, asking, history>>

Deliver(t) ==
  LET s == Scan(wanted[t]) IN
  /\ s.out # <<>>
  /\ After(s)
  /\ got' = [r \in Routes |-> got[r] \o Numbers(s.out, r)]
  /\ Return(t)
  /\ asked' = [asked EXCEPT ![t] = FALSE]
  /\ UNCHANGED <<routes, draining, asking, wanted, posts, sent, gone, stale>>

Sources == [r \in DOMAIN routes \cap Sourced |-> routes[r]]

\* Nothing to deliver, and sources nobody asked yet: the lock is dropped.
Ask(t) ==
  LET s == Scan(wanted[t]) IN
  /\ s.out = <<>> /\ ~asked[t] /\ until[t] # "Never" /\ DOMAIN Sources # {}
  /\ After(s)
  /\ asked' = [asked EXCEPT ![t] = TRUE]
  /\ asking' = [asking EXCEPT ![t] = Sources]
  /\ gone' = [gone EXCEPT ![t] = {}]
  /\ UNCHANGED <<routes, draining, wanted, posts, sent, got, stale, waits>>

\* The sources of R have an event: posted where the route is there by now.
Answered(t, R) ==
  /\ asking[t] # NoFunction /\ R \subseteq DOMAIN asking[t]
  /\ asking' = [asking EXCEPT ![t] = NoFunction]
  /\ PostAll(R \cap DOMAIN routes, asking[t])
  /\ stale' = (stale \/ R \cap DOMAIN routes \cap gone[t] # {})
  /\ at' = IF R \cap DOMAIN routes = {} THEN at ELSE NotifyAll(at)
  /\ UNCHANGED <<knotes, routes, draining, asked, wanted, got, gone, live, until, signals>>

\* Nothing to deliver and nothing to ask, now or in a later turn.
Empty(t) ==
  LET s == Scan(wanted[t]) IN
  /\ s.out = <<>>
  /\ asked[t] \/ until[t] = "Never" \/ DOMAIN Sources = {}
  /\ After(s)
  /\ UNCHANGED <<routes, draining, asking, wanted, history>>

Sleep(t) == Empty(t) /\ FallAsleep(t) /\ asked' = [asked EXCEPT ![t] = TRUE]

\* The deadline has passed, which the clock says and not the host's report.
GiveUp(t) ==
  /\ until[t] # "Forever" /\ Empty(t) /\ Return(t)
  /\ asked' = [asked EXCEPT ![t] = FALSE]

Resume(t) ==
  /\ Turn(t) /\ asking[t] = NoFunction
  /\ Deliver(t) \/ Ask(t) \/ Sleep(t) \/ GiveUp(t)

SourcesAnswer(t) == \E R \in SUBSET Sourced : Answered(t, R)

-----------------------------------------------------------------------------
(* delete_equeue *)

Delete(t) == Destroy(t) /\ draining' = TRUE
             /\ UNCHANGED <<knotes, routes, ready, loop, history>>

\* Its events go with it; a thread waiting is not woken.
Drain ==
  /\ draining
  /\ draining' = FALSE
  /\ knotes' = NoFunction
  /\ routes' = NoFunction
  /\ ready' = <<>>
  /\ sent' = [r \in Routes |-> <<>>]
  /\ got' = [r \in Routes |-> <<>>]
  /\ Gone(Routes)
  /\ UNCHANGED <<loop, posts, stale, waits>>

Step(t) ==
  \/ \E u \in Blocking, n \in Wanted : Begin(t, u, n)
  \/ Resume(t) \/ SourcesAnswer(t)
  \/ \E c \in Changes : Apply(t, c)
  \/ \E r \in Routes : RemoveRoute(t, r) \/ \E w \in Words : AddRoute(t, r, w)
  \/ Delete(t)
  \/ (Miss(t) \/ Timeout(t) \/ Spurious(t)) /\ UNCHANGED equeue

Next == (\E t \in Threads : Step(t)) \/ (\E F \in Filters : Post(F)) \/ Drain

Spec == Init /\ [][Next]_vars

\* A thread out of the wait queue takes its next turn and sources answer.
Fairness == \A t \in Threads : WF_vars(Resume(t)) /\ WF_vars(SourcesAnswer(t))

FairSpec == Spec /\ Fairness

-----------------------------------------------------------------------------
(* Properties *)

\* The list and the knotes agree: a knote marked queued is on the list once and
\* no other is, and a knote that has fired and is enabled is on it, whatever
\* changes, scans and deletions went before (equeue.rs, register and scan).
ListIsExact ==
  /\ \A i \in Idents :
       Cardinality({k \in DOMAIN ready : ready[k] = Listed(i)}) =
         IF i \in DOMAIN knotes /\ knotes[i].queued THEN 1 ELSE 0
  /\ \A i \in DOMAIN knotes : ~Reports(knotes[i])

\* Completions posted to a route are delivered once each, in the order they were
\* posted, however many threads wait: what was delivered and what is on the
\* list is what was sent.  A coalescing route holds its newest only (equeue.rs,
\* post and scan).
Conserved ==
  \A r \in Routes :
    IF r \in Coalescing
    THEN Numbers(ready, r) = <<>> \/ Numbers(ready, r) = <<Last(sent[r])>>
    ELSE got[r] \o Numbers(ready, r) = sent[r]

\* Nobody sleeps with something to deliver (equeue.rs, push and wait_events).
NoReadySleeper == \A t \in Threads : at[t] = "sleep" => ready = <<>>

\* A thread that waits while the list is not empty comes back, or finds it
\* empty.
ReadyIsDelivered ==
  \A t \in Threads :
    (at[t] # "run" /\ ready # <<>>) ~> (at[t] = "run" \/ ready = <<>>)

\* What the comment in wait_events says: a route removed while its source was
\* asked takes nothing.
RemovedTakesNothing == ~stale
=============================================================================
