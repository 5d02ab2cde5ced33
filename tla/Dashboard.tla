------------------------------ MODULE Dashboard ------------------------------
(***************************************************************************)
(* The web page, src/web/app.js, against the routes of app.py: it refreshes *)
(* itself every three seconds and after each of the user's requests, and   *)
(* nothing cancels or orders the refreshes that overlap.                   *)
(*                                                                         *)
(* A refresh asks three routes at once.  Each is served at a moment of its *)
(* own, with the engine as it is then, and the page changes when all three *)
(* answers have arrived (Promise.all).  A request of the user (job) is     *)
(* sent, served and settled, and then refreshes the page in the same try   *)
(* block.  The engine is what the page can tell of it: how many logs it    *)
(* has accepted and stored, and the last log whose text /logs cannot show. *)
(***************************************************************************)
EXTENDS Naturals, FiniteSets

CONSTANTS
  Submits, Clicks,      \* the submissions and the clicks on "process"
  Timers,               \* the refreshes of the timer that can overlap
  MaxTroubles,          \* bound: losses on the network, database outages and ends of one
  MaxOverlap,           \* bound: refreshes under way at the same time
  None                  \* no answer yet

Jobs == Submits \cup Clicks
Routes == {"health", "metrics", "logs"}

ASSUME DashboardAssumption ==
  /\ Submits \cap Clicks = {} /\ Jobs \cap Timers = {}
  /\ Timers # {}
  /\ MaxTroubles \in Nat /\ MaxOverlap \in Nat \ {0}

VARIABLES
  engine,               \* what the routes can say of the engine
  dbUp,                 \* the health check's ping succeeds
  job,                  \* where each request of the user is
  phase, got,           \* where each refresh is; its answers, by route
  page,                 \* the counters and the table shown
  badge,                \* the health badge
  note,                 \* the last report in each area, and whose it is
  accepted,             \* auxiliary: the submissions whose log was queued
  troubles              \* how often the network or the database failed so far

serverVars == <<engine, dbUp>>
refreshVars == <<phase, got>>
dashVars == <<serverVars, refreshVars, job, page, badge, note, accepted, troubles>>

Engine == [ingested : Nat, stored : Nat, odd : Nat]
Shown == [ingested : Nat, stored : Nat]
Area(j) == IF j \in Submits THEN "submit" ELSE "process"

Refreshers == Jobs \cup Timers
Unanswered == [route \in Routes |-> None]

DashTypeOK ==
  /\ engine \in Engine /\ engine.stored <= engine.ingested
  /\ job \in [Jobs -> {"none", "sent", "ok", "error", "refreshing", "over"}]
  /\ page \in [metrics : Shown, logs : Shown]
  /\ badge \in {"checking", "ok", "error"}
  /\ phase \in [Refreshers -> {"idle", "asked", "failed"}]
  /\ got \in [Refreshers -> [Routes -> Shown \cup {None}]]
  /\ \A j \in Jobs : phase[j] # "idle" <=> job[j] = "refreshing"
  /\ accepted \subseteq Submits
  /\ troubles \in 0..MaxTroubles

Now == [ingested |-> engine.ingested, stored |-> engine.stored]

DashInit ==
  /\ engine = [ingested |-> 0, stored |-> 0, odd |-> 0] /\ dbUp \in BOOLEAN /\ troubles = 0
  /\ job = [j \in Jobs |-> "none"]
  /\ phase = [r \in Refreshers |-> "idle"]
  /\ got = [r \in Refreshers |-> Unanswered]
  /\ page = [metrics |-> Now, logs |-> Now]
  /\ badge = "checking"
  /\ note = [a \in {"submit", "process"} |-> <<"", "">>]
  /\ accepted = {}

-----------------------------------------------------------------------------
(* The server                                                              *)

Readable == engine.odd <= engine.stored

(* What a batch may leave: nothing is stored while the database is down. *)
Batch(e) == {[e EXCEPT !.stored = n] : n \in IF dbUp THEN e.stored..e.ingested ELSE {e.stored}}

Added(odd) ==
  [engine EXCEPT !.ingested = @ + 1, !.odd = IF odd THEN engine.ingested + 1 ELSE @]

(* The database server goes down or comes back. *)
Flip ==
  /\ troubles < MaxTroubles
  /\ troubles' = troubles + 1
  /\ dbUp' = ~dbUp
  /\ UNCHANGED <<engine, refreshVars, job, page, badge, note, accepted>>

(* post_logs: the log is queued, and may start a batch; the status is 200, *)
(* or 500 if that batch failed.  Or it is refused.                          *)
ServeSubmit(j) ==
  /\ job[j] = "sent" /\ j \in Submits
  /\ \/ \E ok \in {TRUE, dbUp}, odd \in BOOLEAN :
          /\ engine' \in Batch(Added(odd))
          /\ accepted' = accepted \cup {j}
          /\ job' = [job EXCEPT ![j] = IF ok THEN "ok" ELSE "error"]
     \/ /\ job' = [job EXCEPT ![j] = "error"]
        /\ UNCHANGED <<engine, accepted>>
  /\ UNCHANGED <<dbUp, refreshVars, page, badge, note, troubles>>

(* process: a batch, with status 500 if it fails. *)
ServeProcess(j) ==
  /\ job[j] = "sent" /\ j \in Clicks
  /\ LET empty == engine.ingested = engine.stored IN
     /\ engine' \in Batch(engine)
     /\ dbUp /\ ~empty => engine' # engine
     /\ job' = [job EXCEPT ![j] = IF dbUp \/ empty THEN "ok" ELSE "error"]
  /\ UNCHANGED <<dbUp, refreshVars, page, badge, note, accepted, troubles>>

(* Mutant of Answers: health is "degraded" as long as logs are pending. *)
AnswersWhenEmpty(route) == route # "health" \/ engine.stored = engine.ingested

(* health answers 503 when degraded, get_logs 500 when its text does not   *)
(* fit or cannot be decoded.                                               *)
Answers(route) == (route = "health" => dbUp) /\ (route = "logs" => Readable)

(* Mutant of Body: the answers come from a cache, as old as the page is. *)
BodyCached(route) ==
  IF route = "health" THEN [ingested |-> 0, stored |-> 0] ELSE page[route]

(* Every success of health has the same body. *)
Body(route) == IF route = "health" THEN [ingested |-> 0, stored |-> 0] ELSE Now

(* One route is served.  The first failure decides Promise.all; of health  *)
(* only the success matters.                                               *)
Serve(r, route) ==
  /\ phase[r] = "asked"
  /\ got[r][route] = None
  /\ IF Answers(route)
     THEN /\ got' = [got EXCEPT ![r][route] = Body(route)]
          /\ UNCHANGED phase
     ELSE /\ got' = [got EXCEPT ![r] = Unanswered]
          /\ phase' = [phase EXCEPT ![r] = "failed"]
  /\ UNCHANGED <<serverVars, job, page, badge, note, accepted, troubles>>

(* The network loses a request, or the answer to one that was served. *)
Lose ==
  /\ troubles < MaxTroubles
  /\ troubles' = troubles + 1
  /\ \/ \E r \in Refreshers :
          /\ phase[r] = "asked"
          /\ phase' = [phase EXCEPT ![r] = "failed"]
          /\ got' = [got EXCEPT ![r] = Unanswered]
          /\ UNCHANGED job
     \/ \E j \in Jobs :
          /\ job[j] \in {"sent", "ok"}
          /\ job' = [job EXCEPT ![j] = "error"]
          /\ UNCHANGED refreshVars
  /\ UNCHANGED <<serverVars, page, badge, note, accepted>>

-----------------------------------------------------------------------------
(* The page                                                                *)

(* The user submits the form or clicks "process". *)
Press(j) ==
  /\ job[j] = "none"
  /\ job' = [job EXCEPT ![j] = "sent"]
  /\ UNCHANGED <<serverVars, refreshVars, page, badge, note, accepted, troubles>>

(* refreshMetrics asks its three routes. *)
Ask(r) ==
  /\ Cardinality({u \in Refreshers : phase[u] # "idle"}) < MaxOverlap
  /\ phase' = [phase EXCEPT ![r] = "asked"]
  /\ UNCHANGED got

(* Mutant of Settle: the answer is kept in a variable that the requests    *)
(* share, so one may take the answer of another for its own.               *)
SettleShared(j) ==
  /\ job[j] \in {"ok", "error"}
  /\ \/ /\ \E i \in Jobs : job[i] = "ok"
        /\ note' = [note EXCEPT ![Area(j)] = <<"done", j>>]
        /\ job' = [job EXCEPT ![j] = "refreshing"]
        /\ Ask(j)
     \/ /\ \E i \in Jobs : job[i] = "error"
        /\ note' = [note EXCEPT ![Area(j)] = <<"failed", j>>]
        /\ job' = [job EXCEPT ![j] = "over"]
        /\ UNCHANGED refreshVars
  /\ UNCHANGED <<serverVars, page, badge, accepted, troubles>>

(* Mutant of Settle: an unhandled rejection, no catch. *)
SettleUnlessFailed(j) ==
  /\ job[j] = "ok"
  /\ note' = [note EXCEPT ![Area(j)] = <<"done", j>>]
  /\ job' = [job EXCEPT ![j] = "refreshing"]
  /\ Ask(j)
  /\ UNCHANGED <<serverVars, page, badge, accepted, troubles>>

(* The first await of submitLog or triggerProcess: success is reported and *)
(* the refresh begins, or the failure is reported.                         *)
Settle(j) ==
  /\ \/ /\ job[j] = "ok"
        /\ note' = [note EXCEPT ![Area(j)] = <<"done", j>>]
        /\ job' = [job EXCEPT ![j] = "refreshing"]
        /\ Ask(j)
     \/ /\ job[j] = "error"
        /\ note' = [note EXCEPT ![Area(j)] = <<"failed", j>>]
        /\ job' = [job EXCEPT ![j] = "over"]
        /\ UNCHANGED refreshVars
  /\ UNCHANGED <<serverVars, page, badge, accepted, troubles>>

(* Mutant of Tick: the timer is cleared by an error. *)
TickUntilError(t) ==
  /\ badge # "error"
  /\ phase[t] = "idle"
  /\ Ask(t)
  /\ UNCHANGED <<serverVars, job, page, badge, note, accepted, troubles>>

(* The page is loaded, or the interval is over. *)
Tick(t) ==
  /\ phase[t] = "idle"
  /\ Ask(t)
  /\ UNCHANGED <<serverVars, job, page, badge, note, accepted, troubles>>

RefreshOver(r) ==
  /\ phase' = [phase EXCEPT ![r] = "idle"]
  /\ got' = [got EXCEPT ![r] = Unanswered]

(* Mutant of JobOver: nobody awaits the refresh of a job. *)
JobStays(r) == job' = job

JobOver(r) == job' = IF r \in Jobs THEN [job EXCEPT ![r] = "over"] ELSE job

(* All three answers are there. *)
Resolve(r) ==
  /\ \A route \in Routes : got[r][route] # None
  /\ page' = [metrics |-> got[r]["metrics"], logs |-> got[r]["logs"]]
  /\ badge' = "ok"
  /\ RefreshOver(r)
  /\ JobOver(r)
  /\ UNCHANGED <<serverVars, note, accepted, troubles>>

(* One of them has failed; the page stays as it is, and the catch of the   *)
(* timer, or of the whole job, reports it.                                 *)
Reject(r) ==
  /\ phase[r] = "failed"
  /\ RefreshOver(r)
  /\ IF r \in Timers
     THEN badge' = "error" /\ UNCHANGED note
     ELSE note' = [note EXCEPT ![Area(r)] = <<"failed", r>>] /\ UNCHANGED badge
  /\ JobOver(r)
  /\ UNCHANGED <<serverVars, page, accepted, troubles>>

GoesOn(r) == (\E route \in Routes : Serve(r, route)) \/ Resolve(r) \/ Reject(r)
JobGoesOn(j) == ServeSubmit(j) \/ ServeProcess(j) \/ Settle(j)

DashNext ==
  \/ Flip \/ Lose
  \/ \E j \in Jobs : Press(j) \/ JobGoesOn(j)
  \/ \E t \in Timers : Tick(t)
  \/ \E r \in Refreshers : GoesOn(r)

(* The interval fires, and what was sent is answered or fails.  Nobody has *)
(* to press a button.                                                      *)
DashSpec ==
  /\ DashInit /\ [][DashNext]_dashVars
  /\ \A t \in Timers : WF_dashVars(Tick(t))
  /\ \A r \in Refreshers : WF_dashVars(GoesOn(r))
  /\ \A j \in Jobs : WF_dashVars(JobGoesOn(j))

-----------------------------------------------------------------------------
(* "Log submitted successfully." stands under the form only if the log it  *)
(* is about was queued, however the answers of the user's requests that    *)
(* are under way at the same time, and of their refreshes, overtake each   *)
(* other and fail.                                                         *)
SuccessIsTrue ==
  note["submit"][1] = "done" => note["submit"][2] \in accepted

(* As long as the database answers, every pending text can be shown and    *)
(* nothing is lost, a log that was queued is not reported as failed, and   *)
(* the badge shows no error.  (With the database down it is: the refresh   *)
(* after the submission fails with it.)                                    *)
Calm == troubles = 0 /\ dbUp /\ engine.odd = 0

HonestWhenCalm ==
  Calm => /\ badge # "error"
          /\ note["submit"][1] = "failed" => note["submit"][2] \notin accepted

(* While the engine rests no answer gets old on its way, and only a refresh *)
(* that carries an old one can put an older picture on the page, each once: *)
(* however the refreshes overtake each other, what the page shows becomes  *)
(* false at most as often as there were such refreshes under way.          *)
Picture == [metrics |-> Now, logs |-> Now]
Stale ==
  {r \in Refreshers :
     \E route \in Routes \ {"health"} : got[r][route] \notin {None, Now}}

OldAnswersRunOut ==
  [][Now' = Now =>
       /\ Stale' \subseteq Stale
       /\ page' = page \/ page' = Picture' \/ Stale' # Stale]_dashVars

(* Every press of a button is answered by a report in its area. *)
JobsEnd == \A j \in Jobs : job[j] = "sent" ~> job[j] = "over"

(* A late answer of an old refresh may overwrite a newer one, but not for  *)
(* good: once the engine rests, the database answers and every pending     *)
(* text can be shown, the page comes to show the engine as it is, and      *)
(* keeps doing so, whatever failed before.                                 *)
PageCatchesUp ==
  <>[](dbUp /\ Readable) =>
    <>[](page = Picture /\ badge = "ok")

=============================================================================
