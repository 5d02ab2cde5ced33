--------------------------- MODULE Dashboard_proofs ---------------------------
(***************************************************************************)
(* What the page reports, for any number of submissions, clicks and        *)
(* overlapping refreshes, and any losses and outages: the types, that a    *)
(* success is true, that a failure is one as long as nothing went wrong,   *)
(* and how often an old answer may still be shown.                         *)
(***************************************************************************)
EXTENDS Dashboard, TLAPS

Areas == {"submit", "process"}

(* The types the properties do not need to mention. *)
MoreTypes ==
  /\ dbUp \in BOOLEAN
  /\ note \in [Areas -> {"", "done", "failed"} \X (Jobs \cup {""})]

(* Where a submission is tells whether its log is queued, and what stands  *)
(* under the form is about one that is settled.                            *)
Reports ==
  /\ \A j \in Submits : job[j] = "ok" => j \in accepted
  /\ \A j \in Submits : job[j] \in {"none", "sent"} => j \notin accepted
  /\ note["submit"][1] = "done" => note["submit"][2] \in accepted
  /\ note["submit"][1] = "failed" =>
       note["submit"][2] \in Submits /\ job[note["submit"][2]] = "over"

(* As long as nothing went wrong, no refresh has failed, and a submission  *)
(* that failed was refused.                                                *)
Undisturbed ==
  Calm =>
    /\ \A r \in Refreshers : phase[r] # "failed"
    /\ \A j \in Submits : job[j] = "error" => j \notin accepted
    /\ badge # "error"
    /\ note["submit"][1] = "failed" => note["submit"][2] \notin accepted

DashInv == DashTypeOK /\ MoreTypes /\ Reports /\ Undisturbed

-----------------------------------------------------------------------------
(* A batch stores some of what was ingested. *)
LEMMA BatchStores ==
  ASSUME NEW e \in Engine, e.stored <= e.ingested, NEW f \in Batch(e)
  PROVE  /\ f \in Engine /\ f.stored <= f.ingested
         /\ f.odd = e.odd
<1>1. PICK n \in (IF dbUp THEN e.stored..e.ingested ELSE {e.stored}) :
               f = [e EXCEPT !.stored = n]
  BY DEF Batch
<1>2. n \in Nat /\ n <= e.ingested
  BY <1>1 DEF Engine
<1>3. f = [ingested |-> e.ingested, stored |-> n, odd |-> e.odd]
  BY <1>1 DEF Engine
<1> QED
  BY <1>2, <1>3 DEF Engine

(* A log is added; its text is one that can be shown, or not. *)
LEMMA AddedLog ==
  ASSUME engine \in Engine, engine.stored <= engine.ingested, NEW odd \in BOOLEAN
  PROVE  /\ Added(odd) \in Engine /\ Added(odd).stored <= Added(odd).ingested
         /\ Added(odd).odd = 0 => engine.odd = 0
<1> DEFINE text == IF odd THEN engine.ingested + 1 ELSE engine.odd
           more == [engine EXCEPT !.ingested = engine.ingested + 1]
<1>1. /\ engine.ingested \in Nat /\ engine.stored \in Nat /\ engine.odd \in Nat
      /\ text \in Nat
      /\ text = 0 => engine.odd = 0
  BY DEF Engine
<1>2. more = [ingested |-> engine.ingested + 1, stored |-> engine.stored, odd |-> engine.odd]
  BY DEF Engine
<1>3. Added(odd) = [more EXCEPT !.odd = text]
  BY DEF Added, Engine
<1> HIDE DEF text, more
<1>4. Added(odd) = [ingested |-> engine.ingested + 1, stored |-> engine.stored, odd |-> text]
  BY <1>2, <1>3
<1> QED
  BY <1>1, <1>4 DEF Engine

(* The server answers a submission: it was queued, or refused. *)
LEMMA ServeSubmitKeeps ==
  ASSUME DashInv, NEW j \in Jobs, ServeSubmit(j)
  PROVE  DashInv'
<1>1. /\ job[j] = "sent" /\ j \in Submits
      /\ UNCHANGED <<dbUp, phase, got, page, badge, note, troubles>>
      /\ DashTypeOK /\ MoreTypes /\ Reports /\ Undisturbed
  BY DEF ServeSubmit, refreshVars, DashInv
<1>2. /\ engine' \in Engine /\ engine'.stored <= engine'.ingested
      /\ engine'.odd = 0 => engine.odd = 0
  <2>1. CASE engine' = engine
    BY <1>1, <2>1 DEF DashTypeOK
  <2>2. ASSUME NEW odd \in BOOLEAN, engine' \in Batch(Added(odd))
        PROVE  /\ engine' \in Engine /\ engine'.stored <= engine'.ingested
               /\ engine'.odd = 0 => engine.odd = 0
    BY <1>1, <2>2, AddedLog, BatchStores DEF DashTypeOK
  <2> QED
    BY <2>1, <2>2 DEF ServeSubmit
<1>3. CASE accepted' = accepted \cup {j} /\ job' = [job EXCEPT ![j] = "ok"]
  <2>1. DashTypeOK'
    BY <1>1, <1>2, <1>3 DEF DashTypeOK, Jobs
  <2>2. Reports'
    BY <1>1, <1>3 DEF Reports, DashTypeOK, Jobs
  <2>3. Undisturbed'
    <3>1. Calm' => Calm
      BY <1>1, <1>2 DEF Calm
    <3>2. note["submit"][1] = "failed" => note["submit"][2] # j
      BY <1>1 DEF Reports
    <3> QED
      BY <1>1, <1>3, <3>1, <3>2 DEF Undisturbed, DashTypeOK, Jobs
  <2> QED
    BY <1>1, <2>1, <2>2, <2>3 DEF DashInv, MoreTypes
<1>4. CASE accepted' \in {accepted, accepted \cup {j}}
           /\ job' = [job EXCEPT ![j] = "error"]
           /\ (accepted' = accepted \/ ~dbUp)
  <2>1. DashTypeOK'
    BY <1>1, <1>2, <1>4 DEF DashTypeOK, Jobs
  <2>2. Reports'
    BY <1>1, <1>4 DEF Reports, DashTypeOK, Jobs
  <2>3. Undisturbed'
    <3>1. Calm' => Calm /\ accepted' = accepted /\ j \notin accepted
      BY <1>1, <1>2, <1>4 DEF Calm, Reports
    <3> QED
      BY <1>1, <1>4, <3>1 DEF Undisturbed, DashTypeOK, Jobs
  <2> QED
    BY <1>1, <2>1, <2>2, <2>3 DEF DashInv, MoreTypes
<1> QED
  BY <1>3, <1>4 DEF ServeSubmit

(* The server answers a click. *)
LEMMA ServeProcessKeeps ==
  ASSUME DashInv, NEW j \in Jobs, ServeProcess(j)
  PROVE  DashInv'
<1>1. /\ job[j] = "sent" /\ j \in Clicks /\ j \notin Submits
      /\ UNCHANGED <<dbUp, phase, got, page, badge, note, accepted, troubles>>
      /\ DashTypeOK /\ MoreTypes /\ Reports /\ Undisturbed
  BY DashboardAssumption DEF ServeProcess, refreshVars, DashInv
<1>2. /\ engine' \in Engine /\ engine'.stored <= engine'.ingested
      /\ engine'.odd = engine.odd
  <2>1. engine' \in Batch(engine)
    BY DEF ServeProcess
  <2> QED
    BY <1>1, <2>1, BatchStores DEF DashTypeOK
<1>3. PICK place \in {"ok", "error"} : job' = [job EXCEPT ![j] = place]
  BY DEF ServeProcess
<1>4. DashTypeOK'
  BY <1>1, <1>2, <1>3 DEF DashTypeOK
<1>5. Reports'
  BY <1>1, <1>3 DEF Reports, DashTypeOK, Jobs
<1>6. Undisturbed'
  <2>1. Calm' => Calm
    BY <1>1, <1>2 DEF Calm
  <2> QED
    BY <1>1, <1>3, <2>1 DEF Undisturbed, DashTypeOK, Jobs
<1> QED
  BY <1>1, <1>4, <1>5, <1>6 DEF DashInv, MoreTypes

(* A route answers one of the page's requests, with what the engine is. *)
LEMMA ServeKeeps ==
  ASSUME DashInv, NEW r \in Refreshers, NEW route \in Routes, Serve(r, route)
  PROVE  DashInv'
<1>1. /\ phase[r] = "asked"
      /\ UNCHANGED <<engine, dbUp, job, page, badge, note, accepted, troubles>>
      /\ DashTypeOK /\ MoreTypes /\ Reports /\ Undisturbed
  BY DEF Serve, serverVars, DashInv
<1>2. Body(route) \in Shown
  BY <1>1 DEF Body, Now, Shown, DashTypeOK, Engine
<1>3. got' \in [Refreshers -> [Routes -> Shown \cup {None}]]
  <2>1. CASE got' = [got EXCEPT ![r][route] = Body(route)]
    BY <1>1, <1>2, <2>1 DEF DashTypeOK
  <2>2. CASE got' = [got EXCEPT ![r] = Unanswered]
    BY <1>1, <2>2 DEF DashTypeOK, Unanswered
  <2> QED
    BY <2>1, <2>2 DEF Serve
<1>4. CASE phase' = phase
  BY <1>1, <1>3, <1>4 DEF DashInv, DashTypeOK, MoreTypes, Reports, Undisturbed, Calm
<1>5. CASE phase' = [phase EXCEPT ![r] = "failed"] /\ ~Answers(route)
  <2>1. ~Calm
    BY <1>1, <1>5 DEF Calm, Answers, Readable, DashTypeOK, Engine
  <2>2. ~Calm'
    BY <1>1, <2>1 DEF Calm
  <2>3. DashTypeOK'
    BY <1>1, <1>3, <1>5 DEF DashTypeOK, Refreshers
  <2> QED
    BY <1>1, <2>2, <2>3 DEF DashInv, MoreTypes, Reports, Undisturbed
<1> QED
  BY <1>4, <1>5 DEF Serve

(* Outages and losses: nothing is promised any more. *)
LEMMA TroubleKeeps ==
  ASSUME DashInv, Flip \/ Lose
  PROVE  DashInv'
<1>1. /\ troubles' = troubles + 1 /\ troubles' \in 0..MaxTroubles
      /\ UNCHANGED <<engine, page, badge, note, accepted>>
      /\ DashTypeOK /\ MoreTypes /\ Reports
  BY DashboardAssumption DEF Flip, Lose, serverVars, DashInv, DashTypeOK
<1>2. Undisturbed'
  BY <1>1 DEF Undisturbed, Calm, DashTypeOK
<1>3. CASE Flip
  <2>1. UNCHANGED <<phase, got, job>> /\ dbUp' \in BOOLEAN
    BY <1>3 DEF Flip, refreshVars
  <2> QED
    BY <1>1, <1>2, <2>1 DEF DashInv, DashTypeOK, MoreTypes, Reports
<1>4. ASSUME NEW r \in Refreshers, phase[r] = "asked",
             phase' = [phase EXCEPT ![r] = "failed"],
             got' = [got EXCEPT ![r] = Unanswered], UNCHANGED <<job, dbUp>>
      PROVE  DashInv'
  <2>1. got' \in [Refreshers -> [Routes -> Shown \cup {None}]]
    BY <1>1, <1>4 DEF DashTypeOK, Unanswered
  <2>2. DashTypeOK'
    BY <1>1, <1>4, <2>1 DEF DashTypeOK, Refreshers
  <2> QED
    BY <1>1, <1>2, <1>4, <2>2 DEF DashInv, MoreTypes, Reports
<1>5. ASSUME NEW j \in Jobs, job[j] \in {"sent", "ok"},
             job' = [job EXCEPT ![j] = "error"], UNCHANGED <<phase, got, dbUp>>
      PROVE  DashInv'
  <2>1. DashTypeOK'
    BY <1>1, <1>5 DEF DashTypeOK
  <2>2. Reports'
    BY <1>1, <1>5 DEF Reports, DashTypeOK, Jobs
  <2> QED
    BY <1>1, <1>2, <1>5, <2>1, <2>2 DEF DashInv, MoreTypes
<1> QED
  BY <1>3, <1>4, <1>5 DEF Lose, refreshVars, serverVars

(* The user presses a button. *)
LEMMA PressKeeps ==
  ASSUME DashInv, NEW j \in Jobs, Press(j)
  PROVE  DashInv'
<1>1. /\ job[j] = "none" /\ job' = [job EXCEPT ![j] = "sent"]
      /\ UNCHANGED <<engine, dbUp, phase, got, page, badge, note, accepted, troubles>>
      /\ DashTypeOK /\ MoreTypes /\ Reports /\ Undisturbed
  BY DEF Press, serverVars, refreshVars, DashInv
<1>2. DashTypeOK'
  BY <1>1 DEF DashTypeOK
<1>3. Reports'
  BY <1>1 DEF Reports, DashTypeOK, Jobs
<1>4. Undisturbed'
  BY <1>1 DEF Undisturbed, Calm, DashTypeOK, Jobs
<1> QED
  BY <1>1, <1>2, <1>3, <1>4 DEF DashInv, MoreTypes

(* The area of the form is the one of the submissions. *)
LEMMA WhoseArea ==
  ASSUME NEW j \in Jobs
  PROVE  Area(j) \in Areas /\ (Area(j) = "submit" <=> j \in Submits)
  BY DEF Area, Areas

(* The page reports the answer of a job. *)
LEMMA SettleKeeps ==
  ASSUME DashInv, NEW j \in Jobs, Settle(j)
  PROVE  DashInv'
<1>1. /\ UNCHANGED <<engine, dbUp, got, page, badge, accepted, troubles>>
      /\ DashTypeOK /\ MoreTypes /\ Reports /\ Undisturbed
      /\ j \in Refreshers
  BY DEF Settle, Ask, serverVars, refreshVars, DashInv, Refreshers
<1>2. Area(j) \in Areas /\ (Area(j) = "submit" <=> j \in Submits)
  BY WhoseArea
<1>3. CASE /\ job[j] = "ok"
           /\ note' = [note EXCEPT ![Area(j)] = <<"done", j>>]
           /\ job' = [job EXCEPT ![j] = "refreshing"]
           /\ phase' = [phase EXCEPT ![j] = "asked"]
  <2>1. DashTypeOK'
    BY <1>1, <1>3 DEF DashTypeOK
  <2>2. MoreTypes'
    BY <1>1, <1>2, <1>3 DEF MoreTypes
  <2>3. note'["submit"] = IF j \in Submits THEN <<"done", j>> ELSE note["submit"]
    BY <1>1, <1>2, <1>3 DEF MoreTypes, Areas
  <2>4. Reports'
    BY <1>1, <1>3, <2>3 DEF Reports, DashTypeOK, Jobs
  <2>5. Undisturbed'
    BY <1>1, <1>3, <2>3 DEF Undisturbed, Calm, DashTypeOK, Jobs
  <2> QED
    BY <2>1, <2>2, <2>4, <2>5 DEF DashInv
<1>4. CASE /\ job[j] = "error"
           /\ note' = [note EXCEPT ![Area(j)] = <<"failed", j>>]
           /\ job' = [job EXCEPT ![j] = "over"]
           /\ phase' = phase
  <2>1. DashTypeOK'
    BY <1>1, <1>4 DEF DashTypeOK
  <2>2. MoreTypes'
    BY <1>1, <1>2, <1>4 DEF MoreTypes
  <2>3. note'["submit"] = IF j \in Submits THEN <<"failed", j>> ELSE note["submit"]
    BY <1>1, <1>2, <1>4 DEF MoreTypes, Areas
  <2>4. Reports'
    BY <1>1, <1>4, <2>3 DEF Reports, DashTypeOK, Jobs
  <2>5. Undisturbed'
    BY <1>1, <1>4, <2>3 DEF Undisturbed, Calm, DashTypeOK, Jobs
  <2> QED
    BY <2>1, <2>2, <2>4, <2>5 DEF DashInv
<1> QED
  BY <1>3, <1>4 DEF Settle, Ask, refreshVars

(* The interval is over. *)
LEMMA TickKeeps ==
  ASSUME DashInv, NEW t \in Timers, Tick(t)
  PROVE  DashInv'
<1>1. /\ phase' = [phase EXCEPT ![t] = "asked"]
      /\ UNCHANGED <<engine, dbUp, got, job, page, badge, note, accepted, troubles>>
      /\ DashTypeOK /\ MoreTypes /\ Reports /\ Undisturbed
      /\ t \in Refreshers /\ t \notin Jobs
  BY DashboardAssumption DEF Tick, Ask, serverVars, DashInv, Refreshers
<1>2. DashTypeOK'
  BY <1>1 DEF DashTypeOK
<1>3. Undisturbed'
  BY <1>1 DEF Undisturbed, Calm, DashTypeOK
<1> QED
  BY <1>1, <1>2, <1>3 DEF DashInv, MoreTypes, Reports

(* The end of a refresh, and of the job that awaited it. *)
LEMMA RefreshEnds ==
  ASSUME DashInv, NEW r \in Refreshers, RefreshOver(r), JobOver(r)
  PROVE  /\ phase' \in [Refreshers -> {"idle", "asked", "failed"}]
         /\ got' \in [Refreshers -> [Routes -> Shown \cup {None}]]
         /\ job' \in [Jobs -> {"none", "sent", "ok", "error", "refreshing", "over"}]
         /\ \A j \in Jobs : phase'[j] # "idle" <=> job'[j] = "refreshing"
         /\ \A j \in Jobs : job'[j] = job[j] \/ job'[j] = "over"
         /\ r \in Jobs => job'[r] = "over"
         /\ \A u \in Refreshers : phase'[u] = "failed" => phase[u] = "failed"
<1> USE DEF DashInv, DashTypeOK
<1>1. phase' = [phase EXCEPT ![r] = "idle"] /\ got' = [got EXCEPT ![r] = Unanswered]
  BY DEF RefreshOver
<1>2. Unanswered \in [Routes -> Shown \cup {None}]
  BY DEF Unanswered
<1>3. CASE r \in Jobs
  <2>1. job' = [job EXCEPT ![r] = "over"]
    BY <1>3 DEF JobOver
  <2> QED
    BY <1>1, <1>2, <1>3, <2>1 DEF Refreshers
<1>4. CASE r \notin Jobs
  <2>1. job' = job
    BY <1>4 DEF JobOver
  <2> QED
    BY <1>1, <1>2, <1>4, <2>1 DEF Refreshers
<1> QED
  BY <1>3, <1>4

(* All three answers are there, and are shown. *)
LEMMA ResolveKeeps ==
  ASSUME DashInv, NEW r \in Refreshers, Resolve(r)
  PROVE  DashInv'
<1>1. /\ UNCHANGED <<engine, dbUp, note, accepted, troubles>> /\ badge' = "ok"
      /\ DashTypeOK /\ MoreTypes /\ Reports /\ Undisturbed
      /\ RefreshOver(r) /\ JobOver(r)
  BY DEF Resolve, serverVars, DashInv
<1>2. page' \in [metrics : Shown, logs : Shown]
  BY <1>1 DEF Resolve, DashTypeOK, Routes
<1>3. DashTypeOK'
  BY <1>1, <1>2, RefreshEnds DEF DashTypeOK
<1>4. Reports'
  BY <1>1, RefreshEnds DEF Reports, Jobs
<1>5. Undisturbed'
  BY <1>1, RefreshEnds DEF Undisturbed, Calm, Jobs
<1> QED
  BY <1>1, <1>3, <1>4, <1>5 DEF DashInv, MoreTypes

(* A refresh has failed, which is reported. *)
LEMMA RejectKeeps ==
  ASSUME DashInv, NEW r \in Refreshers, Reject(r)
  PROVE  DashInv'
<1>1. /\ UNCHANGED <<engine, dbUp, page, accepted, troubles>> /\ phase[r] = "failed"
      /\ DashTypeOK /\ MoreTypes /\ Reports /\ Undisturbed
      /\ RefreshOver(r) /\ JobOver(r)
  BY DEF Reject, serverVars, DashInv
<1>2. ~Calm'
  BY <1>1 DEF Undisturbed, Calm
<1>3. badge' \in {"checking", "ok", "error"}
  BY <1>1 DEF Reject, DashTypeOK
<1>4. DashTypeOK'
  BY <1>1, <1>3, RefreshEnds DEF DashTypeOK
<1>5. CASE r \in Timers
  <2>1. note' = note
    BY <1>5 DEF Reject
  <2>2. Reports'
    BY <1>1, <2>1, RefreshEnds DEF Reports, Jobs
  <2> QED
    BY <1>1, <1>2, <1>4, <2>1, <2>2 DEF DashInv, MoreTypes, Undisturbed
<1>6. CASE r \notin Timers
  <2>1. r \in Jobs /\ note' = [note EXCEPT ![Area(r)] = <<"failed", r>>]
    BY <1>6 DEF Reject, Refreshers
  <2>2. Area(r) \in Areas /\ (Area(r) = "submit" <=> r \in Submits)
    BY <2>1, WhoseArea
  <2>3. MoreTypes'
    BY <1>1, <2>1, <2>2 DEF MoreTypes
  <2>4. note'["submit"] = IF r \in Submits THEN <<"failed", r>> ELSE note["submit"]
    BY <1>1, <2>1, <2>2 DEF MoreTypes, Areas
  <2>5. Reports'
    <3>1. /\ accepted' = accepted /\ job'[r] = "over"
          /\ \A j \in Submits : job'[j] = job[j] \/ job'[j] = "over"
      BY <1>1, <2>1, RefreshEnds DEF Jobs
    <3>2. /\ \A j \in Submits : job'[j] = "ok" => j \in accepted'
          /\ \A j \in Submits : job'[j] \in {"none", "sent"} => j \notin accepted'
      BY <1>1, <3>1 DEF Reports
    <3>3. CASE r \in Submits
      <4>1. note'["submit"][1] = "failed" /\ note'["submit"][2] = r
        BY <2>4, <3>3
      <4> QED
        BY <3>1, <3>2, <3>3, <4>1 DEF Reports
    <3>4. CASE r \notin Submits
      <4>1. note'["submit"] = note["submit"]
        BY <2>4, <3>4
      <4> QED
        BY <1>1, <3>1, <3>2, <4>1 DEF Reports
    <3> QED
      BY <3>3, <3>4
  <2> QED
    BY <1>2, <1>4, <2>3, <2>5 DEF DashInv, Undisturbed
<1> QED
  BY <1>5, <1>6

(* The page opens. *)
LEMMA InitDash == DashInit => DashInv
<1> SUFFICES ASSUME DashInit PROVE DashInv
  OBVIOUS
<1>1. engine = [ingested |-> 0, stored |-> 0, odd |-> 0]
  BY DEF DashInit
<1>2. engine \in Engine /\ engine.stored = 0 /\ engine.ingested = 0
  BY <1>1 DEF Engine
<1>3. page \in [metrics : Shown, logs : Shown]
  BY <1>2 DEF DashInit, Now, Shown
<1>4. got \in [Refreshers -> [Routes -> Shown \cup {None}]]
  BY DEF DashInit, Unanswered
<1>5. DashTypeOK
  <2>1. /\ job = [j \in Jobs |-> "none"] /\ phase = [u \in Refreshers |-> "idle"]
        /\ badge = "checking" /\ accepted = {} /\ troubles = 0
    BY DEF DashInit
  <2>2. /\ job \in [Jobs -> {"none", "sent", "ok", "error", "refreshing", "over"}]
        /\ phase \in [Refreshers -> {"idle", "asked", "failed"}]
        /\ \A j \in Jobs : phase[j] # "idle" <=> job[j] = "refreshing"
    BY <2>1 DEF Refreshers
  <2>3. troubles \in 0..MaxTroubles
    BY <2>1, DashboardAssumption
  <2> QED
    BY <1>2, <1>3, <1>4, <2>1, <2>2, <2>3 DEF DashTypeOK
<1>6. note["submit"] = <<"", "">> /\ MoreTypes
  BY DEF DashInit, MoreTypes, Areas
<1>7. Reports
  BY <1>6 DEF DashInit, Reports, Jobs
<1>8. Undisturbed
  BY <1>6 DEF DashInit, Undisturbed, Jobs
<1> QED
  BY <1>5, <1>6, <1>7, <1>8 DEF DashInv

(* Every step of the page, the server, the network and the user keeps it. *)
LEMMA NextDash == DashInv /\ [DashNext]_dashVars => DashInv'
<1> SUFFICES ASSUME DashInv, [DashNext]_dashVars PROVE DashInv'
  OBVIOUS
<1>1. CASE Flip \/ Lose
  BY <1>1, TroubleKeeps
<1>2. ASSUME NEW j \in Jobs, Press(j) \/ JobGoesOn(j)
      PROVE  DashInv'
  BY <1>2, PressKeeps, ServeSubmitKeeps, ServeProcessKeeps, SettleKeeps DEF JobGoesOn
<1>3. ASSUME NEW t \in Timers, Tick(t)
      PROVE  DashInv'
  BY <1>3, TickKeeps
<1>4. ASSUME NEW r \in Refreshers, GoesOn(r)
      PROVE  DashInv'
  BY <1>4, ServeKeeps, ResolveKeeps, RejectKeeps DEF GoesOn
<1>5. CASE UNCHANGED dashVars
  BY <1>5 DEF dashVars, serverVars, refreshVars, DashInv, DashTypeOK, MoreTypes,
              Reports, Undisturbed, Calm
<1> QED
  BY <1>1, <1>2, <1>3, <1>4, <1>5 DEF DashNext

(* So it always holds. *)
LEMMA DashInvariant == DashSpec => []DashInv
  BY InitDash, NextDash, PTL DEF DashSpec

-----------------------------------------------------------------------------
(* The page's state stays of its type: among others, a job is refreshing   *)
(* the page exactly as long as its refresh is under way, and app.py never  *)
(* shows more logs stored than ingested.                                   *)
THEOREM DashTypes == DashSpec => []DashTypeOK
<1>1. DashInv => DashTypeOK
  BY DEF DashInv
<1> QED
  BY <1>1, DashInvariant, PTL

(* "Log submitted successfully." stands under the form only if the log it  *)
(* is about was queued, for any number of submissions whose answers and    *)
(* refreshes overtake each other, and whatever the network loses.          *)
THEOREM SuccessHolds == DashSpec => []SuccessIsTrue
<1>1. DashInv => SuccessIsTrue
  BY DEF DashInv, Reports, SuccessIsTrue
<1> QED
  BY <1>1, DashInvariant, PTL

(* As long as the database answers, every pending text can be shown and    *)
(* nothing is lost, a log that was queued is not reported as failed and    *)
(* the badge shows no error.                                               *)
THEOREM HonestHolds == DashSpec => []HonestWhenCalm
<1>1. DashInv => HonestWhenCalm
  BY DEF DashInv, Undisturbed, HonestWhenCalm
<1> QED
  BY <1>1, DashInvariant, PTL

-----------------------------------------------------------------------------
(* What a step does to the pictures on their way and to the one shown. *)
PictureStep ==
  Now' = Now =>
    /\ Stale' \subseteq Stale
    /\ page' = page \/ page' = Picture' \/ Stale' # Stale

(* As long as the engine rests, no answer turns old that is not asked for  *)
(* or served now.                                                          *)
LEMMA AnswersStay ==
  ASSUME Now' = Now, page' = page,
         \A r \in Refreshers : got'[r] \in {got[r], Unanswered}
  PROVE  PictureStep
<1>1. \A r \in Refreshers, route \in Routes :
        got'[r][route] \in {got[r][route], None}
  BY DEF Unanswered
<1>2. Stale' \subseteq Stale
  BY <1>1 DEF Stale
<1> QED
  BY <1>2 DEF PictureStep

(* An answer that is served shows the engine as it is. *)
LEMMA ServedIsNew ==
  ASSUME DashTypeOK, NEW r \in Refreshers, NEW route \in Routes, Serve(r, route)
  PROVE  PictureStep
<1>1. Now' = Now /\ page' = page
  BY DEF Serve, serverVars, Now
<1>2. CASE got' = [got EXCEPT ![r][route] = Body(route)]
  <2>1. \A u \in Refreshers, place \in Routes :
          \/ got'[u][place] = got[u][place]
          \/ place = route /\ got'[u][place] = Body(route)
    BY <1>2 DEF DashTypeOK
  <2>2. route # "health" => Body(route) = Now
    BY DEF Body
  <2>3. Stale' \subseteq Stale
    BY <1>1, <2>1, <2>2 DEF Stale
  <2> QED
    BY <1>1, <2>3 DEF PictureStep
<1>3. CASE got' = [got EXCEPT ![r] = Unanswered]
  BY <1>1, <1>3, AnswersStay DEF DashTypeOK
<1> QED
  BY <1>2, <1>3 DEF Serve

(* An old picture that is shown is one that is no longer on its way. *)
LEMMA ShownIsGone ==
  ASSUME DashTypeOK, NEW r \in Refreshers, Resolve(r)
  PROVE  PictureStep
<1>1. /\ Now' = Now
      /\ got' = [got EXCEPT ![r] = Unanswered]
      /\ page' = [metrics |-> got[r]["metrics"], logs |-> got[r]["logs"]]
      /\ \A route \in Routes : got[r][route] # None
  BY DEF Resolve, RefreshOver, serverVars, Now
<1>2. \A u \in Refreshers, route \in Routes :
        got'[u][route] = IF u = r THEN None ELSE got[u][route]
  BY <1>1 DEF DashTypeOK, Unanswered
<1>3. Stale' = Stale \ {r}
  BY <1>1, <1>2 DEF Stale
<1>4. CASE r \in Stale
  BY <1>3, <1>4 DEF PictureStep
<1>5. CASE r \notin Stale
  <2>1. got[r]["metrics"] = Now /\ got[r]["logs"] = Now
    BY <1>1, <1>5 DEF Stale, Routes
  <2>2. page' = Picture'
    BY <1>1, <2>1 DEF Picture
  <2> QED
    BY <1>3, <2>2 DEF PictureStep
<1> QED
  BY <1>4, <1>5

(* While the engine rests, what the page shows becomes false at most as    *)
(* often as there were refreshes with an old answer under way, for any     *)
(* number of refreshes that overlap and whatever fails.                    *)
THEOREM OldAnswersEnd == DashSpec => OldAnswersRunOut
<1>1. DashInv /\ [DashNext]_dashVars => [PictureStep]_dashVars
  <2> SUFFICES ASSUME DashInv, DashNext, Now' = Now
               PROVE  PictureStep
    BY DEF PictureStep
  <2>1. DashTypeOK
    BY DEF DashInv
  <2>2. CASE UNCHANGED <<page, got>>
    BY <2>2, AnswersStay
  <2>3. CASE Lose
    <3>1. /\ page' = page
          /\ \/ got' = got
             \/ \E u \in Refreshers : got' = [got EXCEPT ![u] = Unanswered]
      BY <2>3 DEF Lose, refreshVars
    <3> QED
      BY <2>1, <3>1, AnswersStay DEF DashTypeOK
  <2>4. ASSUME NEW r \in Refreshers, Reject(r) PROVE PictureStep
    <3>1. page' = page /\ got' = [got EXCEPT ![r] = Unanswered]
      BY <2>4 DEF Reject, RefreshOver
    <3> QED
      BY <2>1, <3>1, AnswersStay DEF DashTypeOK
  <2>5. ASSUME NEW r \in Refreshers, GoesOn(r) PROVE PictureStep
    BY <2>1, <2>4, <2>5, ServedIsNew, ShownIsGone DEF GoesOn
  <2>6. CASE Flip
    BY <2>2, <2>6 DEF Flip, refreshVars
  <2>7. ASSUME NEW j \in Jobs, Press(j) \/ JobGoesOn(j) PROVE PictureStep
    BY <2>2, <2>7 DEF Press, JobGoesOn, ServeSubmit, ServeProcess, Settle, Ask, refreshVars
  <2>8. ASSUME NEW t \in Timers, Tick(t) PROVE PictureStep
    BY <2>2, <2>8 DEF Tick, Ask
  <2> QED
    BY <2>3, <2>5, <2>6, <2>7, <2>8 DEF DashNext
<1> QED
  BY <1>1, DashInvariant, PTL DEF DashSpec, OldAnswersRunOut, PictureStep

=============================================================================
