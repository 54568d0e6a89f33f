----------------------- MODULE DelegationQueueProofs -----------------------
(***************************************************************************)
(* Proofs about DelegationQueue, for every value of its constants.         *)
(*                                                                         *)
(* First the shape of the state (Sound) and what a step may do to status,  *)
(* runs and locks (StepForm): types, the settled verdict, claims and the   *)
(* single writer.  Then what a step may do to the outcome a row carries    *)
(* (Outcome, MovedBy, WrittenBy): what the engine says about a job, how    *)
(* often, whether it contradicts the job's own report or the user's Stop,  *)
(* and whether a settled job is heard of.  Hypotheses on crashes, lapses   *)
(* and requests stand on the theorems that are false without them.         *)
(***************************************************************************)
EXTENDS DelegationQueue, FiniteSetTheorems, TLAPS

\* Every agent-run is asked for with its colleague's id on it.
Stamped == \A q \in Requests : q.kind = "agentRun" => q.tp # None

\* Only work whose colleague was never stamped runs under its own id: tasks
\* have a target, colleagues are sessions, and ids are handed out in order.
Shape ==
    /\ \A j \in Jobs : (rows[j].status = "absent") <=> j >= nextJob
    /\ \A j \in Jobs :
          /\ rows[j].kind = "agentRun" => rows[j].tp # Voice
          /\ Stamped /\ rows[j].kind = "agentRun" /\ rows[j].status # "absent"
                => rows[j].tp # None
          /\ rows[j].kind = "task" /\ rows[j].status # "absent"
                => rows[j].ws # None \/ rows[j].tp # None

\* A slot runs an inserted row under the row's key; a colleague's run resumes a
\* session; a stretch belongs to a running slot, and one that goes on after a
\* terminal write has made that write.
Attached ==
    /\ \A s \in Slots :
          runs[s].job # 0 =>
              /\ rows[runs[s].job].status # "absent"
              /\ runs[s].key = TargetKey(rows[runs[s].job], runs[s].job)
              /\ rows[runs[s].job].kind = "agentRun" => runs[s].conv \in Sessions
              /\ Stamped => runs[s].conv = runs[s].key
    /\ stretch.step \in {"markReported", "followUp", "giveUp"} =>
          stretch.slot \in Slots /\ runs[stretch.slot].job # 0
    /\ stretch.step \in {"followUp", "giveUp"} =>
          rows[runs[stretch.slot].job].status # "claimed"

USE DEF Jobs

-----------------------------------------------------------------------------
(* The rows the code writes are rows. *)

\* w may take the place of row r: a row with the same target, absent only if
\* r is.
Replaces(w, r) ==
    /\ w \in Rows
    /\ w.kind = r.kind /\ w.ws = r.ws /\ w.tp = r.tp
    /\ w.status = "absent" <=> r.status = "absent"

LEMMA RowWrites ==
    ASSUME NEW r \in Rows, NEW n \in 0..(MaxAttempts - 1)
    PROVE  /\ Replaces(Completed(r), r) /\ Completed(r).status # "claimed"
           /\ Replaces(Failed(r), r) /\ Failed(r).status # "claimed"
           /\ Replaces(Requeued(r, n), r) /\ Requeued(r, n).status # "claimed"
           /\ Replaces(Surfaced(r), r) /\ Surfaced(r).status = r.status
           /\ r.status = "claimed" =>
                /\ Replaces(SettledOrphan(r), r)
                /\ SettledOrphan(r).status # "claimed"
                /\ SettledOrphan(r).status = "pending" => r.kind \in OrphanRequeueKinds
  <1> USE DEF Replaces
  <1>1. Replaces(Completed(r), r) /\ Completed(r).status # "claimed"
    BY DEF Rows, Completed, Statuses
  <1>2. ASSUME NEW q \in Rows
        PROVE  Replaces(Failed(q), q) /\ Failed(q).status # "claimed"
    <2>1. CASE q.status = "claimed"
      <3>1. Failed(q) = [q EXCEPT !.status = "failed", !.lease = "none"]
        BY <2>1 DEF Failed
      <3> QED
        BY <2>1, <3>1 DEF Rows, Statuses
    <2>2. CASE q.status # "claimed"
      BY <2>2 DEF Failed
    <2> QED
      BY <2>1, <2>2
  <1>3. Replaces(Requeued(r, n), r) /\ Requeued(r, n).status # "claimed"
    BY DEF Rows, Requeued, Statuses, Open
  <1>4. ASSUME NEW q \in Rows
        PROVE  Replaces(Surfaced(q), q) /\ Surfaced(q).status = q.status
    BY DEF Rows, Surfaced
  <1>5. ASSUME r.status = "claimed"
        PROVE  Replaces([r EXCEPT !.status = "pending", !.lease = "none", !.due = TRUE], r)
    BY <1>5 DEF Rows, Statuses
  <1>6. [r EXCEPT !.status = "pending", !.lease = "none", !.due = TRUE].status = "pending"
    BY DEF Rows
  <1>7. ASSUME r.status = "claimed"
        PROVE  /\ Replaces(SettledOrphan(r), r)
               /\ SettledOrphan(r).status # "claimed"
               /\ SettledOrphan(r).status = "pending" => r.kind \in OrphanRequeueKinds
    <2>1. CASE r.kind \in OrphanRequeueKinds
      BY <1>5, <1>6, <1>7, <2>1 DEF SettledOrphan
    <2>2. CASE r.kind \notin OrphanRequeueKinds
      <3>1. SettledOrphan(r) = Surfaced(Failed(r))
        BY <2>2 DEF SettledOrphan
      <3>2. Failed(r) \in Rows /\ Failed(r).status # "pending"
        BY <1>2, <1>7 DEF Rows, Failed
      <3> QED
        BY <1>2, <1>4, <3>1, <3>2
    <2> QED
      BY <2>1, <2>2
  <1> QED
    BY <1>1, <1>2, <1>3, <1>4, <1>7

LEMMA NewRowIsRow ==
    ASSUME NEW kind \in Kinds, NEW ws \in Workspaces \cup {None},
           NEW tp \in Sessions \cup {Voice, None}, NEW req \in Requesters,
           NEW thread \in 0..MaxJobs, NEW about \in 0..MaxJobs, NEW form \in Forms
    PROVE  NewRow(kind, ws, tp, req, thread, about, form) \in Rows
  BY BoundsAssumption DEF Rows, NewRow, Statuses

LEMMA DeliveryRowIsRow ==
    ASSUME TypeOK, NEW j \in Jobs, NEW kind \in DeliveryKinds, NEW form \in Forms
    PROVE  DeliveryRow(j, kind, form) \in Rows
  <1>1. rows[j] \in Rows
    BY DEF TypeOK
  <1>2. rows[j].req \in Requesters /\ rows[j].thread \in 0..MaxJobs
    BY <1>1 DEF Rows
  <1>3. j \in 0..MaxJobs /\ kind \in Kinds /\ GlobalRoot \in Requesters
    BY BoundsAssumption DEF Kinds, Requesters, Lanes
  <1> QED
    BY <1>2, <1>3, NewRowIsRow, Zenon DEF DeliveryRow

LEMMA KeyIsKey ==
    ASSUME TypeOK, NEW j \in Jobs
    PROVE  TargetKey(rows[j], j) \in Keys
  <1>1. rows[j] \in Rows
    BY DEF TypeOK
  <1> QED
    BY <1>1 DEF Rows, TargetKey, Keys, Chats, Lanes

-----------------------------------------------------------------------------
(* Type correctness. *)

Sound == TypeOK /\ Shape /\ Attached

LEMMA InitSound == Init => Sound
  <1> SUFFICES ASSUME Init PROVE Sound
    OBVIOUS
  <1>1. NoRow \in Rows
    <2>1. NewRow("task", None, None, GlobalRoot, 0, 0, "asked") \in Rows
      <3>1. /\ "task" \in Kinds /\ "asked" \in Forms
            /\ GlobalRoot \in Requesters /\ 0 \in 0..MaxJobs
        BY BoundsAssumption DEF Kinds, WorkKinds, Forms, Requesters, Lanes
      <3> QED
        BY <3>1, NewRowIsRow
    <2>2. ASSUME NEW r \in Rows PROVE [r EXCEPT !.status = "absent"] \in Rows
      BY DEF Rows, Statuses
    <2> QED
      BY <2>1, <2>2 DEF NoRow
  <1>2. NoRun \in Runs
    BY BoundsAssumption DEF NoRun, Runs
  <1>3. TypeOK
    BY <1>1, <1>2, BoundsAssumption DEF Init, TypeOK, Stretches, NoStretch
  <1>4. Shape
    BY BoundsAssumption DEF Init, Shape, NoRow, NewRow
  <1>5. Attached
    BY DEF Init, Attached, NoRun, NoStretch
  <1> QED
    BY <1>3, <1>4, <1>5 DEF Sound

\* No action changes the target of a row that is there.
KeptRows ==
    \A j \in Jobs :
        rows[j].status # "absent" =>
            /\ rows'[j].status # "absent"
            /\ rows'[j].kind = rows[j].kind
            /\ rows'[j].ws = rows[j].ws /\ rows'[j].tp = rows[j].tp

\* Most actions put nothing but replacements in the place of rows.
Replaced == \A j \in Jobs : Replaces(rows'[j], rows[j])

\* No action but a claim puts a run in a slot, or changes what it works on.
KeptRuns ==
    \A s \in Slots :
        runs'[s].job # 0 =>
            /\ runs'[s].job = runs[s].job
            /\ runs'[s].key = runs[s].key /\ runs'[s].conv = runs[s].conv

LEMMA KeysKept ==
    ASSUME KeptRows
    PROVE  \A j \in Jobs :
              rows[j].status # "absent" =>
                  TargetKey(rows'[j], j) = TargetKey(rows[j], j)
  BY DEF KeptRows, TargetKey, OnDeliveryRail

LEMMA ReplacedKeeps ==
    ASSUME Sound, Replaced, nextJob' = nextJob
    PROVE  KeptRows /\ Shape'
  <1>1. KeptRows
    BY DEF Replaced, Replaces, KeptRows
  <1>2. Shape'
    BY DEF Sound, Shape, Replaced, Replaces
  <1> QED
    BY <1>1, <1>2

LEMMA RunsKept ==
    ASSUME Sound, KeptRows, KeptRuns
    PROVE  \A s \in Slots :
              runs'[s].job # 0 =>
                  /\ rows'[runs'[s].job].status # "absent"
                  /\ runs'[s].key = TargetKey(rows'[runs'[s].job], runs'[s].job)
                  /\ rows'[runs'[s].job].kind = "agentRun" => runs'[s].conv \in Sessions
                  /\ Stamped => runs'[s].conv = runs'[s].key
  <1> SUFFICES ASSUME NEW s \in Slots, runs'[s].job # 0
               PROVE  /\ rows'[runs'[s].job].status # "absent"
                      /\ runs'[s].key = TargetKey(rows'[runs'[s].job], runs'[s].job)
                      /\ rows'[runs'[s].job].kind = "agentRun" => runs'[s].conv \in Sessions
                      /\ Stamped => runs'[s].conv = runs'[s].key
    OBVIOUS
  <1> DEFINE j == runs[s].job
  <1>1. /\ runs'[s].job = j /\ j # 0
        /\ runs'[s].key = runs[s].key /\ runs'[s].conv = runs[s].conv
    BY DEF KeptRuns
  <1>2. j \in Jobs
    BY <1>1 DEF Sound, TypeOK, Runs
  <1>3. /\ rows[j].status # "absent" /\ runs[s].key = TargetKey(rows[j], j)
        /\ rows[j].kind = "agentRun" => runs[s].conv \in Sessions
        /\ Stamped => runs[s].conv = runs[s].key
    BY <1>1 DEF Sound, Attached
  <1>4. TargetKey(rows'[j], j) = TargetKey(rows[j], j)
    BY <1>2, <1>3, KeysKept
  <1>5. rows'[j].status # "absent" /\ rows'[j].kind = rows[j].kind
    BY <1>2, <1>3 DEF KeptRows
  <1> QED
    BY <1>1, <1>3, <1>4, <1>5

LEMMA StepKeeps ==
    ASSUME Sound, TypeOK', Shape', KeptRows, KeptRuns,
           stretch'.step \in {"idle", "orphans"}
    PROVE  Sound'
  BY RunsKept DEF Sound, Attached

\* Steps that at most replace rows, and change neither runs nor the stretch.
LEMMA QuietStep ==
    ASSUME Sound, TypeOK', Replaced, UNCHANGED <<nextJob, runs, stretch>>, Idle
    PROVE  Sound'
  BY ReplacedKeeps, StepKeeps DEF KeptRuns, Idle, NoStretch

LEMMA RowsKept ==
    ASSUME TypeOK, UNCHANGED rows
    PROVE  Replaced
  BY DEF TypeOK, Replaced, Replaces

LEMMA WriteOne ==
    ASSUME TypeOK, NEW j \in Jobs, NEW w, Replaces(w, rows[j]),
           rows' = [rows EXCEPT ![j] = w]
    PROVE  Replaced /\ rows' \in [Jobs -> Rows] /\ rows'[j] = w
  BY DEF TypeOK, Replaced, Replaces

LEMMA InsertKeeps ==
    ASSUME Sound, NEW row \in Rows, Insert(row), row.status = "pending",
           row.kind = "agentRun" => row.tp # Voice /\ (Stamped => row.tp # None),
           row.kind = "task" => row.ws # None \/ row.tp # None
    PROVE  /\ KeptRows /\ Shape'
           /\ rows' \in [Jobs -> Rows] /\ nextJob' \in 1..(MaxJobs + 1)
           /\ rows[nextJob].status = "absent"
           /\ rows'[nextJob] = row
           /\ \A j \in Jobs \ {nextJob} : rows'[j] = rows[j]
  <1>1. /\ nextJob \in Jobs /\ nextJob' = nextJob + 1
        /\ rows' = [rows EXCEPT ![nextJob] = row]
        /\ rows \in [Jobs -> Rows]
    BY DEF Insert, Sound, TypeOK
  <1>2. /\ rows' \in [Jobs -> Rows] /\ nextJob' \in 1..(MaxJobs + 1)
        /\ rows'[nextJob] = row
        /\ \A j \in Jobs \ {nextJob} : rows'[j] = rows[j]
    BY <1>1, BoundsAssumption
  <1>3. rows[nextJob].status = "absent"
    BY <1>1, BoundsAssumption DEF Sound, Shape
  <1>4. KeptRows
    BY <1>2, <1>3 DEF KeptRows
  <1>5. Shape'
    BY <1>1, <1>2, BoundsAssumption DEF Sound, Shape
  <1> QED
    BY <1>2, <1>3, <1>4, <1>5

LEMMA TurnsKeepSound ==
    Sound /\ InteractiveTurn => Sound'
  <1> SUFFICES ASSUME Sound, InteractiveTurn PROVE Sound'
    OBVIOUS
  <1>1. ASSUME NEW k \in Chats,
               UserTurnStart(k) \/ UserTurnQueues(k) \/ UserTurnGivesUp(k) \/ UserTurnEnds(k)
        PROVE  Sound'
    <2>1. TypeOK'
      BY <1>1, BoundsAssumption
      DEF Sound, UserTurnStart, UserTurnQueues, UserTurnGivesUp, UserTurnEnds, HandOver, TypeOK
    <2>2. UNCHANGED <<rows, nextJob, runs, stretch>> /\ Idle
      BY <1>1 DEF UserTurnStart, UserTurnQueues, UserTurnGivesUp, UserTurnEnds
    <2> QED
      BY <2>1, <2>2, RowsKept, QuietStep DEF Sound
  <1>2. ASSUME NEW l \in Lanes, RootTurnStart(l) \/ RootTurnEnds(l)
        PROVE  Sound'
    <2>1. TypeOK'
      BY <1>2, BoundsAssumption DEF Sound, RootTurnStart, RootTurnEnds, TypeOK
    <2>2. UNCHANGED <<rows, nextJob, runs, stretch>> /\ Idle
      BY <1>2 DEF RootTurnStart, RootTurnEnds
    <2> QED
      BY <2>1, <2>2, RowsKept, QuietStep DEF Sound
  <1>3. CASE RootAbsorbs
    <2>1. ASSUME NEW j \in Jobs
          PROVE  Replaces(rows[j], rows[j]) /\ Replaces(Surfaced(rows[j]), rows[j])
      BY RowWrites, BoundsAssumption DEF Sound, TypeOK, Replaces
    <2>2. TypeOK'
      BY <1>3, <2>1 DEF Sound, RootAbsorbs, TypeOK, Replaces
    <2>4. Replaced
      BY <1>3, <2>1 DEF RootAbsorbs, Replaced
    <2>5. UNCHANGED <<nextJob, runs, stretch>> /\ Idle
      BY <1>3 DEF RootAbsorbs
    <2> QED
      BY <2>2, <2>4, <2>5, QuietStep
  <1> QED
    BY <1>1, <1>2, <1>3 DEF InteractiveTurn

LEMMA NoRunIsRun == NoRun \in Runs
  BY BoundsAssumption DEF NoRun, Runs

\* Steps that only replace rows, in one place.
LEMMA OneRowStep ==
    ASSUME Sound, Idle, NEW j \in Jobs, NEW w, Replaces(w, rows[j]),
           rows' = [rows EXCEPT ![j] = w],
           UNCHANGED <<nextJob, runs, holder, waiting, rootTurns, stretch>>,
           stopped' \subseteq Jobs, absorbed' \subseteq Jobs,
           spent' \in [crashes : 0..MaxCrashes, lapses : 0..MaxLapses,
                       turns : 0..MaxTurns]
    PROVE  Sound'
  <1>1. Replaced /\ rows' \in [Jobs -> Rows]
    BY WriteOne DEF Sound
  <1>2. TypeOK'
    BY <1>1 DEF Sound, TypeOK
  <1> QED
    BY <1>1, <1>2, QuietStep

LEMMA InsertStep ==
    ASSUME Sound, NEW row \in Rows, Insert(row), row.status = "pending",
           row.kind = "agentRun" => row.tp # Voice /\ (Stamped => row.tp # None),
           row.kind = "task" => row.ws # None \/ row.tp # None,
           UNCHANGED <<runs, holder, waiting, rootTurns, stopped, absorbed, spent>>,
           stretch' \in Stretches, stretch'.step \in {"idle", "orphans"}
    PROVE  Sound'
  <1>1. TypeOK'
    BY InsertKeeps DEF Sound, TypeOK
  <1> QED
    BY <1>1, InsertKeeps, StepKeeps DEF KeptRuns

LEMMA EnqueueKeepsSound ==
    ASSUME Sound, NEW q \in Requests, Enqueue(q) PROVE Sound'
  <1> DEFINE row == NewRow(q.kind, q.ws, q.tp, q.req, nextJob, 0, "asked")
  <1>1. /\ q.kind \in Kinds /\ q.ws \in Workspaces \cup {None}
        /\ q.tp \in Sessions \cup {Voice, None} /\ q.req \in Requesters
        /\ nextJob \in 0..MaxJobs /\ 0 \in 0..MaxJobs /\ "asked" \in Forms
    BY RequestsAssumption, BoundsAssumption
    DEF Enqueue, Insert, Kinds, WorkKinds, Forms
  <1>2. row \in Rows
    BY <1>1, NewRowIsRow, Zenon
  <1>3. /\ row.status = "pending"
        /\ row.kind = q.kind /\ row.ws = q.ws /\ row.tp = q.tp
    BY DEF NewRow
  <1>4. /\ q.tp # Voice
        /\ q.kind = "task" => q.ws # None \/ q.tp # None
        /\ Stamped /\ q.kind = "agentRun" => q.tp # None
    BY RequestsAssumption, IdentityAssumption DEF Chats, Lanes, Stamped
  <1>5. stretch' \in Stretches /\ stretch'.step \in {"idle", "orphans"}
    BY DEF Sound, TypeOK, Enqueue, Idle, NoStretch
  <1> HIDE DEF row
  <1> QED
    BY <1>2, <1>3, <1>4, <1>5, InsertStep DEF Enqueue, row

LEMMA DeliveryRowShape ==
    ASSUME NEW j \in Jobs, NEW kind \in DeliveryKinds, NEW form \in Forms
    PROVE  /\ DeliveryRow(j, kind, form).status = "pending"
           /\ DeliveryRow(j, kind, form).kind = kind
           /\ kind # "agentRun" /\ kind # "task"
  BY DEF DeliveryRow, NewRow, DeliveryKinds

LEMMA SendKeepsSound ==
    ASSUME Sound, NEW s \in Slots
    PROVE  /\ \A kind \in {"report", "direct"} : SendReport(s, kind) => Sound'
           /\ SendUpdate(s) => Sound'
  <1>1. ASSUME NEW kind \in {"report", "direct"}, SendReport(s, kind)
        PROVE  Sound'
    <2>1. runs[s].job \in Jobs
      BY <1>1 DEF SendReport, Running, Sound, TypeOK, Runs
    <2>2. kind \in DeliveryKinds /\ "spoken" \in Forms
      BY DEF DeliveryKinds, Forms
    <2>3. PICK row \in Rows : /\ Insert(row) /\ row.status = "pending"
                              /\ row.kind # "agentRun" /\ row.kind # "task"
      BY <1>1, <2>1, <2>2, DeliveryRowIsRow, DeliveryRowShape DEF SendReport, Sound
    <2>4. stretch' \in Stretches
      BY <1>1 DEF SendReport, Stretches
    <2>5. TypeOK'
      BY <1>1, <2>3, <2>4, InsertKeeps DEF Sound, TypeOK, SendReport
    <2>6. KeptRuns /\ KeptRows /\ Shape'
      BY <1>1, <2>3, InsertKeeps DEF SendReport, KeptRuns
    <2>7. /\ stretch'.step = "markReported" /\ stretch'.slot = s
          /\ runs'[s].job # 0
      BY <1>1 DEF SendReport, Running
    <2> QED
      BY <2>5, <2>6, <2>7, RunsKept DEF Sound, Attached
  <1>2. CASE SendUpdate(s)
    <2>1. runs[s].job \in Jobs
      BY <1>2 DEF SendUpdate, Running, Sound, TypeOK, Runs
    <2>2. "update" \in DeliveryKinds /\ "spoken" \in Forms
      BY DEF DeliveryKinds, Forms
    <2> DEFINE row == DeliveryRow(runs[s].job, "update", "spoken")
    <2>3. /\ row \in Rows /\ row.status = "pending"
          /\ row.kind # "agentRun" /\ row.kind # "task"
      BY <2>1, <2>2, DeliveryRowIsRow, DeliveryRowShape DEF Sound
    <2>4. Idle /\ UNCHANGED <<runs, holder, waiting, rootTurns, stretch, stopped,
                              absorbed, spent>>
      BY <1>2 DEF SendUpdate, Running
    <2>5. stretch' \in Stretches /\ stretch'.step \in {"idle", "orphans"}
      BY <2>4 DEF Idle, NoStretch, Sound, TypeOK
    <2>6. \/ \E u \in Jobs : /\ rows' = [rows EXCEPT ![u].about = row.about]
                            /\ UNCHANGED nextJob
          \/ Insert(row)
      BY <1>2 DEF SendUpdate, PendingUpdates
    <2> HIDE DEF row
    <2>7. CASE Insert(row)
      BY <2>3, <2>4, <2>5, <2>7, InsertStep
    <2>8. ASSUME NEW u \in Jobs, rows' = [rows EXCEPT ![u].about = row.about],
                 UNCHANGED nextJob
          PROVE  Sound'
      <3>1. row.about \in 0..MaxJobs /\ rows[u] \in Rows
        BY <2>3 DEF Rows, Sound, TypeOK
      <3>2. Replaces([rows[u] EXCEPT !.about = row.about], rows[u])
        BY <3>1 DEF Replaces, Rows
      <3> QED
        BY <2>4, <2>8, <3>2, OneRowStep DEF Sound, TypeOK
    <2> QED
      BY <2>6, <2>7, <2>8
  <1> QED
    BY <1>1, <1>2

\* The steps of a row on its own: a deadline, a lease, the user's Stop.
LEMMA RowStepKeepsSound ==
    ASSUME Sound, NEW j \in Jobs, Stop(j) \/ BecomesDue(j) \/ LeaseLapses(j)
    PROVE  Sound'
  <1>1. rows[j] \in Rows /\ rows \in [Jobs -> Rows]
    BY DEF Sound, TypeOK
  <1>2. CASE BecomesDue(j)
    <2>1. Replaces([rows[j] EXCEPT !.due = TRUE], rows[j])
      BY <1>1 DEF Replaces, Rows
    <2>2. /\ Idle /\ rows' = [rows EXCEPT ![j] = [rows[j] EXCEPT !.due = TRUE]]
          /\ UNCHANGED <<nextJob, runs, holder, waiting, rootTurns, stretch,
                         stopped, absorbed, spent>>
      BY <1>1, <1>2 DEF BecomesDue
    <2> QED
      BY <2>1, <2>2, OneRowStep DEF Sound, TypeOK
  <1>3. CASE LeaseLapses(j)
    <2>1. Replaces([rows[j] EXCEPT !.lease = "lapsed"], rows[j])
      BY <1>1 DEF Replaces, Rows
    <2>2. /\ Idle /\ rows' = [rows EXCEPT ![j] = [rows[j] EXCEPT !.lease = "lapsed"]]
          /\ UNCHANGED <<nextJob, runs, holder, waiting, rootTurns, stretch,
                         stopped, absorbed>>
      BY <1>1, <1>3 DEF LeaseLapses
    <2>3. spent' \in [crashes : 0..MaxCrashes, lapses : 0..MaxLapses,
                      turns : 0..MaxTurns]
      BY <1>3, BoundsAssumption DEF LeaseLapses, Sound, TypeOK
    <2> QED
      BY <2>1, <2>2, <2>3, OneRowStep DEF Sound, TypeOK
  <1>4. CASE Stop(j)
    <2>1. stopped' \subseteq Jobs
      BY <1>4 DEF Stop, Sound, TypeOK
    <2>2. /\ Idle
          /\ UNCHANGED <<nextJob, holder, waiting, rootTurns, stretch, absorbed,
                         spent>>
      BY <1>4 DEF Stop
    <2>3. CASE rows[j].status = "pending"
      <3>1. Replaces([rows[j] EXCEPT !.status = "failed"], rows[j])
        BY <1>1, <2>3 DEF Replaces, Rows, Statuses
      <3>2. /\ rows' = [rows EXCEPT ![j] = [rows[j] EXCEPT !.status = "failed"]]
            /\ UNCHANGED runs
        BY <1>1, <1>4, <2>3 DEF Stop
      <3> QED
        BY <2>1, <2>2, <3>1, <3>2, OneRowStep DEF Sound, TypeOK
    <2>4. CASE rows[j].status # "pending"
      <3>1. /\ UNCHANGED rows
            /\ runs' = [s \in Slots |-> IF runs[s].job = j
                                        THEN [runs[s] EXCEPT !.stop = TRUE]
                                        ELSE runs[s]]
        BY <1>4, <2>4 DEF Stop
      <3>2. /\ runs' \in [Slots -> Runs]
            /\ \A s \in Slots : /\ runs'[s].job = runs[s].job
                                /\ runs'[s].key = runs[s].key
                                /\ runs'[s].conv = runs[s].conv
        BY <3>1 DEF Sound, TypeOK, Runs
      <3>3. TypeOK' /\ KeptRuns
        BY <2>1, <2>2, <3>1, <3>2 DEF Sound, TypeOK, KeptRuns
      <3>4. Replaced
        BY <3>1, RowsKept DEF Sound
      <3>5. KeptRows /\ Shape'
        BY <2>2, <3>4, ReplacedKeeps
      <3>6. stretch'.step \in {"idle", "orphans"}
        BY <2>2 DEF Idle, NoStretch
      <3> QED
        BY <3>3, <3>5, <3>6, StepKeeps
    <2> QED
      BY <2>3, <2>4
  <1> QED
    BY <1>2, <1>3, <1>4

LEMMA ClaimKeepsSound ==
    ASSUME Sound, Claim PROVE Sound'
  <1>1. PICK s \in Slots, j \in Jobs : \/ ClaimAndRun(s, j)
                                       \/ ClaimAndDeliverDirectly(s, j)
                                       \/ ClaimAndYield(s, j)
    BY DEF Claim
  <1>2. /\ rows[j] \in Rows /\ rows \in [Jobs -> Rows]
        /\ rows[j].status = "pending" /\ Idle
    BY <1>1 DEF Sound, TypeOK, ClaimAndRun, ClaimAndDeliverDirectly, ClaimAndYield,
                Candidate, Claimable
  <1>3. CASE ClaimAndYield(s, j)
    <2>1. Replaces([rows[j] EXCEPT !.due = FALSE], rows[j])
      BY <1>2 DEF Replaces, Rows
    <2>2. /\ rows' = [rows EXCEPT ![j] = [rows[j] EXCEPT !.due = FALSE]]
          /\ UNCHANGED <<nextJob, runs, holder, waiting, rootTurns, stretch,
                         stopped, absorbed, spent>>
      BY <1>2, <1>3 DEF ClaimAndYield
    <2> QED
      BY <1>2, <2>1, <2>2, OneRowStep DEF Sound, TypeOK
  <1>4. CASE ClaimAndDeliverDirectly(s, j)
    <2>1. Replaces([rows[j] EXCEPT !.status = "completed"], rows[j])
      BY <1>2 DEF Replaces, Rows, Statuses
    <2>2. /\ rows' = [rows EXCEPT ![j] = [rows[j] EXCEPT !.status = "completed"]]
          /\ UNCHANGED <<nextJob, runs, holder, waiting, rootTurns, stretch,
                         stopped, absorbed, spent>>
      BY <1>2, <1>4 DEF ClaimAndDeliverDirectly
    <2> QED
      BY <1>2, <2>1, <2>2, OneRowStep DEF Sound, TypeOK
  <1>5. CASE ClaimAndRun(s, j)
    <2> DEFINE w == [rows[j] EXCEPT !.status = "claimed", !.lease = "live"]
               key == TargetKey(rows[j], j)
    <2>1. Replaces(w, rows[j])
      BY <1>2 DEF Replaces, Rows, Statuses
    <2>2. /\ rows' = [rows EXCEPT ![j] = w]
          /\ holder' = [holder EXCEPT ![key] = s]
          /\ UNCHANGED <<nextJob, waiting, rootTurns, stretch, stopped, absorbed,
                         spent>>
      BY <1>2, <1>5 DEF ClaimAndRun
    <2>3. PICK c \in Conversations(j) :
             runs' = [runs EXCEPT ![s] = [job |-> j, key |-> key, conv |-> c,
                                          attempts |-> rows[j].attempts,
                                          stop |-> FALSE]]
      BY <1>5 DEF ClaimAndRun
    <2>4. key \in Keys
      BY KeyIsKey DEF Sound
    <2>5. /\ c \in Keys /\ (rows[j].kind = "agentRun" => c \in Sessions)
          /\ Stamped => c = key
      <3>1. CASE rows[j].kind = "agentRun" /\ rows[j].tp = None
        BY <1>2, <3>1 DEF Conversations, Keys, Chats, Sound, Shape
      <3>2. CASE ~(rows[j].kind = "agentRun" /\ rows[j].tp = None)
        <4>1. c = key
          BY <3>2 DEF Conversations
        <4>2. rows[j].kind = "agentRun" => rows[j].tp \in Sessions
          BY <1>2, <3>2 DEF Sound, Shape, Rows
        <4>3. rows[j].kind = "agentRun" => key = rows[j].tp
          BY <3>2 DEF TargetKey
        <4> QED
          BY <2>4, <4>1, <4>2, <4>3
      <3> QED
        BY <3>1, <3>2
    <2> HIDE DEF w, key
    <2>6. Replaced /\ rows' \in [Jobs -> Rows] /\ rows'[j] = w
      BY <2>1, <2>2, WriteOne DEF Sound
    <2>7. [job |-> j, key |-> key, conv |-> c, attempts |-> rows[j].attempts,
           stop |-> FALSE] \in Runs
      BY <1>2, <2>4, <2>5, BoundsAssumption DEF Runs, Rows
    <2>8. TypeOK'
      BY <2>2, <2>3, <2>4, <2>6, <2>7 DEF Sound, TypeOK
    <2>9. KeptRows /\ Shape'
      BY <2>2, <2>6, ReplacedKeeps
    <2>10. ASSUME NEW t \in Slots, runs'[t].job # 0
           PROVE  /\ rows'[runs'[t].job].status # "absent"
                  /\ runs'[t].key = TargetKey(rows'[runs'[t].job], runs'[t].job)
                  /\ rows'[runs'[t].job].kind = "agentRun" => runs'[t].conv \in Sessions
                  /\ Stamped => runs'[t].conv = runs'[t].key
      <3>1. CASE t = s
        <4>1. runs'[t].job = j /\ runs'[t].key = key /\ runs'[t].conv = c
          BY <2>3, <3>1 DEF Sound, TypeOK
        <4>2. /\ rows'[j].status # "absent" /\ rows'[j].kind = rows[j].kind
              /\ TargetKey(rows'[j], j) = key
          BY <1>2, <2>9, KeysKept DEF KeptRows, key
        <4> QED
          BY <2>5, <4>1, <4>2
      <3>2. CASE t # s
        <4>1. runs'[t] = runs[t]
          BY <2>3, <3>2 DEF Sound, TypeOK
        <4>2. runs[t].job \in Jobs
          BY <4>1, <2>10 DEF Sound, TypeOK, Runs
        <4>3. /\ rows[runs[t].job].status # "absent"
              /\ runs[t].key = TargetKey(rows[runs[t].job], runs[t].job)
              /\ rows[runs[t].job].kind = "agentRun" => runs[t].conv \in Sessions
              /\ Stamped => runs[t].conv = runs[t].key
          BY <2>10, <4>1 DEF Sound, Attached
        <4> QED
          BY <2>9, <4>1, <4>2, <4>3, KeysKept DEF KeptRows
      <3> QED
        BY <3>1, <3>2
    <2>11. Attached'
      BY <1>2, <2>2, <2>10 DEF Attached, Idle, NoStretch
    <2> QED
      BY <2>8, <2>9, <2>11 DEF Sound
  <1> QED
    BY <1>1, <1>3, <1>4, <1>5

LEMMA HeartbeatKeepsSound ==
    ASSUME Sound, NEW s \in Slots, Heartbeat(s) PROVE Sound'
  <1>1. runs[s].job \in Jobs /\ Idle
    BY DEF Heartbeat, Running, Sound, TypeOK, Runs
  <1>2. rows[runs[s].job] \in Rows /\ rows \in [Jobs -> Rows]
    BY <1>1 DEF Sound, TypeOK
  <1>3. Replaces([rows[runs[s].job] EXCEPT !.lease = "live"], rows[runs[s].job])
    BY <1>2 DEF Replaces, Rows
  <1>4. /\ rows' = [rows EXCEPT ![runs[s].job] =
                      [rows[runs[s].job] EXCEPT !.lease = "live"]]
        /\ UNCHANGED <<nextJob, runs, holder, waiting, rootTurns, stretch, stopped,
                       absorbed, spent>>
    BY <1>1, <1>2 DEF Heartbeat
  <1> QED
    BY <1>1, <1>3, <1>4, OneRowStep DEF Sound, TypeOK

\* Giving a slot back.
LEMMA ReleaseTyped ==
    ASSUME TypeOK, NEW s \in Slots, Release(s)
    PROVE  /\ runs' \in [Slots -> Runs] /\ KeptRuns
           /\ holder' \in [Keys -> Slots \cup {None, User}]
           /\ waiting' \subseteq Chats
  <1>1. runs' \in [Slots -> Runs] /\ KeptRuns
    BY NoRunIsRun DEF Release, TypeOK, KeptRuns, NoRun
  <1>2. /\ holder' \in [Keys -> Slots \cup {None, User}]
        /\ waiting' \subseteq Chats
    BY DEF Release, HandOver, TypeOK
  <1> QED
    BY <1>1, <1>2

\* A run that writes its row for the last time and gives the slot back.
LEMMA SettleKeepsSound ==
    ASSUME Sound, NEW s \in Slots, Running(s), NEW w,
           Replaces(w, rows[runs[s].job]),
           Settle(s, [rows EXCEPT ![runs[s].job] = w])
    PROVE  Sound'
  <1>1. runs[s].job \in Jobs /\ Idle
    BY DEF Running, Sound, TypeOK, Runs
  <1>2. Replaced /\ rows' \in [Jobs -> Rows]
    BY <1>1, WriteOne DEF Settle, Sound
  <1>3. TypeOK' /\ KeptRuns
    BY <1>2, ReleaseTyped DEF Settle, Sound, TypeOK
  <1>4. KeptRows /\ Shape'
    BY <1>2, ReplacedKeeps DEF Settle
  <1>5. stretch'.step \in {"idle", "orphans"}
    BY <1>1 DEF Settle, Idle, NoStretch
  <1> QED
    BY <1>3, <1>4, <1>5, StepKeeps

\* A run that has a commit to make after its terminal write.
LEMMA SettleThenKeepsSound ==
    ASSUME Sound, NEW s \in Slots, Running(s), NEW w,
           Replaces(w, rows[runs[s].job]), w.status # "claimed",
           NEW step \in {"followUp", "giveUp"},
           SettleThen(s, [rows EXCEPT ![runs[s].job] = w], step)
    PROVE  Sound'
  <1>1. runs[s].job \in Jobs /\ runs[s].job # 0
    BY DEF Running, Sound, TypeOK, Runs
  <1>2. Replaced /\ rows' \in [Jobs -> Rows] /\ rows'[runs[s].job] = w
    BY <1>1, WriteOne DEF SettleThen, Sound
  <1>3. stretch' \in Stretches /\ stretch'.step = step /\ stretch'.slot = s
    BY <1>1 DEF SettleThen, Stretches
  <1>4. TypeOK' /\ KeptRuns /\ runs' = runs
    BY <1>2, <1>3 DEF SettleThen, Sound, TypeOK, KeptRuns
  <1>5. KeptRows /\ Shape'
    BY <1>2, ReplacedKeeps DEF SettleThen
  <1>6. Attached'
    BY <1>1, <1>2, <1>3, <1>4, <1>5, RunsKept DEF Attached
  <1> QED
    BY <1>4, <1>5, <1>6 DEF Sound

LEMMA MayRetryBound ==
    ASSUME TypeOK, NEW s \in Slots, MayRetry(runs[s].attempts + 1)
    PROVE  runs[s].attempts + 1 \in 0..(MaxAttempts - 1)
  BY BoundsAssumption DEF TypeOK, Runs, MayRetry

LEMMA TerminalWrites ==
    ASSUME NEW q \in Rows
    PROVE  /\ Replaces(Completed(q), q) /\ Completed(q).status # "claimed"
           /\ Replaces(Failed(q), q) /\ Failed(q).status # "claimed"
           /\ Replaces(Surfaced(q), q) /\ Surfaced(q).status = q.status
           /\ Replaces(q, q)
  BY RowWrites, BoundsAssumption DEF Replaces

\* What a run may leave in the place of its row r, and the ways it may end.
LastWrites(r) == {Completed(r), Failed(r), Surfaced(Completed(r)), Surfaced(Failed(r))}

EndsWith(s, w) == Settle(s, [rows EXCEPT ![runs[s].job] = w])

StandsDown(s) == ~Owns(runs[s].job) /\ Settle(s, rows)

GoesRoundAgain(s) ==
    /\ MayRetry(runs[s].attempts + 1)
    /\ EndsWith(s, Requeued(rows[runs[s].job], runs[s].attempts + 1))

GoesOn(s, w) ==
    \E step \in {"followUp", "giveUp"} :
        SettleThen(s, [rows EXCEPT ![runs[s].job] = w], step)

LEMMA TurnEndsForms ==
    ASSUME Sound, NEW s \in Slots, TurnEnds(s)
    PROVE  /\ Running(s)
           /\ \/ StandsDown(s)
              \/ \E w \in LastWrites(rows[runs[s].job]) : EndsWith(s, w) \/ GoesOn(s, w)
              \/ GoesRoundAgain(s)
  <1> DEFINE r == rows[runs[s].job]
  <1>1. Running(s)
    BY DEF TurnEnds, StoppedTurnEnds, RunThrows, DeliveryCompletes, TaskCompletes,
           AgentRunCompletes, DeliveryFails, AttemptFails
  <1>2. runs[s].job \in Jobs /\ rows \in [Jobs -> Rows]
    BY <1>1 DEF Running, Sound, TypeOK, Runs
  <1>3. \/ StandsDown(s)
        \/ \E w \in LastWrites(r) : EndsWith(s, w) \/ GoesOn(s, w)
        \/ GoesRoundAgain(s)
    <2> USE DEF EndsWith, LastWrites
    <2>1. CASE StoppedTurnEnds(s) \/ RunThrows(s)
      BY <1>2, <2>1 DEF StoppedTurnEnds, RunThrows
    <2>2. CASE DeliveryCompletes(s)
      BY <1>2, <2>2 DEF DeliveryCompletes
    <2>3. CASE TaskCompletes(s)
      <3>1. CASE r.kind = "task" /\ WentDirect(runs[s].job)
        BY <1>2, <2>3, <3>1 DEF TaskCompletes, StandsDown, GoesOn
      <3>2. CASE ~(r.kind = "task" /\ WentDirect(runs[s].job))
        BY <1>2, <2>3, <3>2 DEF TaskCompletes, StandsDown, GoesOn
      <3> QED
        BY <3>1, <3>2
    <2>4. CASE AgentRunCompletes(s)
      BY <1>2, <2>4 DEF AgentRunCompletes, GoesOn
    <2>5. ASSUME NEW retryable \in BOOLEAN, DeliveryFails(s, retryable)
          PROVE  (\E w \in LastWrites(r) : EndsWith(s, w)) \/ GoesRoundAgain(s)
      <3>1. CASE retryable /\ MayRetry(runs[s].attempts + 1)
        BY <1>2, <2>5, <3>1 DEF DeliveryFails, GoesRoundAgain
      <3>2. CASE ~(retryable /\ MayRetry(runs[s].attempts + 1))
        BY <1>2, <2>5, <3>2 DEF DeliveryFails
      <3> QED
        BY <3>1, <3>2
    <2>6. ASSUME NEW retryable \in BOOLEAN, AttemptFails(s, retryable)
          PROVE  \/ \E w \in LastWrites(r) : EndsWith(s, w) \/ GoesOn(s, w)
                 \/ GoesRoundAgain(s)
      <3>1. CASE Spoke(runs[s].job)
        BY <1>2, <2>6, <3>1 DEF AttemptFails
      <3>2. CASE ~Spoke(runs[s].job) /\ retryable /\ MayRetry(runs[s].attempts + 1)
        BY <1>2, <2>6, <3>2 DEF AttemptFails, GoesRoundAgain
      <3>3. CASE ~Spoke(runs[s].job) /\ ~(retryable /\ MayRetry(runs[s].attempts + 1))
        BY <1>2, <2>6, <3>3 DEF AttemptFails, GoesOn
      <3> QED
        BY <3>1, <3>2, <3>3
    <2> QED
      BY <2>1, <2>2, <2>3, <2>4, <2>5, <2>6 DEF TurnEnds
  <1> QED
    BY <1>1, <1>3

LEMMA LastWritesReplace ==
    ASSUME NEW r \in Rows, NEW w \in LastWrites(r)
    PROVE  Replaces(w, r) /\ w.status # "claimed"
  <1>1. /\ Replaces(Completed(r), r) /\ Completed(r).status # "claimed"
        /\ Replaces(Failed(r), r) /\ Failed(r).status # "claimed"
    BY TerminalWrites
  <1>2. Completed(r) \in Rows /\ Failed(r) \in Rows
    BY <1>1 DEF Replaces
  <1>3. /\ Replaces(Surfaced(Completed(r)), Completed(r))
        /\ Surfaced(Completed(r)).status = Completed(r).status
        /\ Replaces(Surfaced(Failed(r)), Failed(r))
        /\ Surfaced(Failed(r)).status = Failed(r).status
    BY <1>2, TerminalWrites
  <1>4. /\ Replaces(Surfaced(Completed(r)), r)
        /\ Replaces(Surfaced(Failed(r)), r)
    BY <1>1, <1>3 DEF Replaces
  <1> QED
    BY <1>1, <1>3, <1>4 DEF LastWrites

LEMMA TurnEndsKeepsSound ==
    ASSUME Sound, NEW s \in Slots, TurnEnds(s) PROVE Sound'
  <1> DEFINE r == rows[runs[s].job]
  <1>1. Running(s)
    BY TurnEndsForms
  <1>2. /\ runs[s].job \in Jobs /\ r \in Rows
        /\ rows = [rows EXCEPT ![runs[s].job] = r]
    BY <1>1 DEF Running, Sound, TypeOK, Runs
  <1>3. CASE StandsDown(s)
    <2>1. Replaces(r, r)
      BY <1>2, TerminalWrites
    <2> QED
      BY <1>1, <1>2, <1>3, <2>1, SettleKeepsSound DEF StandsDown
  <1>4. CASE GoesRoundAgain(s)
    <2>1. Replaces(Requeued(r, runs[s].attempts + 1), r)
      BY <1>2, <1>4, MayRetryBound, RowWrites DEF GoesRoundAgain, Sound
    <2> QED
      BY <1>1, <1>4, <2>1, SettleKeepsSound DEF GoesRoundAgain, EndsWith
  <1>5. ASSUME NEW w \in LastWrites(r), EndsWith(s, w) \/ GoesOn(s, w)
        PROVE  Sound'
    <2>1. Replaces(w, r) /\ w.status # "claimed"
      BY <1>2, LastWritesReplace
    <2> QED
      BY <1>1, <1>5, <2>1, SettleKeepsSound, SettleThenKeepsSound DEF EndsWith, GoesOn
  <1> QED
    BY <1>3, <1>4, <1>5, TurnEndsForms

LEMMA MarkReportedKeepsSound ==
    ASSUME Sound, MarkReported PROVE Sound'
  <1> DEFINE j == runs[stretch.slot].job
  <1>1. j \in Jobs
    BY DEF MarkReported, Sound, Attached, TypeOK, Runs
  <1>2. rows[j] \in Rows /\ rows \in [Jobs -> Rows]
    BY <1>1 DEF Sound, TypeOK
  <1>3. Replaces([rows[j] EXCEPT !.reported = TRUE], rows[j])
    BY <1>2 DEF Replaces, Rows
  <1>4. rows' = [rows EXCEPT ![j] = [rows[j] EXCEPT !.reported = TRUE]]
    BY <1>1, <1>2 DEF MarkReported
  <1> HIDE DEF j
  <1>5. Replaced /\ rows' \in [Jobs -> Rows]
    BY <1>1, <1>3, <1>4, WriteOne DEF Sound
  <1>6. /\ UNCHANGED <<nextJob, runs, holder, waiting, rootTurns, stopped, absorbed,
                       spent>>
        /\ stretch' = NoStretch
    BY DEF MarkReported
  <1>7. NoStretch \in Stretches
    BY DEF NoStretch, Stretches
  <1>8. TypeOK' /\ KeptRuns
    BY <1>5, <1>6, <1>7 DEF Sound, TypeOK, KeptRuns
  <1>9. stretch'.step \in {"idle", "orphans"}
    BY <1>6 DEF NoStretch
  <1> QED
    BY <1>5, <1>6, <1>8, <1>9, ReplacedKeeps, StepKeeps

LEMMA FollowUpKeepsSound ==
    ASSUME Sound, NEW s \in Slots, FollowUp(s) PROVE Sound'
  <1> DEFINE j == runs[s].job
  <1>1. j \in Jobs /\ j # 0
    BY DEF FollowUp, Sound, Attached, TypeOK, Runs
  <1>2. rows[j] \in Rows /\ rows[j].status # "absent"
    BY <1>1 DEF Sound, TypeOK, Attached
  <1>3. /\ NoStretch \in Stretches /\ stretch' = NoStretch
        /\ stretch'.step \in {"idle", "orphans"}
    BY DEF FollowUp, NoStretch, Stretches
  <1>4. /\ runs' \in [Slots -> Runs] /\ KeptRuns
        /\ holder' \in [Keys -> Slots \cup {None, User}]
        /\ waiting' \subseteq Chats
    BY ReleaseTyped DEF FollowUp, Sound
  <1>5. ASSUME NEW row \in Rows, Insert(row), row.status = "pending",
               row.kind = "agentRun" => row.tp # Voice /\ (Stamped => row.tp # None),
               row.kind = "task" => row.ws # None \/ row.tp # None
        PROVE  Sound'
    <2>1. /\ KeptRows /\ Shape'
          /\ rows' \in [Jobs -> Rows] /\ nextJob' \in 1..(MaxJobs + 1)
      BY <1>5, InsertKeeps
    <2>2. TypeOK'
      BY <1>3, <1>4, <2>1 DEF FollowUp, Sound, TypeOK
    <2> QED
      BY <1>3, <1>4, <2>1, <2>2, StepKeeps
  <1>6. CASE Insert(ContinuationRow(s))
    <2> DEFINE tp == IF rows[j].kind = "agentRun" THEN runs[s].conv ELSE rows[j].tp
    <2>1. rows[j].kind = "agentRun" => runs[s].conv \in Sessions
      BY <1>1 DEF Sound, Attached
    <2>2. tp \in Sessions \cup {Voice, None}
      BY <1>2, <2>1 DEF Rows
    <2>3. ContinuationRow(s) = NewRow(rows[j].kind, rows[j].ws, tp, rows[j].req,
                                      rows[j].thread, j, "continuation")
      BY DEF ContinuationRow
    <2>4. /\ rows[j].kind \in Kinds /\ rows[j].ws \in Workspaces \cup {None}
          /\ rows[j].req \in Requesters /\ rows[j].thread \in 0..MaxJobs
          /\ j \in 0..MaxJobs /\ "continuation" \in Forms
      BY <1>1, <1>2, BoundsAssumption DEF Rows, Forms
    <2>5. rows[j].kind = "agentRun" => tp # Voice /\ tp # None
      BY <2>1, IdentityAssumption DEF Chats, Lanes
    <2>6. rows[j].kind = "task" => rows[j].ws # None \/ tp # None
      BY <1>1, <1>2 DEF Sound, Shape
    <2> HIDE DEF tp, j
    <2>7. ContinuationRow(s) \in Rows
      <3>1. NewRow(rows[j].kind, rows[j].ws, tp, rows[j].req, rows[j].thread, j,
                   "continuation") \in Rows
        BY <2>2, <2>4, NewRowIsRow, Zenon
      <3> QED
        BY <2>3, <3>1
    <2>8. /\ ContinuationRow(s).status = "pending"
          /\ ContinuationRow(s).kind = rows[j].kind
          /\ ContinuationRow(s).ws = rows[j].ws
          /\ ContinuationRow(s).tp = tp
      BY <2>3 DEF NewRow
    <2> QED
      BY <1>5, <1>6, <2>5, <2>6, <2>7, <2>8
  <1>7. CASE Insert(DeliveryRow(j, "report", "auto"))
    <2>1. "report" \in DeliveryKinds /\ "auto" \in Forms
      BY DEF DeliveryKinds, Forms
    <2> HIDE DEF j
    <2> QED
      BY <1>1, <1>5, <1>7, <2>1, DeliveryRowIsRow, DeliveryRowShape DEF Sound
  <1>8. CASE UNCHANGED <<rows, nextJob>>
    <2>1. Replaced
      BY <1>8, RowsKept DEF Sound
    <2>2. KeptRows /\ Shape'
      BY <1>8, <2>1, ReplacedKeeps
    <2>3. TypeOK'
      BY <1>3, <1>4, <1>8 DEF FollowUp, Sound, TypeOK
    <2> QED
      BY <1>3, <1>4, <2>2, <2>3, StepKeeps
  <1> QED
    BY <1>6, <1>7, <1>8 DEF FollowUp

LEMMA GiveUpKeepsSound ==
    ASSUME Sound, NEW s \in Slots, GiveUp(s) PROVE Sound'
  <1> DEFINE j == runs[s].job
             row == DeliveryRow(j, "report", "giveUp")
  <1>1. j \in Jobs /\ j # 0
    BY DEF GiveUp, Sound, Attached, TypeOK, Runs
  <1>2. rows[j] \in Rows /\ rows[j].status # "absent" /\ rows \in [Jobs -> Rows]
    BY <1>1 DEF Sound, TypeOK, Attached
  <1>3. "report" \in DeliveryKinds /\ "giveUp" \in Forms
    BY DEF DeliveryKinds, Forms
  <1>4. /\ row \in Rows /\ row.status = "pending"
        /\ row.kind # "agentRun" /\ row.kind # "task"
    BY <1>1, <1>3, DeliveryRowIsRow, DeliveryRowShape DEF Sound
  <1>5. /\ nextJob \in Jobs /\ nextJob' = nextJob + 1
        /\ rows' = [rows EXCEPT ![nextJob] = row, ![j] = Surfaced(@)]
    BY DEF GiveUp
  <1>6. rows[nextJob].status = "absent" /\ j # nextJob
    BY <1>1, <1>2, <1>5, BoundsAssumption DEF Sound, Shape
  <1>7. Replaces(Surfaced(rows[j]), rows[j])
    BY <1>2, TerminalWrites
  <1> HIDE DEF row, j
  <1>8. /\ rows' \in [Jobs -> Rows]
        /\ rows'[nextJob] = row /\ rows'[j] = Surfaced(rows[j])
        /\ \A i \in Jobs \ {nextJob, j} : rows'[i] = rows[i]
    BY <1>1, <1>2, <1>4, <1>5, <1>6, <1>7 DEF Replaces
  <1>9. KeptRows
    BY <1>6, <1>7, <1>8 DEF KeptRows, Replaces
  <1>10. Shape'
    BY <1>4, <1>5, <1>6, <1>7, <1>8, BoundsAssumption DEF Sound, Shape, Replaces
  <1>11. /\ runs' \in [Slots -> Runs] /\ KeptRuns
         /\ holder' \in [Keys -> Slots \cup {None, User}]
         /\ waiting' \subseteq Chats
    BY ReleaseTyped DEF GiveUp, Sound
  <1>12. /\ stretch' \in Stretches /\ stretch'.step \in {"idle", "orphans"}
    BY DEF GiveUp, NoStretch, Stretches
  <1>13. nextJob' \in 1..(MaxJobs + 1)
    BY <1>5, BoundsAssumption
  <1>14. TypeOK'
    BY <1>8, <1>11, <1>12, <1>13 DEF GiveUp, Sound, TypeOK
  <1> QED
    BY <1>9, <1>10, <1>11, <1>12, <1>14, StepKeeps

LEMMA PushOrphanKeepsSound ==
    ASSUME Sound, NEW j \in Jobs, PushOrphan(j) PROVE Sound'
  <1>1. "report" \in DeliveryKinds /\ "giveUp" \in Forms
    BY DEF DeliveryKinds, Forms
  <1>2. /\ DeliveryRow(j, "report", "giveUp") \in Rows
        /\ DeliveryRow(j, "report", "giveUp").status = "pending"
        /\ DeliveryRow(j, "report", "giveUp").kind # "agentRun"
        /\ DeliveryRow(j, "report", "giveUp").kind # "task"
    BY <1>1, DeliveryRowIsRow, DeliveryRowShape DEF Sound
  <1>3. stretch' \in Stretches /\ stretch'.step \in {"idle", "orphans"}
    BY DEF PushOrphan, NoStretch, Stretches, Sound, TypeOK
  <1> QED
    BY <1>2, <1>3, InsertStep DEF PushOrphan

LEMMA SettleOrphansReplaces ==
    ASSUME Sound, NEW orphans \in SUBSET Jobs, SettleOrphans(orphans),
           \A j \in orphans : rows[j].status = "claimed"
    PROVE  /\ Replaced /\ rows' \in [Jobs -> Rows]
           /\ stretch' \in Stretches /\ stretch'.step \in {"idle", "orphans"}
  <1>1. ASSUME NEW j \in orphans
        PROVE  Replaces(SettledOrphan(rows[j]), rows[j])
    <2>1. rows[j] \in Rows /\ rows[j].status = "claimed" /\ 0 \in 0..(MaxAttempts - 1)
      BY <1>1, BoundsAssumption DEF Sound, TypeOK
    <2> QED
      BY <2>1, RowWrites
  <1>2. ASSUME NEW j \in Jobs
        PROVE  Replaces(rows'[j], rows[j])
    <2>1. CASE j \in orphans
      BY <1>1, <1>2, <2>1 DEF SettleOrphans
    <2>2. CASE j \notin orphans
      BY <1>2, <2>2, TerminalWrites DEF SettleOrphans, Sound, TypeOK
    <2> QED
      BY <2>1, <2>2
  <1>3. \A j \in Jobs : rows'[j] \in Rows
    BY <1>2 DEF Replaces
  <1>4. rows' \in [Jobs -> Rows]
    BY <1>3 DEF SettleOrphans
  <1>5. stretch' \in Stretches /\ stretch'.step \in {"idle", "orphans"}
    BY DEF SettleOrphans, Stretches, NoStretch
  <1> QED
    BY <1>2, <1>4, <1>5 DEF Replaced

LEMMA SweepKeepsSound ==
    ASSUME Sound, Sweep PROVE Sound'
  <1> DEFINE lapsed == {j \in Jobs : /\ rows[j].status = "claimed"
                                     /\ rows[j].lease = "lapsed"}
  <1>1. lapsed \in SUBSET Jobs /\ SettleOrphans(lapsed)
        /\ \A j \in lapsed : rows[j].status = "claimed"
    BY DEF Sweep
  <1> HIDE DEF lapsed
  <1>2. /\ Replaced /\ rows' \in [Jobs -> Rows]
        /\ stretch' \in Stretches /\ stretch'.step \in {"idle", "orphans"}
    BY <1>1, SettleOrphansReplaces
  <1>3. UNCHANGED <<nextJob, runs, holder, waiting, rootTurns, stopped, absorbed, spent>>
    BY DEF Sweep
  <1>4. TypeOK' /\ KeptRuns
    BY <1>2, <1>3 DEF Sound, TypeOK, KeptRuns
  <1> QED
    BY <1>2, <1>3, <1>4, ReplacedKeeps, StepKeeps

LEMMA CrashKeepsSound ==
    ASSUME Sound, CrashAndReboot PROVE Sound'
  <1> DEFINE claimed == {j \in Jobs : rows[j].status = "claimed"}
  <1>1. claimed \in SUBSET Jobs /\ SettleOrphans(claimed)
        /\ \A j \in claimed : rows[j].status = "claimed"
    BY DEF CrashAndReboot
  <1> HIDE DEF claimed
  <1>2. /\ Replaced /\ rows' \in [Jobs -> Rows]
        /\ stretch' \in Stretches /\ stretch'.step \in {"idle", "orphans"}
    BY <1>1, SettleOrphansReplaces
  <1>3. /\ runs' = [s \in Slots |-> NoRun] /\ nextJob' = nextJob
        /\ holder' = [k \in Keys |-> None] /\ waiting' = {} /\ rootTurns' = {}
        /\ UNCHANGED <<stopped, absorbed>>
    BY DEF CrashAndReboot
  <1>4. spent' \in [crashes : 0..MaxCrashes, lapses : 0..MaxLapses,
                    turns : 0..MaxTurns]
    BY BoundsAssumption DEF CrashAndReboot, Sound, TypeOK
  <1>5. TypeOK'
    BY <1>2, <1>3, <1>4, NoRunIsRun DEF Sound, TypeOK
  <1>6. KeptRuns
    BY <1>3 DEF KeptRuns, NoRun
  <1> QED
    BY <1>2, <1>3, <1>5, <1>6, ReplacedKeeps, StepKeeps

LEMMA StepKeepsSound ==
    ASSUME Sound, [Next]_vars PROVE Sound'
  <1>1. CASE UNCHANGED vars
    BY <1>1 DEF vars, Sound, TypeOK, Shape, Attached
  <1>2. CASE Next
    <2>1. CASE \E q \in Requests : Enqueue(q)
      BY <2>1, EnqueueKeepsSound
    <2>2. ASSUME NEW s \in Slots,
                 \/ \E kind \in {"report", "direct"} : SendReport(s, kind)
                 \/ SendUpdate(s) \/ Heartbeat(s) \/ TurnEnds(s)
          PROVE  Sound'
      BY <2>2, SendKeepsSound, HeartbeatKeepsSound, TurnEndsKeepsSound
    <2>3. CASE \E j \in Jobs : Stop(j) \/ BecomesDue(j) \/ LeaseLapses(j)
      BY <2>3, RowStepKeepsSound
    <2>4. CASE Claim
      BY <2>4, ClaimKeepsSound
    <2>5. CASE StretchGoesOn
      BY <2>5, MarkReportedKeepsSound, FollowUpKeepsSound, GiveUpKeepsSound,
         PushOrphanKeepsSound DEF StretchGoesOn
    <2>6. CASE InteractiveTurn
      BY <2>6, TurnsKeepSound
    <2>7. CASE Sweep
      BY <2>7, SweepKeepsSound
    <2>8. CASE CrashAndReboot
      BY <2>8, CrashKeepsSound
    <2> QED
      BY <1>2, <2>1, <2>2, <2>3, <2>4, <2>5, <2>6, <2>7, <2>8 DEF Next
  <1> QED
    BY <1>1, <1>2

LEMMA AlwaysSound == Spec => []Sound
  <1>1. Init => Sound
    BY InitSound
  <1>2. Sound /\ [Next]_vars => Sound'
    BY StepKeepsSound
  <1> QED
    BY <1>1, <1>2, PTL DEF Spec

\* Every variable keeps its shape and no row is ever charged MaxAttempts
\* attempts, whatever the number of slots, conversations and requests.
THEOREM TypeCorrect == Spec => []TypeOK
  <1>1. Sound => TypeOK
    BY DEF Sound
  <1> QED
    BY <1>1, AlwaysSound, PTL

-----------------------------------------------------------------------------
(* What a step may do to the status of a row. *)

\* Settled stays settled; only a claim claims; a colleague's row is requeued by
\* nothing but the end of its own run; a row keeps its kind and colleague.
Lawful(w, r) ==
    /\ r.status \in Terminal => w.status = r.status
    /\ w.status = "claimed" => r.status = "claimed"
    /\ w.status = "pending" /\ r.kind = "agentRun" /\ r.status # "absent"
          => r.status = "pending"
    /\ r.status # "absent" => w.kind = r.kind /\ w.tp = r.tp

LawfulRows == \A j \in Jobs : Lawful(rows'[j], rows[j])

LEMMA LawfulWrites ==
    ASSUME NEW r \in Rows
    PROVE  /\ Lawful(Completed(r), r) /\ Lawful(Surfaced(Completed(r)), r)
           /\ Lawful(Failed(r), r) /\ Lawful(Surfaced(Failed(r)), r)
           /\ Lawful(Surfaced(r), r) /\ Lawful(r, r)
  <1>1. ASSUME NEW q \in Rows
        PROVE  /\ Surfaced(q).status = q.status /\ Surfaced(q).kind = q.kind
               /\ Surfaced(q).tp = q.tp
    BY TerminalWrites DEF Replaces
  <1>2. Completed(r) \in Rows /\ Failed(r) \in Rows
    BY TerminalWrites DEF Replaces
  <1>3. Lawful(Completed(r), r)
    BY DEF Completed, Rows, Lawful, Terminal
  <1>4. Lawful(Failed(r), r)
    BY DEF Failed, Rows, Lawful, Terminal
  <1>5. Lawful(Surfaced(Completed(r)), r)
    BY <1>1, <1>2, <1>3 DEF Lawful
  <1>6. Lawful(Surfaced(Failed(r)), r)
    BY <1>1, <1>2, <1>4 DEF Lawful
  <1>7. Lawful(Surfaced(r), r) /\ Lawful(r, r)
    BY <1>1 DEF Lawful, Terminal
  <1> QED
    BY <1>3, <1>4, <1>5, <1>6, <1>7

LEMMA LawfulWrite ==
    ASSUME TypeOK, NEW j \in Jobs, NEW w, Lawful(w, rows[j]),
           rows' = [rows EXCEPT ![j] = w]
    PROVE  LawfulRows
  <1>1. rows \in [Jobs -> Rows]
    BY DEF TypeOK
  <1>2. ASSUME NEW i \in Jobs PROVE Lawful(rows'[i], rows[i])
    BY <1>1, LawfulWrites
  <1> QED
    BY <1>2 DEF LawfulRows

LEMMA LawfulSame ==
    ASSUME TypeOK, UNCHANGED rows PROVE LawfulRows
  BY DEF TypeOK, LawfulRows, Lawful, Terminal

LEMMA LawfulInsert ==
    ASSUME Sound, NEW row, row.status = "pending", Insert(row)
    PROVE  LawfulRows
  <1>1. nextJob \in Jobs /\ rows' = [rows EXCEPT ![nextJob] = row]
    BY DEF Insert
  <1>2. rows[nextJob].status = "absent"
    BY <1>1, BoundsAssumption DEF Sound, Shape
  <1>3. Lawful(row, rows[nextJob])
    BY <1>2 DEF Lawful, Terminal
  <1> QED
    BY <1>1, <1>3, LawfulWrite DEF Sound

LEMMA LawfulOrphans ==
    ASSUME Sound, NEW orphans \in SUBSET Jobs, SettleOrphans(orphans),
           \A j \in orphans : rows[j].status = "claimed"
    PROVE  LawfulRows /\ \A j \in orphans : rows'[j].status # "claimed"
  <1>1. ASSUME NEW j \in orphans
        PROVE  /\ Lawful(rows'[j], rows[j])
               /\ rows'[j].status # "claimed"
    <2>1. /\ rows[j] \in Rows /\ rows[j].status = "claimed" /\ j \in Jobs
          /\ 0 \in 0..(MaxAttempts - 1)
      BY <1>1, BoundsAssumption DEF Sound, TypeOK
    <2>2. rows'[j] = SettledOrphan(rows[j])
      BY <1>1, <2>1 DEF SettleOrphans
    <2>3. /\ SettledOrphan(rows[j]).status # "claimed"
          /\ SettledOrphan(rows[j]).status = "pending" => rows[j].kind \in OrphanRequeueKinds
          /\ Replaces(SettledOrphan(rows[j]), rows[j])
      BY <2>1, RowWrites
    <2> QED
      BY <2>1, <2>2, <2>3 DEF Lawful, Replaces, Terminal, OrphanRequeueKinds
  <1>2. ASSUME NEW j \in Jobs \ orphans
        PROVE  Lawful(rows'[j], rows[j])
    BY <1>2, LawfulWrites DEF SettleOrphans, Sound, TypeOK
  <1> QED
    BY <1>1, <1>2 DEF LawfulRows

-----------------------------------------------------------------------------
(* What a step may do to runs and locks. *)

\* Every slot keeps its run (a Stop flag aside); interactive turns alone take
\* and give back locks, those of chats.
RunsStand ==
    /\ \A s \in Slots : /\ runs'[s].job = runs[s].job
                        /\ runs'[s].key = runs[s].key
                        /\ runs'[s].conv = runs[s].conv
    /\ \A k \in Keys :
          \/ holder'[k] = holder[k]
          \/ k \in Chats /\ {holder[k], holder'[k]} \subseteq {None, User}

\* Slot s gives its run back, having settled the claim.
RunLeaves(s) ==
    /\ runs[s].job \in Jobs
    /\ Release(s)
    /\ rows'[runs[s].job].status # "claimed"
    /\ \A j \in Jobs \ {runs[s].job} : Lawful(rows'[j], rows[j])
    /\ rows[runs[s].job].status \in Terminal =>
          rows'[runs[s].job].status = rows[runs[s].job].status

\* All runs and locks are gone, and with them every claim.
Reset ==
    /\ runs' = [s \in Slots |-> NoRun] /\ holder' = [k \in Keys |-> None]
    /\ \A j \in Jobs : rows'[j].status # "claimed"

\* The four things a step can be.
StepForm ==
    \/ LawfulRows /\ RunsStand
    \/ \E s \in Slots : RunLeaves(s)
    \/ \E s \in Slots, j \in Jobs : ClaimAndRun(s, j)
    \/ LawfulRows /\ Reset

LEMMA RunsSame ==
    ASSUME UNCHANGED <<runs, holder>> PROVE RunsStand
  BY DEF RunsStand

LEMMA TurnForm ==
    ASSUME Sound, InteractiveTurn PROVE StepForm
  <1>1. ASSUME NEW k \in Chats,
               UserTurnStart(k) \/ UserTurnQueues(k) \/ UserTurnGivesUp(k) \/ UserTurnEnds(k)
        PROVE  LawfulRows /\ RunsStand
    <2>1. UNCHANGED <<rows, runs>>
      BY <1>1 DEF UserTurnStart, UserTurnQueues, UserTurnGivesUp, UserTurnEnds
    <2>2. LawfulRows
      BY <2>1, LawfulSame DEF Sound
    <2>3. \A x \in Keys :
             \/ holder'[x] = holder[x]
             \/ x \in Chats /\ {holder[x], holder'[x]} \subseteq {None, User}
      <3>1. CASE UserTurnStart(k)
        BY <3>1 DEF UserTurnStart, Sound, TypeOK
      <3>2. CASE UserTurnQueues(k) \/ UserTurnGivesUp(k)
        BY <3>2 DEF UserTurnQueues, UserTurnGivesUp
      <3>3. CASE UserTurnEnds(k)
        BY <3>3 DEF UserTurnEnds, HandOver, Sound, TypeOK
      <3> QED
        BY <1>1, <3>1, <3>2, <3>3
    <2> QED
      BY <2>1, <2>2, <2>3 DEF RunsStand
  <1>2. ASSUME NEW l \in Lanes, RootTurnStart(l) \/ RootTurnEnds(l)
        PROVE  LawfulRows /\ RunsStand
    BY <1>2, LawfulSame, RunsSame DEF RootTurnStart, RootTurnEnds, Sound
  <1>3. CASE RootAbsorbs
    <2>1. ASSUME NEW j \in Jobs PROVE Lawful(rows'[j], rows[j])
      BY <1>3, <2>1, LawfulWrites DEF RootAbsorbs, Sound, TypeOK
    <2> QED
      BY <1>3, <2>1, RunsSame DEF RootAbsorbs, LawfulRows, StepForm
  <1> QED
    BY <1>1, <1>2, <1>3 DEF InteractiveTurn, StepForm

LEMMA TurnEndsForm ==
    ASSUME Sound, NEW s \in Slots, TurnEnds(s) PROVE StepForm
  <1> DEFINE j == runs[s].job
             r == rows[runs[s].job]
  <1>1. Running(s)
    BY TurnEndsForms
  <1>2. j \in Jobs /\ r \in Rows /\ rows \in [Jobs -> Rows]
    BY <1>1 DEF Running, Sound, TypeOK, Runs
  <1>3. ASSUME NEW i \in Jobs PROVE Lawful(rows[i], rows[i])
    BY <1>2, LawfulWrites
  <1>4. CASE StandsDown(s)
    <2>1. Release(s) /\ rows' = rows /\ r.status # "claimed"
      BY <1>4 DEF StandsDown, Settle, Owns
    <2> QED
      BY <1>2, <1>3, <2>1 DEF RunLeaves, StepForm
  <1>5. CASE GoesRoundAgain(s)
    <2> DEFINE w == Requeued(r, runs[s].attempts + 1)
    <2>1. Release(s) /\ rows' = [rows EXCEPT ![j] = w]
      BY <1>5 DEF GoesRoundAgain, EndsWith, Settle
    <2>2. w.status # "claimed"
      BY <1>2, <1>5, MayRetryBound, RowWrites DEF GoesRoundAgain, Sound
    <2>3. r.status \in Terminal => w.status = r.status
      BY DEF Requeued, Terminal, Open
    <2> HIDE DEF w
    <2>4. /\ rows'[j] = w
          /\ \A i \in Jobs \ {j} : rows'[i] = rows[i]
      BY <1>2, <2>1
    <2> QED
      BY <1>2, <1>3, <2>1, <2>2, <2>3, <2>4 DEF RunLeaves, StepForm
  <1>6. ASSUME NEW w \in LastWrites(r), EndsWith(s, w) \/ GoesOn(s, w)
        PROVE  StepForm
    <2>1. w.status # "claimed"
      BY <1>2, LastWritesReplace
    <2>2. Lawful(w, r)
      BY <1>2, LawfulWrites DEF LastWrites
    <2>3. rows' = [rows EXCEPT ![j] = w]
      BY <1>6 DEF EndsWith, GoesOn, Settle, SettleThen
    <2>4. /\ rows'[j] = w
          /\ \A i \in Jobs \ {j} : rows'[i] = rows[i]
      BY <1>2, <2>3
    <2>5. CASE EndsWith(s, w)
      BY <1>2, <1>3, <2>1, <2>2, <2>4, <2>5
      DEF EndsWith, Settle, RunLeaves, StepForm, Lawful
    <2>6. CASE GoesOn(s, w)
      <3>1. LawfulRows
        BY <1>2, <2>2, <2>3, LawfulWrite DEF Sound
      <3> QED
        BY <2>6, <3>1, RunsSame DEF GoesOn, SettleThen, StepForm
    <2> QED
      BY <1>6, <2>5, <2>6
  <1> QED
    BY <1>4, <1>5, <1>6, TurnEndsForms

LEMMA RowStepForm ==
    ASSUME Sound, NEW j \in Jobs, Stop(j) \/ BecomesDue(j) \/ LeaseLapses(j)
    PROVE  StepForm
  <1>1. rows[j] \in Rows /\ rows \in [Jobs -> Rows]
    BY DEF Sound, TypeOK
  <1> USE DEF Lawful, Terminal, Rows
  <1>2. CASE BecomesDue(j)
    <2>1. Lawful([rows[j] EXCEPT !.due = TRUE], rows[j])
      BY <1>1
    <2>2. rows' = [rows EXCEPT ![j] = [rows[j] EXCEPT !.due = TRUE]]
      BY <1>1, <1>2 DEF BecomesDue
    <2> QED
      BY <1>2, <2>1, <2>2, LawfulWrite, RunsSame DEF BecomesDue, Sound, StepForm
  <1>3. CASE LeaseLapses(j)
    <2>1. Lawful([rows[j] EXCEPT !.lease = "lapsed"], rows[j])
      BY <1>1
    <2>2. rows' = [rows EXCEPT ![j] = [rows[j] EXCEPT !.lease = "lapsed"]]
      BY <1>1, <1>3 DEF LeaseLapses
    <2> QED
      BY <1>3, <2>1, <2>2, LawfulWrite, RunsSame DEF LeaseLapses, Sound, StepForm
  <1>4. CASE Stop(j)
    <2>1. CASE rows[j].status = "pending"
      <3>1. Lawful([rows[j] EXCEPT !.status = "failed"], rows[j])
        BY <1>1, <2>1
      <3>2. rows' = [rows EXCEPT ![j] = [rows[j] EXCEPT !.status = "failed"]]
        BY <1>1, <1>4, <2>1 DEF Stop
      <3>3. UNCHANGED <<runs, holder>>
        BY <1>4, <2>1 DEF Stop
      <3> QED
        BY <3>1, <3>2, <3>3, LawfulWrite, RunsSame DEF Sound, StepForm
    <2>2. CASE rows[j].status # "pending"
      <3>1. UNCHANGED <<rows, holder>>
        BY <1>4, <2>2 DEF Stop
      <3>2. runs' = [s \in Slots |-> IF runs[s].job = j
                                    THEN [runs[s] EXCEPT !.stop = TRUE]
                                    ELSE runs[s]]
        BY <1>4, <2>2 DEF Stop
      <3>3. RunsStand
        BY <3>1, <3>2 DEF RunsStand, Sound, TypeOK, Runs
      <3> QED
        BY <3>1, <3>3, LawfulSame DEF Sound, StepForm
    <2> QED
      BY <2>1, <2>2
  <1> QED
    BY <1>2, <1>3, <1>4

LEMMA SendForm ==
    ASSUME Sound, NEW s \in Slots
    PROVE  /\ \A kind \in {"report", "direct"} : SendReport(s, kind) => StepForm
           /\ SendUpdate(s) => StepForm
           /\ Heartbeat(s) => StepForm
  <1>1. ASSUME NEW kind \in {"report", "direct"}, SendReport(s, kind)
        PROVE  StepForm
    <2>1. DeliveryRow(runs[s].job, kind, "spoken").status = "pending"
      BY DEF DeliveryRow, NewRow
    <2>2. LawfulRows
      BY <1>1, <2>1, LawfulInsert DEF SendReport
    <2> QED
      BY <1>1, <2>2, RunsSame DEF SendReport, StepForm
  <1>2. CASE SendUpdate(s)
    <2> DEFINE row == DeliveryRow(runs[s].job, "update", "spoken")
    <2>1. row.status = "pending"
      BY DEF DeliveryRow, NewRow
    <2>2. \/ \E u \in Jobs : rows' = [rows EXCEPT ![u].about = row.about]
          \/ Insert(row)
      BY <1>2 DEF SendUpdate, PendingUpdates
    <2> HIDE DEF row
    <2>3. CASE Insert(row)
      BY <1>2, <2>1, <2>3, LawfulInsert, RunsSame DEF SendUpdate, StepForm
    <2>4. ASSUME NEW u \in Jobs, rows' = [rows EXCEPT ![u].about = row.about]
          PROVE  StepForm
      <3>1. rows[u] \in Rows /\ rows \in [Jobs -> Rows]
        BY DEF Sound, TypeOK
      <3>2. Lawful([rows[u] EXCEPT !.about = row.about], rows[u])
        BY <3>1 DEF Lawful, Terminal, Rows
      <3>3. LawfulRows
        BY <2>4, <3>1, <3>2, LawfulWrite DEF Sound
      <3> QED
        BY <1>2, <3>3, RunsSame DEF SendUpdate, StepForm
    <2> QED
      BY <2>2, <2>3, <2>4
  <1>3. CASE Heartbeat(s)
    <2>1. runs[s].job \in Jobs
      BY <1>3 DEF Heartbeat, Running, Sound, TypeOK, Runs
    <2>2. rows[runs[s].job] \in Rows /\ rows \in [Jobs -> Rows]
      BY <2>1 DEF Sound, TypeOK
    <2>3. Lawful([rows[runs[s].job] EXCEPT !.lease = "live"], rows[runs[s].job])
      BY <2>2 DEF Lawful, Terminal, Rows
    <2>4. rows' = [rows EXCEPT ![runs[s].job] =
                     [rows[runs[s].job] EXCEPT !.lease = "live"]]
      BY <1>3, <2>2 DEF Heartbeat
    <2> QED
      BY <1>3, <2>1, <2>3, <2>4, LawfulWrite, RunsSame DEF Heartbeat, Sound, StepForm
  <1> QED
    BY <1>1, <1>2, <1>3

LEMMA ClaimForm ==
    ASSUME Sound, Claim PROVE StepForm
  <1>1. PICK s \in Slots, j \in Jobs : \/ ClaimAndRun(s, j)
                                       \/ ClaimAndDeliverDirectly(s, j)
                                       \/ ClaimAndYield(s, j)
    BY DEF Claim
  <1>2. /\ rows[j] \in Rows /\ rows \in [Jobs -> Rows]
        /\ rows[j].status = "pending"
    BY <1>1 DEF Sound, TypeOK, ClaimAndRun, ClaimAndDeliverDirectly, ClaimAndYield,
                Candidate, Claimable
  <1>3. CASE ClaimAndYield(s, j)
    <2>1. Lawful([rows[j] EXCEPT !.due = FALSE], rows[j])
      BY <1>2 DEF Lawful, Terminal, Rows
    <2>2. rows' = [rows EXCEPT ![j] = [rows[j] EXCEPT !.due = FALSE]]
      BY <1>2, <1>3 DEF ClaimAndYield
    <2> QED
      BY <1>3, <2>1, <2>2, LawfulWrite, RunsSame DEF ClaimAndYield, Sound, StepForm
  <1>4. CASE ClaimAndDeliverDirectly(s, j)
    <2>1. Lawful([rows[j] EXCEPT !.status = "completed"], rows[j])
      BY <1>2 DEF Lawful, Terminal, Rows
    <2>2. rows' = [rows EXCEPT ![j] = [rows[j] EXCEPT !.status = "completed"]]
      BY <1>2, <1>4 DEF ClaimAndDeliverDirectly
    <2> QED
      BY <1>4, <2>1, <2>2, LawfulWrite, RunsSame DEF ClaimAndDeliverDirectly, Sound, StepForm
  <1> QED
    BY <1>1, <1>3, <1>4 DEF StepForm

LEMMA StretchForm ==
    ASSUME Sound, StretchGoesOn PROVE StepForm
  <1>1. CASE MarkReported
    <2> DEFINE j == runs[stretch.slot].job
    <2>1. j \in Jobs
      BY <1>1 DEF MarkReported, Sound, Attached, TypeOK, Runs
    <2>2. rows[j] \in Rows /\ rows \in [Jobs -> Rows]
      BY <2>1 DEF Sound, TypeOK
    <2>3. Lawful([rows[j] EXCEPT !.reported = TRUE], rows[j])
      BY <2>2 DEF Lawful, Terminal, Rows
    <2>4. rows' = [rows EXCEPT ![j] = [rows[j] EXCEPT !.reported = TRUE]]
      BY <1>1, <2>1, <2>2 DEF MarkReported
    <2> HIDE DEF j
    <2> QED
      BY <1>1, <2>1, <2>3, <2>4, LawfulWrite, RunsSame DEF MarkReported, Sound, StepForm
  <1>2. ASSUME NEW s \in Slots, FollowUp(s) \/ GiveUp(s)
        PROVE  RunLeaves(s)
    <2> DEFINE j == runs[s].job
    <2>1. j \in Jobs /\ rows[j].status \notin {"claimed", "absent"} /\ Release(s)
      BY <1>2 DEF FollowUp, GiveUp, Sound, Attached, TypeOK, Runs
    <2>2. rows \in [Jobs -> Rows] /\ rows[j] \in Rows
      BY <2>1 DEF Sound, TypeOK
    <2>3. \A i \in Jobs : Lawful(rows[i], rows[i])
      BY DEF Lawful, Terminal
    <2>4. /\ rows'[j].status = rows[j].status
          /\ \A i \in Jobs \ {j} : Lawful(rows'[i], rows[i])
      <3>1. ASSUME NEW row, row.status = "pending", Insert(row)
            PROVE  /\ rows'[j].status = rows[j].status
                   /\ \A i \in Jobs \ {j} : Lawful(rows'[i], rows[i])
        <4>1. LawfulRows
          BY <3>1, LawfulInsert
        <4>2. rows[nextJob].status = "absent" /\ rows' = [rows EXCEPT ![nextJob] = row]
          BY <3>1, BoundsAssumption DEF Insert, Sound, Shape
        <4> QED
          BY <2>1, <2>2, <4>1, <4>2 DEF LawfulRows
      <3>2. CASE FollowUp(s)
        <4>1. /\ ContinuationRow(s).status = "pending"
              /\ DeliveryRow(runs[s].job, "report", "auto").status = "pending"
          BY DEF ContinuationRow, DeliveryRow, NewRow
        <4>2. CASE UNCHANGED rows
          BY <2>3, <4>2
        <4> QED
          BY <3>1, <3>2, <4>1, <4>2 DEF FollowUp
      <3>3. CASE GiveUp(s)
        <4> DEFINE row == DeliveryRow(runs[s].job, "report", "giveUp")
        <4>1. row.status = "pending"
          BY DEF DeliveryRow, NewRow
        <4>2. /\ nextJob \in Jobs
              /\ rows' = [rows EXCEPT ![nextJob] = row, ![j] = Surfaced(@)]
          BY <3>3 DEF GiveUp
        <4>3. rows[nextJob].status = "absent" /\ j # nextJob
          BY <2>1, <4>2, BoundsAssumption DEF Sound, Shape
        <4>4. Lawful(row, rows[nextJob])
          BY <4>1, <4>3 DEF Lawful, Terminal
        <4>5. Surfaced(rows[j]).status = rows[j].status
          BY <2>2, TerminalWrites
        <4> HIDE DEF row, j
        <4> QED
          BY <2>1, <2>2, <2>3, <4>2, <4>3, <4>4, <4>5
      <3> QED
        BY <1>2, <3>2, <3>3
    <2> QED
      BY <2>1, <2>4 DEF RunLeaves
  <1>3. ASSUME NEW j \in Jobs, PushOrphan(j)
        PROVE  LawfulRows /\ RunsStand
    <2>1. DeliveryRow(j, "report", "giveUp").status = "pending"
      BY DEF DeliveryRow, NewRow
    <2> QED
      BY <1>3, <2>1, LawfulInsert, RunsSame DEF PushOrphan
  <1> QED
    BY <1>1, <1>2, <1>3 DEF StretchGoesOn, StepForm

LEMMA EveryStepForm ==
    ASSUME Sound, Next PROVE StepForm
  <1>1. CASE \E q \in Requests : Enqueue(q)
    <2>1. PICK q \in Requests : Enqueue(q)
      BY <1>1
    <2>2. NewRow(q.kind, q.ws, q.tp, q.req, nextJob, 0, "asked").status = "pending"
      BY DEF NewRow
    <2> QED
      BY <2>1, <2>2, LawfulInsert, RunsSame DEF Enqueue, StepForm
  <1>2. ASSUME NEW s \in Slots,
               \/ \E kind \in {"report", "direct"} : SendReport(s, kind)
               \/ SendUpdate(s) \/ Heartbeat(s) \/ TurnEnds(s)
        PROVE  StepForm
    BY <1>2, SendForm, TurnEndsForm
  <1>3. CASE \E j \in Jobs : Stop(j) \/ BecomesDue(j) \/ LeaseLapses(j)
    BY <1>3, RowStepForm
  <1>4. CASE Claim
    BY <1>4, ClaimForm
  <1>5. CASE StretchGoesOn
    BY <1>5, StretchForm
  <1>6. CASE InteractiveTurn
    BY <1>6, TurnForm
  <1>7. CASE Sweep
    <2> DEFINE lapsed == {j \in Jobs : /\ rows[j].status = "claimed"
                                       /\ rows[j].lease = "lapsed"}
    <2>1. /\ lapsed \in SUBSET Jobs /\ SettleOrphans(lapsed)
          /\ \A j \in lapsed : rows[j].status = "claimed"
          /\ UNCHANGED <<runs, holder>>
      BY <1>7 DEF Sweep
    <2> HIDE DEF lapsed
    <2> QED
      BY <2>1, LawfulOrphans, RunsSame DEF StepForm
  <1>8. CASE CrashAndReboot
    <2> DEFINE claimed == {j \in Jobs : rows[j].status = "claimed"}
    <2>1. /\ claimed \in SUBSET Jobs /\ SettleOrphans(claimed)
          /\ \A j \in claimed : rows[j].status = "claimed"
          /\ \A j \in Jobs \ claimed : rows[j].status # "claimed"
          /\ runs' = [s \in Slots |-> NoRun] /\ holder' = [k \in Keys |-> None]
      BY <1>8 DEF CrashAndReboot
    <2> HIDE DEF claimed
    <2>2. LawfulRows /\ \A j \in claimed : rows'[j].status # "claimed"
      BY <2>1, LawfulOrphans
    <2>3. \A j \in Jobs : rows'[j].status # "claimed"
      BY <2>1, <2>2 DEF LawfulRows, Lawful
    <2> QED
      BY <2>1, <2>2, <2>3 DEF Reset, StepForm
  <1> QED
    BY <1>1, <1>2, <1>3, <1>4, <1>5, <1>6, <1>7, <1>8 DEF Next

-----------------------------------------------------------------------------
(* The settled verdict is final. *)

\* A settled row is settled for good: whatever a run, the sweeper, a boot or a
\* Stop still has in hand when a job is settled, none overwrites its verdict.
THEOREM VerdictsAreFinal == Spec => TerminalIsALatch
  <1> DEFINE Latched == \A j \in Jobs : rows[j].status \in Terminal =>
                                           rows'[j].status = rows[j].status
  <1>1. ASSUME Sound, Next PROVE Latched
    <2>1. ASSUME NEW s \in Slots, NEW j \in Jobs, ClaimAndRun(s, j)
          PROVE  Latched
      BY <1>1, <2>1 DEF ClaimAndRun, Candidate, Claimable, Terminal, Sound, TypeOK
    <2>2. ASSUME NEW s \in Slots, RunLeaves(s)
          PROVE  Latched
      BY <2>2 DEF RunLeaves, Lawful
    <2> QED
      BY <1>1, <2>1, <2>2, EveryStepForm DEF StepForm, LawfulRows, Lawful
  <1>2. Sound /\ [Next]_vars => [Latched]_vars
    BY <1>1
  <1> QED
    BY <1>2, AlwaysSound, PTL DEF Spec, TerminalIsALatch

-----------------------------------------------------------------------------
(* Claims, runs and locks. *)

\* A run holds the lock of its key, and a lock held by a slot is that of the
\* slot's run; an interactive turn holds locks of chats only; a colleague's run
\* under its own id has not gone back to pending, where its key, which the
\* claim's exclusion does not look at, would not keep it from a second run.
Locks ==
    /\ \A s \in Slots : runs[s].job # 0 => holder[runs[s].key] = s
    /\ \A k \in Keys : holder[k] \in Slots =>
          runs[holder[k]].job # 0 /\ runs[holder[k]].key = k
    /\ \A k \in Keys : holder[k] = User => k \in Chats
    /\ \A s \in Slots :
          runs[s].job # 0 /\ rows[runs[s].job].kind = "agentRun"
             => rows[runs[s].job].status # "pending" \/ rows[runs[s].job].tp # None

Claims == \A j \in Jobs : rows[j].status = "claimed" =>
                             \E s \in Slots : runs[s].job = j

Held == Sound /\ Locks /\ Claims

\* Under the invariant, a run is told by its key and so by its job.
LEMMA OneRunPerKey ==
    ASSUME Sound, Locks, NEW s \in Slots, NEW t \in Slots,
           runs[s].job # 0, runs[t].job # 0,
           runs[s].key = runs[t].key \/ runs[s].job = runs[t].job
    PROVE  s = t
  <1>1. runs[s].key = runs[t].key
    BY DEF Sound, Attached
  <1> QED
    BY <1>1 DEF Locks

\* The claim's exclusion keeps a pending row from a key that is held.
LEMMA ClaimedKeyIsFree ==
    ASSUME Sound, Locks, NEW j \in Jobs, Claimable(j)
    PROVE  holder[TargetKey(rows[j], j)] = None
  <1> DEFINE r == rows[j]
             key == TargetKey(rows[j], j)
  <1>1. /\ r \in Rows /\ r.status = "pending" /\ PassesExclusion(r)
        /\ key \in Keys
    BY KeyIsKey DEF Claimable, Sound, TypeOK
  <1>2. r.kind = "task" => r.ws # None \/ r.tp # None
    BY <1>1 DEF Sound, Shape
  <1>3. CASE r.tp # None
    <2>1. key = r.tp
      BY <1>3 DEF TargetKey
    <2> QED
      BY <1>1, <2>1 DEF PassesExclusion, Busy
  <1>4. CASE r.tp = None /\ r.kind # "agentRun" /\ r.ws # None
    <2>1. key = r.ws
      BY <1>4 DEF TargetKey
    <2> QED
      BY <1>1, <1>4, <2>1 DEF PassesExclusion, Busy
  <1>5. CASE r.tp = None /\ r.kind # "agentRun" /\ r.ws = None
    <2>1. r.kind \in DeliveryKinds \cup {"note"}
      BY <1>1, <1>2, <1>5 DEF Rows, Kinds, WorkKinds
    <2>2. key = GlobalRoot
      BY <1>5, <2>1 DEF TargetKey, OnDeliveryRail
    <2> QED
      BY <1>1, <1>5, <2>1, <2>2 DEF PassesExclusion, Busy
  <1>6. CASE r.tp = None /\ r.kind = "agentRun"
    <2>1. key = j
      BY <1>6 DEF TargetKey
    <2>2. j \notin Chats
      BY IdentityAssumption
    <2>3. ASSUME holder[j] \in Slots PROVE FALSE
      <3> DEFINE s == holder[j]
                 i == runs[holder[j]].job
      <3>1. s \in Slots /\ i # 0 /\ runs[s].key = j
        BY <1>1, <2>1, <2>3 DEF Locks
      <3>2. i \in Jobs /\ rows[i] \in Rows
        BY <3>1 DEF Sound, TypeOK, Runs
      <3>3. TargetKey(rows[i], i) = j
        BY <3>1 DEF Sound, Attached
      <3>4. /\ j \notin Sessions \cup {Voice} /\ j \notin Workspaces
            /\ j # GlobalRoot
        BY IdentityAssumption DEF Chats, Lanes
      <3>5. i = j
        BY <3>2, <3>3, <3>4 DEF TargetKey, Rows
      <3> QED
        BY <1>1, <1>6, <3>1, <3>5 DEF Locks
    <2>4. holder[j] \in Slots \cup {None, User}
      BY <1>1, <2>1 DEF Sound, TypeOK
    <2>5. holder[j] # User
      BY <1>1, <2>1, <2>2 DEF Locks
    <2> QED
      BY <2>1, <2>3, <2>4, <2>5
  <1> QED
    BY <1>3, <1>4, <1>5, <1>6

LEMMA RunShape ==
    ASSUME Sound, NEW s \in Slots, runs[s].job # 0
    PROVE  /\ runs[s].job \in Jobs /\ rows[runs[s].job].status # "absent"
           /\ runs[s].key \in Keys
  <1>1. runs[s].job \in Jobs
    BY DEF Sound, TypeOK, Runs
  <1> QED
    BY <1>1, KeyIsKey DEF Sound, Attached

LEMMA HeldWhileRunsStand ==
    ASSUME Held, LawfulRows, RunsStand PROVE Locks' /\ Claims'
  <1>1. ASSUME NEW s \in Slots, runs'[s].job # 0
        PROVE  /\ holder'[runs'[s].key] = s
               /\ rows'[runs'[s].job].kind = "agentRun"
                     => \/ rows'[runs'[s].job].status # "pending"
                        \/ rows'[runs'[s].job].tp # None
    <2>1. /\ runs[s].job # 0 /\ runs'[s].job = runs[s].job
          /\ runs'[s].key = runs[s].key
      BY <1>1 DEF RunsStand
    <2>2. /\ runs[s].job \in Jobs /\ rows[runs[s].job].status # "absent"
          /\ runs[s].key \in Keys
      BY <2>1, RunShape DEF Held
    <2>3. holder[runs[s].key] = s
      BY <2>1 DEF Held, Locks
    <2>4. holder'[runs[s].key] = s
      BY <2>2, <2>3, IdentityAssumption DEF RunsStand
    <2>5. Lawful(rows'[runs[s].job], rows[runs[s].job])
      BY <2>2 DEF LawfulRows
    <2> QED
      BY <2>1, <2>2, <2>4, <2>5 DEF Held, Locks, Lawful
  <1>2. ASSUME NEW k \in Keys
        PROVE  /\ holder'[k] \in Slots
                     => runs'[holder'[k]].job # 0 /\ runs'[holder'[k]].key = k
               /\ holder'[k] = User => k \in Chats
    BY IdentityAssumption DEF Held, Locks, RunsStand
  <1>3. ASSUME NEW j \in Jobs, rows'[j].status = "claimed"
        PROVE  \E s \in Slots : runs'[s].job = j
    <2>1. rows[j].status = "claimed"
      BY <1>3 DEF LawfulRows, Lawful
    <2> QED
      BY <2>1 DEF Held, Claims, RunsStand
  <1> QED
    BY <1>1, <1>2, <1>3 DEF Locks, Claims

LEMMA HeldWhenARunLeaves ==
    ASSUME Held, NEW s \in Slots, RunLeaves(s) PROVE Locks' /\ Claims'
  <1>1. /\ runs' = [runs EXCEPT ![s] = NoRun] /\ runs \in [Slots -> Runs]
        /\ holder' = [holder EXCEPT ![runs[s].key] =
                        IF runs[s].key \in waiting THEN User ELSE None]
        /\ holder \in [Keys -> Slots \cup {None, User}]
        /\ waiting \subseteq Chats
    BY DEF RunLeaves, Release, HandOver, Held, Sound, TypeOK
  <1>2. /\ runs[s].job \in Jobs /\ runs[s].job # 0
        /\ runs[s].key \in Keys
    BY RunShape DEF RunLeaves, Held
  <1>3. holder'[runs[s].key] \in {None, User}
    BY <1>1, <1>2
  <1>4. ASSUME NEW t \in Slots, runs'[t].job # 0
        PROVE  /\ t # s /\ runs'[t] = runs[t] /\ runs[t].job # runs[s].job
               /\ runs[t].job \in Jobs /\ rows[runs[t].job].status # "absent"
               /\ runs[t].key \in Keys /\ runs[t].key # runs[s].key
    <2>1. t # s /\ runs'[t] = runs[t]
      BY <1>1, <1>4 DEF NoRun
    <2> QED
      BY <1>2, <1>4, <2>1, OneRunPerKey, RunShape DEF Held
  <1>5. ASSUME NEW t \in Slots, runs'[t].job # 0
        PROVE  /\ holder'[runs'[t].key] = t
               /\ rows'[runs'[t].job].kind = "agentRun"
                     => \/ rows'[runs'[t].job].status # "pending"
                        \/ rows'[runs'[t].job].tp # None
    <2>1. holder'[runs[t].key] = t
      BY <1>1, <1>4, <1>5 DEF Held, Locks
    <2>2. Lawful(rows'[runs[t].job], rows[runs[t].job])
      BY <1>4, <1>5 DEF RunLeaves
    <2> QED
      BY <1>4, <1>5, <2>1, <2>2 DEF Held, Locks, Lawful
  <1>6. ASSUME NEW k \in Keys
        PROVE  /\ holder'[k] \in Slots
                     => runs'[holder'[k]].job # 0 /\ runs'[holder'[k]].key = k
               /\ holder'[k] = User => k \in Chats
    <2>1. CASE k = runs[s].key
      BY <1>1, <1>2, <1>3, <2>1, IdentityAssumption
    <2>2. CASE k # runs[s].key
      <3>1. holder'[k] = holder[k]
        BY <1>1, <2>2
      <3>2. holder[k] \in Slots => holder[k] # s
        BY <2>2 DEF Held, Locks
      <3>3. holder[k] \in Slots => runs'[holder[k]] = runs[holder[k]]
        BY <1>1, <3>2
      <3> QED
        BY <3>1, <3>3 DEF Held, Locks
    <2> QED
      BY <2>1, <2>2
  <1>7. ASSUME NEW j \in Jobs, rows'[j].status = "claimed"
        PROVE  \E t \in Slots : runs'[t].job = j
    <2>1. j # runs[s].job /\ rows[j].status = "claimed"
      BY <1>7 DEF RunLeaves, Lawful
    <2>2. PICK t \in Slots : runs[t].job = j
      BY <2>1 DEF Held, Claims
    <2> QED
      BY <1>1, <2>1, <2>2
  <1> QED
    BY <1>5, <1>6, <1>7 DEF Locks, Claims

LEMMA HeldAfterAClaim ==
    ASSUME Held, NEW s \in Slots, NEW j \in Jobs, ClaimAndRun(s, j)
    PROVE  Locks' /\ Claims'
  <1> DEFINE key == TargetKey(rows[j], j)
  <1>1. /\ runs[s].job = 0 /\ Claimable(j) /\ rows[j].status = "pending"
        /\ rows \in [Jobs -> Rows] /\ runs \in [Slots -> Runs]
        /\ holder \in [Keys -> Slots \cup {None, User}]
    BY DEF ClaimAndRun, Candidate, Claimable, Held, Sound, TypeOK
  <1>2. key \in Keys /\ holder[key] = None
    BY <1>1, KeyIsKey, ClaimedKeyIsFree DEF Held, Sound
  <1>3. /\ rows' = [rows EXCEPT ![j].status = "claimed", ![j].lease = "live"]
        /\ holder' = [holder EXCEPT ![key] = s]
    BY DEF ClaimAndRun
  <1>4. PICK c : runs' = [runs EXCEPT ![s] = [job |-> j, key |-> key, conv |-> c,
                                              attempts |-> rows[j].attempts,
                                              stop |-> FALSE]]
    BY DEF ClaimAndRun
  <1> HIDE DEF key
  <1>5. /\ rows'[j].status = "claimed"
        /\ \A i \in Jobs \ {j} : rows'[i] = rows[i]
    BY <1>1, <1>3 DEF Rows
  <1>6. /\ runs'[s].job = j /\ runs'[s].key = key /\ j # 0
        /\ \A t \in Slots \ {s} : runs'[t] = runs[t]
    BY <1>1, <1>4
  <1>7. ASSUME NEW t \in Slots, runs'[t].job # 0
        PROVE  /\ holder'[runs'[t].key] = t
               /\ rows'[runs'[t].job].kind = "agentRun"
                     => \/ rows'[runs'[t].job].status # "pending"
                        \/ rows'[runs'[t].job].tp # None
    <2>1. CASE t = s
      BY <1>1, <1>2, <1>3, <1>5, <1>6, <2>1
    <2>2. CASE t # s
      <3>1. runs'[t] = runs[t] /\ runs[t].job # 0
        BY <1>6, <1>7, <2>2
      <3>2. /\ runs[t].job \in Jobs /\ runs[t].key \in Keys
            /\ holder[runs[t].key] = t
        BY <3>1, RunShape DEF Held, Locks
      <3>3. runs[t].key # key
        BY <1>2, <3>2, IdentityAssumption
      <3>4. holder'[runs[t].key] = t
        BY <1>1, <1>3, <3>2, <3>3
      <3>5. \/ rows'[runs[t].job].status = "claimed"
            \/ rows'[runs[t].job] = rows[runs[t].job]
        BY <1>5, <3>2
      <3> QED
        BY <3>1, <3>4, <3>5 DEF Held, Locks
    <2> QED
      BY <2>1, <2>2
  <1>8. ASSUME NEW k \in Keys
        PROVE  /\ holder'[k] \in Slots
                     => runs'[holder'[k]].job # 0 /\ runs'[holder'[k]].key = k
               /\ holder'[k] = User => k \in Chats
    <2>1. CASE k = key
      BY <1>1, <1>3, <1>6, <2>1, IdentityAssumption
    <2>2. CASE k # key
      <3>1. holder'[k] = holder[k]
        BY <1>3, <2>2
      <3>2. holder[k] \in Slots => runs'[holder[k]] = runs[holder[k]]
        BY <1>1, <1>6 DEF Held, Locks
      <3> QED
        BY <3>1, <3>2 DEF Held, Locks
    <2> QED
      BY <2>1, <2>2
  <1>9. ASSUME NEW i \in Jobs, rows'[i].status = "claimed"
        PROVE  \E t \in Slots : runs'[t].job = i
    <2>1. CASE i = j
      BY <1>6, <2>1
    <2>2. CASE i # j
      <3>1. PICK t \in Slots : runs[t].job = i
        BY <1>5, <1>9, <2>2 DEF Held, Claims
      <3>2. t # s
        BY <1>1, <3>1, BoundsAssumption
      <3> QED
        BY <1>6, <3>1, <3>2
    <2> QED
      BY <2>1, <2>2
  <1> QED
    BY <1>7, <1>8, <1>9 DEF Locks, Claims

LEMMA AlwaysHeld == Spec => []Held
  <1>1. Init => Held
    <2>1. ASSUME Init PROVE Locks /\ Claims
      BY <2>1, IdentityAssumption DEF Init, Locks, Claims, NoRun, NoRow, NewRow
    <2> QED
      BY <2>1, InitSound DEF Held
  <1>2. ASSUME Held, [Next]_vars PROVE Held'
    <2>1. Sound'
      BY <1>2, StepKeepsSound DEF Held
    <2>2. CASE UNCHANGED vars
      BY <1>2, <2>1, <2>2 DEF vars, Held, Locks, Claims
    <2>3. CASE Next
      <3>1. StepForm
        BY <1>2, <2>3, EveryStepForm DEF Held
      <3>2. ASSUME Reset PROVE Locks' /\ Claims'
        BY <3>2, IdentityAssumption DEF Reset, Locks, Claims, NoRun
      <3> QED
        BY <1>2, <2>1, <3>1, <3>2, HeldWhileRunsStand, HeldWhenARunLeaves,
           HeldAfterAClaim DEF StepForm, Held
    <2> QED
      BY <1>2, <2>2, <2>3
  <1> QED
    BY <1>1, <1>2, PTL DEF Spec

\* A claimed row has exactly one run, which will settle it: however sweeps,
\* boots, yields, Stops and run ends interleave, no claim leaks and no row is
\* run twice at once.
THEOREM NoLeakedClaim == Spec => []ClaimedRowHasItsRun
  <1>1. ASSUME Held PROVE ClaimedRowHasItsRun
    <2>1. ASSUME NEW j \in Jobs, rows[j].status = "claimed"
          PROVE  \E s \in Slots : /\ runs[s].job = j
                                 /\ \A t \in Slots \ {s} : runs[t].job # j
      <3>1. PICK s \in Slots : runs[s].job = j
        BY <1>1, <2>1 DEF Held, Claims
      <3>2. ASSUME NEW t \in Slots \ {s} PROVE runs[t].job # j
        BY <1>1, <3>1, <3>2, OneRunPerKey, BoundsAssumption DEF Held
      <3> QED
        BY <3>1, <3>2
    <2> QED
      BY <2>1 DEF ClaimedRowHasItsRun
  <1>2. Held => ClaimedRowHasItsRun
    BY <1>1
  <1> QED
    BY <1>2, AlwaysHeld, PTL

\* The single-writer rule, for a daemon all of whose agent-runs carry their
\* colleague's id: no two runs, and no run and interactive turn, are in one
\* conversation at once. (Rows from before agent-runs carried it key on their
\* own id, so for them the rule is not stated.)
THEOREM SingleWriter ==
    ASSUME Stamped
    PROVE  Spec => []ConversationSingleWriter
  <1>1. ASSUME Held PROVE ConversationSingleWriter
    <2>1. ASSUME NEW s \in Slots, runs[s].job # 0
          PROVE  /\ \A t \in Slots \ {s} : runs[t].job # 0 => runs[t].conv # runs[s].conv
                 /\ holder[runs[s].conv] # User
      <3>1. ASSUME NEW t \in Slots, runs[t].job # 0
            PROVE  runs[t].conv = runs[t].key
        BY <1>1, <3>1 DEF Held, Sound, Attached
      <3>2. holder[runs[s].conv] = s
        BY <1>1, <2>1, <3>1 DEF Held, Locks
      <3>3. ASSUME NEW t \in Slots \ {s}, runs[t].job # 0
            PROVE  runs[t].conv # runs[s].conv
        BY <1>1, <2>1, <3>1, <3>3, OneRunPerKey DEF Held
      <3> QED
        BY <3>2, <3>3, IdentityAssumption
    <2> QED
      BY <2>1 DEF ConversationSingleWriter
  <1>2. Held => ConversationSingleWriter
    BY <1>1
  <1> QED
    BY <1>2, AlwaysHeld, PTL

-----------------------------------------------------------------------------
(* What a step does to what the rows say.  The outcomes of a job are told    *)
(* from six fields of a row: its kind, who asked, what it is about and why   *)
(* it was written stay with it; status, report stamp and surfaced stamp move.*)

\* w is a later state of row r; the about of an update follows the newer one,
\* and only LeaseLapses lets a lease lapse.
SameMessage(w, r) ==
    /\ w.kind = r.kind /\ w.req = r.req /\ w.form = r.form
    /\ r.kind # "update" => w.about = r.about
    /\ MaxLapses = 0 /\ w.lease = "lapsed" => r.lease = "lapsed"

Moved(w, r, status, surfaced) ==
    /\ SameMessage(w, r) /\ w.reported = r.reported
    /\ w.status = status /\ w.surfaced = surfaced

Standing(w, r) == Moved(w, r, r.status, r.surfaced)

LEMMA WriteMarks ==
    ASSUME NEW r \in Rows, NEW n
    PROVE  /\ Standing(r, r)
           /\ Moved(Completed(r), r, IF r.status = "claimed" THEN "completed" ELSE r.status,
                    r.surfaced)
           /\ Moved(Failed(r), r, IF r.status = "claimed" THEN "failed" ELSE r.status,
                    r.surfaced)
           /\ Moved(Surfaced(r), r, r.status, TRUE)
           /\ Moved(Requeued(r, n), r, IF r.status \in Open THEN "pending" ELSE r.status,
                    r.surfaced)
  <1> USE DEF Moved, SameMessage
  <1>1. Standing(r, r)
    BY DEF Standing
  <1>2. Moved(Completed(r), r, IF r.status = "claimed" THEN "completed" ELSE r.status, r.surfaced)
    BY DEF Completed, Rows
  <1>3. Moved(Failed(r), r, IF r.status = "claimed" THEN "failed" ELSE r.status, r.surfaced)
    BY DEF Failed, Rows
  <1>4. Moved(Surfaced(r), r, r.status, TRUE)
    BY DEF Surfaced, Rows
  <1>5. Moved(Requeued(r, n), r, IF r.status \in Open THEN "pending" ELSE r.status, r.surfaced)
    BY DEF Requeued, Rows
  <1> QED
    BY <1>1, <1>2, <1>3, <1>4, <1>5

LEMMA WriteMarksTwice ==
    ASSUME NEW r \in Rows
    PROVE  /\ Moved(Surfaced(Completed(r)), r,
                    IF r.status = "claimed" THEN "completed" ELSE r.status, TRUE)
           /\ Moved(Surfaced(Failed(r)), r,
                    IF r.status = "claimed" THEN "failed" ELSE r.status, TRUE)
  <1>1. Completed(r) \in Rows /\ Failed(r) \in Rows
    BY TerminalWrites DEF Replaces
  <1>2. /\ Moved(Completed(r), r, IF r.status = "claimed" THEN "completed" ELSE r.status, r.surfaced)
        /\ Moved(Failed(r), r, IF r.status = "claimed" THEN "failed" ELSE r.status, r.surfaced)
    BY WriteMarks
  <1>3. /\ Moved(Surfaced(Completed(r)), Completed(r), Completed(r).status, TRUE)
        /\ Moved(Surfaced(Failed(r)), Failed(r), Failed(r).status, TRUE)
    BY <1>1, WriteMarks
  <1> QED
    BY <1>2, <1>3 DEF Moved, SameMessage

LEMMA OrphanMarks ==
    ASSUME NEW r \in Rows, r.status = "claimed"
    PROVE  IF r.kind \in OrphanRequeueKinds THEN Moved(SettledOrphan(r), r, "pending", r.surfaced)
           ELSE Moved(SettledOrphan(r), r, "failed", TRUE)
  <1>1. CASE r.kind \in OrphanRequeueKinds
    BY <1>1 DEF SettledOrphan, Moved, SameMessage, Rows
  <1>2. CASE r.kind \notin OrphanRequeueKinds
    BY <1>2, WriteMarksTwice DEF SettledOrphan
  <1> QED
    BY <1>1, <1>2

\* A row that was not there is written: pending, without a stamp.
Fresh(i) ==
    /\ i \in Jobs /\ rows[i].status = "absent" /\ rows'[i].status = "pending"
    /\ ~rows'[i].reported /\ ~rows'[i].surfaced /\ rows'[i].lease = "none"

OthersStand(S) == \A j \in Jobs \ S : Standing(rows'[j], rows[j])

LEMMA AllStand ==
    ASSUME TypeOK, UNCHANGED rows PROVE OthersStand({})
  <1> QED
    BY WriteMarks DEF TypeOK, OthersStand

LEMMA OneMoves ==
    ASSUME TypeOK, NEW j \in Jobs, NEW w, rows' = [rows EXCEPT ![j] = w]
    PROVE  rows'[j] = w /\ OthersStand({j})
  <1> QED
    BY WriteMarks DEF TypeOK, OthersStand

LEMMA InsertFresh ==
    ASSUME Sound, NEW row, Insert(row), row.status = "pending", ~row.reported, ~row.surfaced,
           row.lease = "none"
    PROVE  Fresh(nextJob) /\ rows'[nextJob] = row /\ OthersStand({nextJob})
  <1>1. nextJob \in Jobs /\ rows' = [rows EXCEPT ![nextJob] = row] /\ rows \in [Jobs -> Rows]
    BY DEF Insert, Sound, TypeOK
  <1>2. rows[nextJob].status = "absent"
    BY <1>1, BoundsAssumption DEF Sound, Shape
  <1>3. rows'[nextJob] = row /\ OthersStand({nextJob})
    BY <1>1, OneMoves DEF Sound
  <1> QED
    BY <1>1, <1>2, <1>3 DEF Fresh

-----------------------------------------------------------------------------
(* The forms of a step, as far as the outcomes of jobs go.                   *)

\* Nothing but a new row, asked for or spoken by a turn.
AsksAtMost ==
    /\ UNCHANGED <<runs, stretch, stopped, absorbed>>
    /\ \/ OthersStand({})
       \/ \E i \in Jobs :
             /\ Fresh(i) /\ OthersStand({i}) /\ rows'[i].form \in {"asked", "spoken"}
             /\ \/ rows'[i].kind \in DeliveryKinds
                \/ \E q \in Requests : rows'[i].kind = q.kind /\ rows'[i].req = q.req

Speaks(s) ==
    /\ Running(s)
    /\ \E i \in Jobs :
          /\ Fresh(i) /\ OthersStand({i}) /\ rows'[i].form = "spoken"
          /\ rows'[i].kind \in {"report", "direct"} /\ rows'[i].about = runs[s].job
    /\ stretch' = [step |-> "markReported", slot |-> s, jobs |-> {}]
    /\ UNCHANGED <<runs, stopped, absorbed>>

Marks(j) ==
    /\ stretch.step = "markReported" /\ j = runs[stretch.slot].job
    /\ SameMessage(rows'[j], rows[j]) /\ rows'[j].reported = TRUE
    /\ rows'[j].status = rows[j].status /\ rows'[j].surfaced = rows[j].surfaced
    /\ OthersStand({j})
    /\ stretch' = NoStretch /\ UNCHANGED <<runs, stopped, absorbed>>

Stops(j) ==
    /\ Idle /\ rows[j].status \in Open /\ j \notin stopped
    /\ stopped' = stopped \cup {j} /\ UNCHANGED <<stretch, absorbed>>
    /\ \/ /\ rows[j].status = "pending" /\ UNCHANGED runs
          /\ Moved(rows'[j], rows[j], "failed", rows[j].surfaced) /\ OthersStand({j})
       \/ /\ rows[j].status = "claimed" /\ OthersStand({})
          /\ \A s \in Slots : /\ runs'[s].job = runs[s].job
                              /\ runs[s].stop \/ runs[s].job = j => runs'[s].stop

Absorbs ==
    /\ \A j \in Jobs :
          \/ Standing(rows'[j], rows[j])
          \/ /\ IsWork(j) /\ rows[j].status \in Terminal
             /\ Moved(rows'[j], rows[j], rows[j].status, TRUE)
             /\ rows[j].req # Voice => j \in absorbed'
    /\ absorbed \subseteq absorbed' /\ UNCHANGED <<runs, stretch, stopped>>

Starts(s, j) ==
    /\ Idle /\ runs[s].job = 0 /\ rows[j].status = "pending"
    /\ Moved(rows'[j], rows[j], "claimed", rows[j].surfaced) /\ OthersStand({j})
    /\ runs'[s].job = j /\ \A t \in Slots \ {s} : runs'[t] = runs[t]
    /\ UNCHANGED <<stretch, stopped, absorbed>>

DeliversDirectly(j) ==
    /\ rows[j].status = "pending" /\ ~IsWork(j)
    /\ Moved(rows'[j], rows[j], "completed", rows[j].surfaced) /\ OthersStand({j})
    /\ UNCHANGED <<runs, stretch, stopped, absorbed>>

\* What the end of a run may leave of its row r: what was settled elsewhere is
\* left alone; a Stop allows a failure only; work fails unsurfaced, or when it
\* reported, and goes round again only when it did not.
LeftAs(w, r, stop) ==
    /\ SameMessage(w, r) /\ w.reported = r.reported
    /\ \/ w.status = r.status /\ r.status # "claimed"
       \/ w.status = "failed" /\ r.status = "claimed"
       \/ ~stop /\ w.status = "completed" /\ r.status = "claimed" /\ r.kind \notin WorkKinds
       \/ ~stop /\ w.status = "pending" /\ r.status \in Open
          /\ (r.kind \in WorkKinds => ~r.reported)
    /\ \/ w.surfaced = r.surfaced
       \/ w.status \in Terminal /\ (r.kind \in WorkKinds => r.reported)

Leaves(s) ==
    /\ TurnEnds(s) /\ Running(s) /\ LeftAs(rows'[runs[s].job], rows[runs[s].job], runs[s].stop)
    /\ OthersStand({runs[s].job})
    /\ runs' = [runs EXCEPT ![s] = NoRun] /\ UNCHANGED <<stretch, stopped, absorbed>>

\* A terminal write with a commit to follow.
Pauses(s, step) ==
    LET r == rows[runs[s].job]
        w == rows'[runs[s].job]
    IN  /\ TurnEnds(s) /\ Running(s) /\ ~runs[s].stop /\ OthersStand({runs[s].job})
        /\ \/ /\ step = "followUp" /\ r.kind = "task" /\ r.status = "claimed"
              /\ Moved(w, r, "completed", w.surfaced)
           \/ /\ step = "followUp" /\ r.kind = "agentRun"
              /\ Moved(w, r, IF r.status = "claimed" THEN "completed" ELSE r.status, r.surfaced)
           \/ /\ step = "giveUp" /\ r.kind \in WorkKinds /\ r.status = "claimed" /\ ~r.reported
              /\ Moved(w, r, "failed", r.surfaced)
        /\ stretch' = [step |-> step, slot |-> s, jobs |-> {runs[s].job}]
        /\ UNCHANGED <<runs, stopped, absorbed>>

\* The engine writes row i about job j.
Written(i, j, kind, form) ==
    Fresh(i) /\ rows'[i].kind = kind /\ rows'[i].about = j /\ rows'[i].form = form

Follows(s) ==
    LET j == runs[s].job
    IN  /\ stretch.step = "followUp" /\ stretch.slot = s
        /\ \/ \E i \in Jobs : /\ Written(i, j, rows[j].kind, "continuation")
                              /\ rows'[i].req = rows[j].req /\ OthersStand({i})
           \/ /\ OwesReport(j)
              /\ \E i \in Jobs : Written(i, j, "report", "auto") /\ OthersStand({i})
           \/ ~OwesReport(j) /\ OthersStand({})
        /\ runs' = [runs EXCEPT ![s] = NoRun]
        /\ stretch' = NoStretch /\ UNCHANGED <<stopped, absorbed>>

GivesUpOn(s) ==
    LET j == runs[s].job
    IN  /\ stretch.step = "giveUp" /\ stretch.slot = s
        /\ Moved(rows'[j], rows[j], rows[j].status, TRUE)
        /\ \E i \in Jobs \ {j} : Written(i, j, "report", "giveUp") /\ OthersStand({i, j})
        /\ runs' = [runs EXCEPT ![s] = NoRun]
        /\ stretch' = NoStretch /\ UNCHANGED <<stopped, absorbed>>

Pushes(j) ==
    /\ stretch.step = "orphans" /\ j \in stretch.jobs
    /\ \E i \in Jobs : Written(i, j, "report", "giveUp") /\ OthersStand({i})
    /\ stretch'.jobs = stretch.jobs \ {j}
    /\ stretch'.step = (IF stretch'.jobs = {} THEN "idle" ELSE "orphans")
    /\ UNCHANGED <<runs, stopped, absorbed>>

Orphans(S) ==
    /\ OthersStand(S)
    /\ \A j \in S : /\ rows[j].status = "claimed"
                    /\ IF rows[j].kind \in OrphanRequeueKinds
                       THEN Moved(rows'[j], rows[j], "pending", rows[j].surfaced)
                       ELSE Moved(rows'[j], rows[j], "failed", TRUE)
    /\ stretch'.jobs = {j \in S : IsWork(j)}
    /\ stretch'.step = (IF stretch'.jobs = {} THEN "idle" ELSE "orphans")
    /\ UNCHANGED <<stopped, absorbed>>

Sweeps(S) ==
    /\ S # {} /\ \A j \in S : rows[j].lease = "lapsed"
    /\ Idle /\ Orphans(S) /\ UNCHANGED runs

Reboots ==
    /\ MaxCrashes # 0
    /\ Orphans({j \in Jobs : rows[j].status = "claimed"})
    /\ runs' = [s \in Slots |-> NoRun]

Outcome ==
    \/ AsksAtMost \/ Absorbs \/ Reboots
    \/ \E s \in Slots :
          \/ Speaks(s) \/ Leaves(s) \/ Follows(s) \/ GivesUpOn(s)
          \/ \E step \in {"followUp", "giveUp"} : Pauses(s, step)
          \/ \E j \in Jobs : Starts(s, j)
    \/ \E j \in Jobs : Marks(j) \/ Stops(j) \/ DeliversDirectly(j) \/ Pushes(j)
    \/ \E S \in SUBSET Jobs : Sweeps(S)

LEMMA AskOutcome ==
    ASSUME Sound, NEW q \in Requests, Enqueue(q) PROVE AsksAtMost
  <1> DEFINE row == NewRow(q.kind, q.ws, q.tp, q.req, nextJob, 0, "asked")
  <1>1. /\ row.status = "pending" /\ row.reported = FALSE /\ row.surfaced = FALSE
        /\ row.lease = "none" /\ row.kind = q.kind /\ row.req = q.req /\ row.form = "asked"
    BY DEF NewRow
  <1>2. Insert(row) /\ UNCHANGED <<runs, stretch, stopped, absorbed>> /\ nextJob \in Jobs
    BY DEF Enqueue, Insert
  <1> HIDE DEF row
  <1>3. Fresh(nextJob) /\ rows'[nextJob] = row /\ OthersStand({nextJob})
    BY <1>1, <1>2, InsertFresh
  <1> QED
    BY <1>1, <1>2, <1>3 DEF AsksAtMost

LEMMA SpeakOutcome ==
    ASSUME Sound, NEW s \in Slots
    PROVE  /\ \A kind \in {"report", "direct"} : SendReport(s, kind) => Speaks(s)
           /\ SendUpdate(s) => AsksAtMost
  <1>1. ASSUME NEW kind \in {"report", "direct"}, SendReport(s, kind) PROVE Speaks(s)
    <2> DEFINE row == DeliveryRow(runs[s].job, kind, "spoken")
    <2>1. /\ row.status = "pending" /\ row.reported = FALSE /\ row.surfaced = FALSE
          /\ row.lease = "none" /\ row.kind = kind /\ row.about = runs[s].job
          /\ row.form = "spoken"
      BY DEF DeliveryRow, NewRow
    <2>2. /\ Running(s) /\ Insert(row) /\ UNCHANGED <<runs, stopped, absorbed>>
          /\ stretch' = [step |-> "markReported", slot |-> s, jobs |-> {}] /\ nextJob \in Jobs
      BY <1>1 DEF SendReport, Insert
    <2> HIDE DEF row
    <2>3. Fresh(nextJob) /\ rows'[nextJob] = row /\ OthersStand({nextJob})
      BY <2>1, <2>2, InsertFresh
    <2> QED
      BY <2>1, <2>2, <2>3 DEF Speaks
  <1>2. ASSUME SendUpdate(s) PROVE AsksAtMost
    <2> DEFINE row == DeliveryRow(runs[s].job, "update", "spoken")
    <2>1. /\ row.status = "pending" /\ row.reported = FALSE /\ row.surfaced = FALSE
          /\ row.lease = "none" /\ row.kind = "update" /\ row.form = "spoken"
      BY DEF DeliveryRow, NewRow
    <2>2. UNCHANGED <<runs, stretch, stopped, absorbed>>
      BY <1>2 DEF SendUpdate
    <2>3. \/ \E u \in Jobs : rows[u].kind = "update" /\ rows' = [rows EXCEPT ![u].about = row.about]
          \/ Insert(row)
      BY <1>2 DEF SendUpdate, PendingUpdates
    <2> HIDE DEF row
    <2>4. CASE Insert(row)
      <3>1. Fresh(nextJob) /\ rows'[nextJob] = row /\ OthersStand({nextJob}) /\ nextJob \in Jobs
        BY <2>1, <2>4, InsertFresh DEF Insert
      <3> QED
        BY <2>1, <2>2, <3>1 DEF AsksAtMost, DeliveryKinds
    <2>5. ASSUME NEW u \in Jobs, rows[u].kind = "update",
                 rows' = [rows EXCEPT ![u].about = row.about]
          PROVE  AsksAtMost
      <3>1. rows[u] \in Rows /\ rows \in [Jobs -> Rows]
        BY DEF Sound, TypeOK
      <3>2. rows' = [rows EXCEPT ![u] = [rows[u] EXCEPT !.about = row.about]]
        BY <2>5, <3>1
      <3>3. rows'[u] = [rows[u] EXCEPT !.about = row.about] /\ OthersStand({u})
        BY <3>2, OneMoves DEF Sound
      <3>4. Standing(rows'[u], rows[u])
        BY <2>5, <3>1, <3>3 DEF Standing, Moved, SameMessage, Rows
      <3>5. OthersStand({})
        BY <3>3, <3>4 DEF OthersStand
      <3> QED
        BY <2>2, <3>5 DEF AsksAtMost
    <2> QED
      BY <2>3, <2>4, <2>5
  <1> QED
    BY <1>1, <1>2

LEMMA MarkOutcome ==
    ASSUME Sound, MarkReported PROVE \E j \in Jobs : Marks(j)
  <1> DEFINE j == runs[stretch.slot].job
  <1>1. j \in Jobs
    BY DEF MarkReported, Sound, Attached, TypeOK, Runs
  <1>2. rows[j] \in Rows /\ rows \in [Jobs -> Rows]
    BY <1>1 DEF Sound, TypeOK
  <1>3. /\ rows' = [rows EXCEPT ![j] = [rows[j] EXCEPT !.reported = TRUE]]
        /\ stretch.step = "markReported" /\ stretch' = NoStretch
        /\ UNCHANGED <<runs, stopped, absorbed>>
    BY <1>1, <1>2 DEF MarkReported
  <1>4. /\ SameMessage([rows[j] EXCEPT !.reported = TRUE], rows[j])
        /\ [rows[j] EXCEPT !.reported = TRUE].reported = TRUE
        /\ [rows[j] EXCEPT !.reported = TRUE].status = rows[j].status
        /\ [rows[j] EXCEPT !.reported = TRUE].surfaced = rows[j].surfaced
    BY <1>2 DEF SameMessage, Rows
  <1>5. j = runs[stretch.slot].job
    OBVIOUS
  <1> HIDE DEF j
  <1>6. rows'[j] = [rows[j] EXCEPT !.reported = TRUE] /\ OthersStand({j})
    BY <1>1, <1>3, OneMoves DEF Sound
  <1> QED
    BY <1>1, <1>3, <1>4, <1>5, <1>6 DEF Marks

LEMMA StepsAside ==
    ASSUME Sound, UNCHANGED <<rows, runs, stretch, stopped, absorbed>>
    PROVE  AsksAtMost
  <1> QED
    BY AllStand DEF Sound, AsksAtMost

\* A change of one row that none of the six fields tells.
LEMMA OneStands ==
    ASSUME Sound, NEW j \in Jobs, NEW w, rows' = [rows EXCEPT ![j] = w],
           Standing(w, rows[j]), UNCHANGED <<runs, stretch, stopped, absorbed>>
    PROVE  AsksAtMost
  <1>1. rows'[j] = w /\ OthersStand({j})
    BY OneMoves DEF Sound
  <1>2. OthersStand({})
    BY <1>1 DEF OthersStand
  <1> QED
    BY <1>2 DEF AsksAtMost

LEMMA RowStepOutcome ==
    ASSUME Sound, NEW j \in Jobs, Stop(j) \/ BecomesDue(j) \/ LeaseLapses(j)
    PROVE  Stops(j) \/ AsksAtMost
  <1>1. rows[j] \in Rows /\ rows \in [Jobs -> Rows]
    BY DEF Sound, TypeOK
  <1> USE DEF Standing, Moved, SameMessage, Rows
  <1>2. CASE BecomesDue(j)
    <2>1. rows' = [rows EXCEPT ![j] = [rows[j] EXCEPT !.due = TRUE]]
      BY <1>1, <1>2 DEF BecomesDue
    <2>2. Standing([rows[j] EXCEPT !.due = TRUE], rows[j])
      BY <1>1
    <2> QED
      BY <1>2, <2>1, <2>2, OneStands DEF BecomesDue
  <1>3. CASE LeaseLapses(j)
    <2>1. rows' = [rows EXCEPT ![j] = [rows[j] EXCEPT !.lease = "lapsed"]]
      BY <1>1, <1>3 DEF LeaseLapses
    <2>2. MaxLapses # 0
      BY <1>3, BoundsAssumption DEF LeaseLapses, Sound, TypeOK
    <2>3. Standing([rows[j] EXCEPT !.lease = "lapsed"], rows[j])
      BY <1>1, <2>2
    <2> QED
      BY <1>3, <2>1, <2>3, OneStands DEF LeaseLapses
  <1>4. CASE Stop(j)
    <2>1. CASE rows[j].status = "pending"
      <3>1. rows' = [rows EXCEPT ![j] = [rows[j] EXCEPT !.status = "failed"]]
        BY <1>1, <1>4, <2>1 DEF Stop
      <3>2. Moved([rows[j] EXCEPT !.status = "failed"], rows[j], "failed", rows[j].surfaced)
        BY <1>1
      <3>3. rows'[j] = [rows[j] EXCEPT !.status = "failed"] /\ OthersStand({j})
        BY <3>1, OneMoves DEF Sound
      <3> QED
        BY <1>4, <2>1, <3>2, <3>3 DEF Stop, Stops
    <2>2. CASE rows[j].status # "pending"
      <3>1. UNCHANGED rows /\ rows[j].status = "claimed"
        BY <1>4, <2>2 DEF Stop
      <3>2. runs' = [s \in Slots |-> IF runs[s].job = j THEN [runs[s] EXCEPT !.stop = TRUE]
                                    ELSE runs[s]]
        BY <1>4, <2>2 DEF Stop
      <3>3. \A s \in Slots : /\ runs'[s].job = runs[s].job
                             /\ runs[s].stop \/ runs[s].job = j => runs'[s].stop
        BY <3>2 DEF Sound, TypeOK, Runs
      <3>4. OthersStand({})
        BY <3>1, AllStand DEF Sound
      <3> QED
        BY <1>4, <3>1, <3>3, <3>4 DEF Stop, Stops
    <2> QED
      BY <2>1, <2>2
  <1> QED
    BY <1>2, <1>3, <1>4

LEMMA HeartbeatOutcome ==
    ASSUME Sound, NEW s \in Slots, Heartbeat(s) PROVE AsksAtMost
  <1> DEFINE j == runs[s].job
  <1>1. j \in Jobs
    BY DEF Heartbeat, Running, Sound, TypeOK, Runs
  <1>2. rows[j] \in Rows /\ rows \in [Jobs -> Rows]
    BY <1>1 DEF Sound, TypeOK
  <1>3. rows' = [rows EXCEPT ![j] = [rows[j] EXCEPT !.lease = "live"]]
    BY <1>2 DEF Heartbeat
  <1>4. Standing([rows[j] EXCEPT !.lease = "live"], rows[j])
    BY <1>2 DEF Standing, Moved, SameMessage, Rows
  <1> QED
    BY <1>1, <1>3, <1>4, OneStands DEF Heartbeat

LEMMA ClaimOutcome ==
    ASSUME Sound, NEW s \in Slots, NEW j \in Jobs
    PROVE  /\ ClaimAndRun(s, j) => Starts(s, j)
           /\ ClaimAndDeliverDirectly(s, j) => DeliversDirectly(j)
           /\ ClaimAndYield(s, j) => AsksAtMost
  <1>1. rows[j] \in Rows /\ rows \in [Jobs -> Rows] /\ runs \in [Slots -> Runs]
    BY DEF Sound, TypeOK
  <1>2. Candidate(j) => rows[j].status = "pending"
    BY DEF Candidate, Claimable
  <1> USE DEF Standing, Moved, SameMessage, Rows
  <1>3. ASSUME ClaimAndRun(s, j) PROVE Starts(s, j)
    <2> DEFINE w == [rows[j] EXCEPT !.status = "claimed", !.lease = "live"]
    <2>1. rows' = [rows EXCEPT ![j] = w]
      BY <1>1, <1>3 DEF ClaimAndRun
    <2>2. Moved(w, rows[j], "claimed", rows[j].surfaced)
      BY <1>1
    <2> HIDE DEF w
    <2>3. rows'[j] = w /\ OthersStand({j})
      BY <2>1, OneMoves DEF Sound
    <2>4. runs'[s].job = j /\ \A t \in Slots \ {s} : runs'[t] = runs[t]
      BY <1>1, <1>3 DEF ClaimAndRun
    <2> QED
      BY <1>2, <1>3, <2>2, <2>3, <2>4 DEF ClaimAndRun, Starts
  <1>4. ASSUME ClaimAndDeliverDirectly(s, j) PROVE DeliversDirectly(j)
    <2>1. rows' = [rows EXCEPT ![j] = [rows[j] EXCEPT !.status = "completed"]]
      BY <1>1, <1>4 DEF ClaimAndDeliverDirectly
    <2>2. Moved([rows[j] EXCEPT !.status = "completed"], rows[j], "completed", rows[j].surfaced)
      BY <1>1
    <2>3. rows'[j] = [rows[j] EXCEPT !.status = "completed"] /\ OthersStand({j})
      BY <2>1, OneMoves DEF Sound
    <2>4. ~IsWork(j)
      BY <1>4 DEF ClaimAndDeliverDirectly, GoesDirect, DeliveryKinds, IsWork, WorkKinds
    <2> QED
      BY <1>2, <1>4, <2>2, <2>3, <2>4 DEF ClaimAndDeliverDirectly, DeliversDirectly
  <1>5. ASSUME ClaimAndYield(s, j) PROVE AsksAtMost
    <2>1. rows' = [rows EXCEPT ![j] = [rows[j] EXCEPT !.due = FALSE]]
      BY <1>1, <1>5 DEF ClaimAndYield
    <2>2. Standing([rows[j] EXCEPT !.due = FALSE], rows[j])
      BY <1>1
    <2> QED
      BY <1>5, <2>1, <2>2, OneStands DEF ClaimAndYield
  <1> QED
    BY <1>3, <1>4, <1>5

LEMMA TurnOutcome ==
    ASSUME Sound, InteractiveTurn PROVE AsksAtMost \/ Absorbs
  <1>1. CASE RootAbsorbs
    <2> DEFINE found == {j \in Jobs : /\ IsWork(j) /\ rows[j].status \in Terminal
                                      /\ ~rows[j].surfaced}
    <2>1. /\ rows' = [j \in Jobs |-> IF j \in found THEN Surfaced(rows[j]) ELSE rows[j]]
          /\ absorbed' = absorbed \cup {j \in found : rows[j].req # Voice}
          /\ UNCHANGED <<runs, stretch, stopped>>
      BY <1>1 DEF RootAbsorbs
    <2>2. ASSUME NEW j \in Jobs
          PROVE  \/ Standing(rows'[j], rows[j])
                 \/ /\ IsWork(j) /\ rows[j].status \in Terminal
                    /\ Moved(rows'[j], rows[j], rows[j].status, TRUE)
                    /\ rows[j].req # Voice => j \in absorbed'
      <3>1. rows[j] \in Rows
        BY DEF Sound, TypeOK
      <3>2. Standing(rows[j], rows[j]) /\ Moved(Surfaced(rows[j]), rows[j], rows[j].status, TRUE)
        BY <3>1, WriteMarks
      <3>3. CASE j \in found
        BY <2>1, <3>2, <3>3
      <3>4. CASE j \notin found
        BY <2>1, <3>2, <3>4
      <3> QED
        BY <3>3, <3>4
    <2> HIDE DEF found
    <2> QED
      BY <2>1, <2>2 DEF Absorbs
  <1>2. CASE ~RootAbsorbs
    <2>1. UNCHANGED <<rows, runs, stretch, stopped, absorbed>>
      BY <1>2 DEF InteractiveTurn, UserTurnStart, UserTurnQueues, UserTurnGivesUp, UserTurnEnds,
                  RootTurnStart, RootTurnEnds
    <2> QED
      BY <2>1, StepsAside
  <1> QED
    BY <1>1, <1>2

LEMMA LeftWrites ==
    ASSUME NEW r \in Rows, NEW stop \in BOOLEAN
    PROVE  /\ r.status # "claimed" => LeftAs(r, r, stop)
           /\ LeftAs(Failed(r), r, stop)
           /\ r.status = "claimed" /\ r.reported => LeftAs(Surfaced(Failed(r)), r, stop)
           /\ ~stop /\ r.kind \notin WorkKinds => LeftAs(Completed(r), r, stop)
           /\ ~stop /\ r.kind \notin WorkKinds /\ r.status = "claimed"
                => LeftAs(Surfaced(Completed(r)), r, stop)
           /\ \A n : ~stop /\ (r.kind \in WorkKinds => ~r.reported)
                        => LeftAs(Requeued(r, n), r, stop)
  <1> USE DEF LeftAs, Moved, Terminal
  <1>1. r.status # "claimed" => LeftAs(r, r, stop)
    BY DEF SameMessage
  <1>2. Moved(Failed(r), r, IF r.status = "claimed" THEN "failed" ELSE r.status, r.surfaced)
    BY WriteMarks
  <1>3. LeftAs(Failed(r), r, stop)
    BY <1>2
  <1>4. ASSUME r.status = "claimed", r.reported PROVE LeftAs(Surfaced(Failed(r)), r, stop)
    BY <1>4, WriteMarksTwice
  <1>5. ASSUME ~stop, r.kind \notin WorkKinds PROVE LeftAs(Completed(r), r, stop)
    <2>1. Moved(Completed(r), r, IF r.status = "claimed" THEN "completed" ELSE r.status, r.surfaced)
      BY WriteMarks
    <2> QED
      BY <1>5, <2>1
  <1>6. ASSUME ~stop, r.kind \notin WorkKinds, r.status = "claimed"
        PROVE  LeftAs(Surfaced(Completed(r)), r, stop)
    BY <1>6, WriteMarksTwice
  <1>7. ASSUME NEW n, ~stop, r.kind \in WorkKinds => ~r.reported
        PROVE  LeftAs(Requeued(r, n), r, stop)
    <2>1. Moved(Requeued(r, n), r, IF r.status \in Open THEN "pending" ELSE r.status, r.surfaced)
      BY WriteMarks
    <2> QED
      BY <1>7, <2>1 DEF Open
  <1> QED
    BY <1>1, <1>3, <1>4, <1>5, <1>6, <1>7

LEMMA RunningFacts ==
    ASSUME Sound, NEW s \in Slots, runs[s].job # 0
    PROVE  /\ runs[s].job \in Jobs /\ rows[runs[s].job] \in Rows
           /\ rows = [rows EXCEPT ![runs[s].job] = @]
           /\ runs[s].stop \in BOOLEAN
  <1> QED
    BY DEF Sound, TypeOK, Runs

LEMMA SettleLeaves ==
    ASSUME Sound, NEW s \in Slots, TurnEnds(s), NEW w, EndsWith(s, w),
           LeftAs(w, rows[runs[s].job], runs[s].stop)
    PROVE  Leaves(s)
  <1>1. Running(s)
    BY TurnEndsForms
  <1>2. runs[s].job \in Jobs
    BY <1>1, RunningFacts DEF Running
  <1>3. /\ rows' = [rows EXCEPT ![runs[s].job] = w] /\ runs' = [runs EXCEPT ![s] = NoRun]
        /\ UNCHANGED <<stretch, stopped, absorbed>>
    BY DEF EndsWith, Settle, Release
  <1>4. rows'[runs[s].job] = w /\ OthersStand({runs[s].job})
    BY <1>2, <1>3, OneMoves DEF Sound
  <1> QED
    BY <1>1, <1>3, <1>4 DEF Leaves

LEMMA GoingOnPauses ==
    ASSUME Sound, NEW s \in Slots, TurnEnds(s), ~runs[s].stop, NEW w, NEW step,
           SettleThen(s, [rows EXCEPT ![runs[s].job] = w], step),
           LET r == rows[runs[s].job]
           IN  \/ /\ step = "followUp" /\ r.kind = "task" /\ r.status = "claimed"
                  /\ Moved(w, r, "completed", w.surfaced)
               \/ /\ step = "followUp" /\ r.kind = "agentRun"
                  /\ Moved(w, r, IF r.status = "claimed" THEN "completed" ELSE r.status,
                           r.surfaced)
               \/ /\ step = "giveUp" /\ r.kind \in WorkKinds /\ r.status = "claimed"
                  /\ ~r.reported /\ Moved(w, r, "failed", r.surfaced)
    PROVE  Pauses(s, step)
  <1>1. Running(s)
    BY TurnEndsForms
  <1>2. runs[s].job \in Jobs
    BY <1>1, RunningFacts DEF Running
  <1>3. /\ rows' = [rows EXCEPT ![runs[s].job] = w]
        /\ stretch' = [step |-> step, slot |-> s, jobs |-> {runs[s].job}]
        /\ UNCHANGED <<runs, stopped, absorbed>>
    BY DEF SettleThen
  <1>4. rows'[runs[s].job] = w /\ OthersStand({runs[s].job})
    BY <1>2, <1>3, OneMoves DEF Sound
  <1> QED
    BY <1>1, <1>3, <1>4 DEF Pauses

LEMMA TurnEndsOutcome ==
    ASSUME Sound, NEW s \in Slots, TurnEnds(s)
    PROVE  Leaves(s) \/ \E step \in {"followUp", "giveUp"} : Pauses(s, step)
  <1> DEFINE j == runs[s].job
             r == rows[runs[s].job]
             stop == runs[s].stop
             Goal == Leaves(s) \/ \E step \in {"followUp", "giveUp"} : Pauses(s, step)
  <1>1. /\ j \in Jobs /\ r \in Rows /\ stop \in BOOLEAN
        /\ rows \in [Jobs -> Rows] /\ rows = [rows EXCEPT ![j] = r]
    BY TurnEndsForms, RunningFacts DEF Running, Sound, TypeOK
  <1>2. ASSUME NEW w, EndsWith(s, w), LeftAs(w, r, stop) PROVE Goal
    BY <1>2, SettleLeaves
  <1>3. LeftAs(Failed(r), r, stop)
    BY <1>1, LeftWrites
  <1>4. CASE StoppedTurnEnds(s) \/ RunThrows(s)
    <2>1. EndsWith(s, Failed(r))
      BY <1>1, <1>4 DEF StoppedTurnEnds, RunThrows, EndsWith
    <2> QED
      BY <1>2, <1>3, <2>1
  <1>5. OnDeliveryRail(r) => r.kind \notin WorkKinds
    BY DEF OnDeliveryRail, DeliveryKinds, WorkKinds
  <1>6. CASE DeliveryCompletes(s)
    <2>1. EndsWith(s, Completed(r)) /\ ~stop /\ r.kind \notin WorkKinds
      BY <1>1, <1>5, <1>6 DEF DeliveryCompletes, EndsWith, StopRequested
    <2>2. LeftAs(Completed(r), r, stop)
      BY <1>1, <2>1, LeftWrites
    <2> QED
      BY <1>2, <2>1, <2>2
  <1>7. CASE TaskCompletes(s)
    <2>1. CASE ~Owns(j)
      <3>1. EndsWith(s, r) /\ r.status # "claimed"
        BY <1>1, <1>7, <2>1 DEF TaskCompletes, EndsWith, Owns, Settle
      <3> QED
        BY <1>1, <1>2, <3>1, LeftWrites
    <2>2. CASE Owns(j) /\ r.kind # "task"
      <3>1. /\ EndsWith(s, Surfaced(Completed(r))) /\ r.status = "claimed" /\ ~stop
            /\ r.kind \notin WorkKinds
        BY <1>1, <1>7, <2>2 DEF TaskCompletes, EndsWith, Owns, StopRequested, WorkKinds
      <3>2. LeftAs(Surfaced(Completed(r)), r, stop)
        BY <1>1, <3>1, LeftWrites
      <3> QED
        BY <1>2, <3>1, <3>2
    <2>3. CASE Owns(j) /\ r.kind = "task"
      <3> DEFINE quiet == WentDirect(j)
                 w == IF quiet THEN Completed(r) ELSE Surfaced(Completed(r))
      <3>1. SettleThen(s, [rows EXCEPT ![j] = w], "followUp") /\ ~stop /\ r.status = "claimed"
        <4>1. CASE quiet
          BY <1>1, <1>7, <2>3, <4>1 DEF TaskCompletes, Owns, StopRequested
        <4>2. CASE ~quiet
          BY <1>1, <1>7, <2>3, <4>2 DEF TaskCompletes, Owns, StopRequested
        <4> QED
          BY <4>1, <4>2
      <3>2. Moved(w, r, "completed", w.surfaced)
        BY <1>1, <3>1, WriteMarks, WriteMarksTwice DEF Moved
      <3> HIDE DEF w
      <3>3. Pauses(s, "followUp")
        BY <2>3, <3>1, <3>2, GoingOnPauses
      <3> QED
        BY <3>3
    <2> QED
      BY <2>1, <2>2, <2>3
  <1>8. CASE AgentRunCompletes(s)
    <2>1. /\ SettleThen(s, [rows EXCEPT ![j] = Completed(r)], "followUp") /\ ~stop
          /\ r.kind = "agentRun"
      BY <1>1, <1>8 DEF AgentRunCompletes, StopRequested
    <2>2. Moved(Completed(r), r, IF r.status = "claimed" THEN "completed" ELSE r.status, r.surfaced)
      BY <1>1, WriteMarks
    <2>3. Pauses(s, "followUp")
      BY <2>1, <2>2, GoingOnPauses
    <2> QED
      BY <2>3
  <1>9. ASSUME NEW n, EndsWith(s, Requeued(r, n)), ~stop, r.kind \in WorkKinds => ~r.reported
        PROVE  Goal
    <2>1. LeftAs(Requeued(r, n), r, stop)
      BY <1>1, <1>9, LeftWrites
    <2> QED
      BY <1>2, <1>9, <2>1
  <1>10. ASSUME NEW retryable \in BOOLEAN, DeliveryFails(s, retryable) PROVE Goal
    <2>1. CASE retryable /\ MayRetry(runs[s].attempts + 1)
      <3>1. EndsWith(s, Requeued(r, runs[s].attempts + 1)) /\ ~stop /\ r.kind \notin WorkKinds
        BY <1>1, <1>5, <1>10, <2>1 DEF DeliveryFails, EndsWith, StopRequested
      <3> QED
        BY <1>9, <3>1
    <2>2. CASE ~(retryable /\ MayRetry(runs[s].attempts + 1))
      <3>1. EndsWith(s, Failed(r))
        BY <1>1, <1>10, <2>2 DEF DeliveryFails, EndsWith
      <3> QED
        BY <1>2, <1>3, <3>1
    <2> QED
      BY <2>1, <2>2
  <1>11. ASSUME NEW retryable \in BOOLEAN, AttemptFails(s, retryable) PROVE Goal
    <2>1. ~stop
      BY <1>11 DEF AttemptFails, StopRequested
    <2>2. CASE Spoke(j)
      <3> DEFINE shown == r.kind = "agentRun" \/ WentDirect(j)
      <3>1. /\ r.reported
            /\ \/ EndsWith(s, Failed(r))
               \/ r.status = "claimed" /\ EndsWith(s, Surfaced(Failed(r)))
        <4>1. CASE Owns(j) /\ ~shown
          BY <1>1, <1>11, <2>2, <4>1 DEF AttemptFails, EndsWith, Spoke, Owns
        <4>2. CASE ~(Owns(j) /\ ~shown)
          BY <1>1, <1>11, <2>2, <4>2 DEF AttemptFails, EndsWith, Spoke
        <4> QED
          BY <4>1, <4>2
      <3>2. r.status = "claimed" => LeftAs(Surfaced(Failed(r)), r, stop)
        BY <1>1, <3>1, LeftWrites
      <3> QED
        BY <1>2, <1>3, <3>1, <3>2
    <2>3. CASE ~Spoke(j) /\ retryable /\ MayRetry(runs[s].attempts + 1)
      <3>1. EndsWith(s, Requeued(r, runs[s].attempts + 1)) /\ ~r.reported
        BY <1>1, <1>11, <2>3 DEF AttemptFails, EndsWith, Spoke
      <3> QED
        BY <1>9, <2>1, <3>1
    <2>4. CASE ~Spoke(j) /\ ~(retryable /\ MayRetry(runs[s].attempts + 1))
      <3>1. CASE Owns(j) /\ r.kind \in WorkKinds
        <4>1. /\ SettleThen(s, [rows EXCEPT ![j] = Failed(r)], "giveUp")
              /\ r.status = "claimed" /\ ~r.reported
          BY <1>1, <1>11, <2>4, <3>1 DEF AttemptFails, Owns, Spoke
        <4>2. Moved(Failed(r), r, "failed", r.surfaced)
          BY <1>1, <4>1, WriteMarks DEF Moved
        <4>3. Pauses(s, "giveUp")
          BY <2>1, <3>1, <4>1, <4>2, GoingOnPauses
        <4> QED
          BY <4>3
      <3>2. CASE ~(Owns(j) /\ r.kind \in WorkKinds)
        <4>1. EndsWith(s, Failed(r))
          BY <1>1, <1>11, <2>4, <3>2 DEF AttemptFails, EndsWith
        <4> QED
          BY <1>2, <1>3, <4>1
      <3> QED
        BY <3>1, <3>2
    <2> QED
      BY <2>2, <2>3, <2>4
  <1> QED
    BY <1>4, <1>6, <1>7, <1>8, <1>10, <1>11 DEF TurnEnds

LEMMA StretchRun ==
    ASSUME Sound, stretch.step \in {"markReported", "followUp", "giveUp"}
    PROVE  /\ stretch.slot \in Slots /\ runs[stretch.slot].job \in Jobs
           /\ rows[runs[stretch.slot].job] \in Rows
           /\ rows[runs[stretch.slot].job].status # "absent"
           /\ stretch.step # "markReported" => rows[runs[stretch.slot].job].status # "claimed"
  <1> QED
    BY RunningFacts DEF Sound, Attached

LEMMA FollowUpOutcome ==
    ASSUME Sound, NEW s \in Slots, FollowUp(s) PROVE Follows(s)
  <1> DEFINE j == runs[s].job
             more == ContinuationRow(s)
             auto == DeliveryRow(j, "report", "auto")
  <1>1. /\ stretch.step = "followUp" /\ stretch.slot = s
        /\ runs' = [runs EXCEPT ![s] = NoRun]
        /\ stretch' = NoStretch /\ UNCHANGED <<stopped, absorbed>>
    BY DEF FollowUp, Release
  <1>2. CASE Insert(more)
    <2>1. /\ more.status = "pending" /\ ~more.reported /\ ~more.surfaced
          /\ more.lease = "none" /\ more.kind = rows[j].kind /\ more.req = rows[j].req
          /\ more.about = j /\ more.form = "continuation"
      BY DEF ContinuationRow, NewRow
    <2> HIDE DEF more, j
    <2>2. Fresh(nextJob) /\ rows'[nextJob] = more /\ OthersStand({nextJob})
      BY <1>2, <2>1, InsertFresh
    <2>3. nextJob \in Jobs
      BY <1>2 DEF Insert
    <2> QED
      BY <1>1, <2>1, <2>2, <2>3 DEF Follows, Written, j
  <1>3. CASE OwesReport(j) /\ Insert(auto)
    <2>1. /\ auto.status = "pending" /\ ~auto.reported /\ ~auto.surfaced
          /\ auto.lease = "none" /\ auto.kind = "report"
          /\ auto.about = j /\ auto.form = "auto"
      BY DEF DeliveryRow, NewRow
    <2> HIDE DEF auto, j
    <2>2. Fresh(nextJob) /\ rows'[nextJob] = auto /\ OthersStand({nextJob})
      BY <1>3, <2>1, InsertFresh
    <2>3. nextJob \in Jobs
      BY <1>3 DEF Insert
    <2> QED
      BY <1>1, <1>3, <2>1, <2>2, <2>3 DEF Follows, Written, j
  <1>4. CASE ~OwesReport(j) /\ UNCHANGED rows
    BY <1>1, <1>4, AllStand DEF Follows, Sound
  <1> QED
    BY <1>2, <1>3, <1>4 DEF FollowUp

LEMMA GiveUpOutcome ==
    ASSUME Sound, NEW s \in Slots, GiveUp(s) PROVE GivesUpOn(s)
  <1> DEFINE j == runs[s].job
             row == DeliveryRow(j, "report", "giveUp")
  <1>1. /\ stretch.step = "giveUp" /\ stretch.slot = s /\ nextJob \in Jobs
        /\ runs' = [runs EXCEPT ![s] = NoRun]
        /\ stretch' = NoStretch /\ UNCHANGED <<stopped, absorbed>>
        /\ rows' = [rows EXCEPT ![nextJob] = row, ![j] = Surfaced(@)]
    BY DEF GiveUp, Release
  <1>2. j \in Jobs /\ rows[j] \in Rows /\ rows[j].status # "absent" /\ rows \in [Jobs -> Rows]
    BY <1>1, StretchRun DEF Sound, TypeOK
  <1>3. rows[nextJob].status = "absent" /\ nextJob # j
    BY <1>1, <1>2, BoundsAssumption DEF Sound, Shape
  <1>4. /\ row.status = "pending" /\ ~row.reported /\ ~row.surfaced
        /\ row.lease = "none" /\ row.kind = "report" /\ row.about = j /\ row.form = "giveUp"
    BY DEF DeliveryRow, NewRow
  <1>5. j = runs[s].job
    OBVIOUS
  <1> HIDE DEF row, j
  <1>6. /\ rows'[nextJob] = row /\ rows'[j] = Surfaced(rows[j])
        /\ \A i \in Jobs \ {nextJob, j} : rows'[i] = rows[i]
    BY <1>1, <1>2, <1>3
  <1>7. Moved(rows'[j], rows[j], rows[j].status, TRUE)
    BY <1>2, <1>6, WriteMarks
  <1>8. OthersStand({nextJob, j})
    <2>1. ASSUME NEW i \in Jobs \ {nextJob, j} PROVE Standing(rows'[i], rows[i])
      <3>1. Standing(rows[i], rows[i])
        BY <1>2, WriteMarks
      <3> QED
        BY <1>6, <3>1
    <2> QED
      BY <2>1 DEF OthersStand
  <1>9. Written(nextJob, j, "report", "giveUp")
    BY <1>1, <1>3, <1>4, <1>6 DEF Written, Fresh
  <1> QED
    BY <1>1, <1>3, <1>5, <1>7, <1>8, <1>9 DEF GivesUpOn

LEMMA PushOutcome ==
    ASSUME Sound, NEW j \in Jobs, PushOrphan(j) PROVE Pushes(j)
  <1> DEFINE row == DeliveryRow(j, "report", "giveUp")
  <1>1. /\ stretch.step = "orphans" /\ j \in stretch.jobs /\ Insert(row)
        /\ UNCHANGED <<runs, stopped, absorbed>>
        /\ stretch' = IF stretch.jobs = {j} THEN NoStretch
                      ELSE [stretch EXCEPT !.jobs = @ \ {j}]
        /\ stretch \in Stretches
    BY DEF PushOrphan, Sound, TypeOK
  <1>2. /\ row.status = "pending" /\ ~row.reported /\ ~row.surfaced
        /\ row.lease = "none" /\ row.kind = "report" /\ row.about = j /\ row.form = "giveUp"
    BY DEF DeliveryRow, NewRow
  <1> HIDE DEF row
  <1>3. Fresh(nextJob) /\ rows'[nextJob] = row /\ OthersStand({nextJob}) /\ nextJob \in Jobs
    BY <1>1, <1>2, InsertFresh DEF Insert
  <1>4. /\ stretch'.jobs = stretch.jobs \ {j}
        /\ stretch'.step = (IF stretch'.jobs = {} THEN "idle" ELSE "orphans")
    <2>1. CASE stretch.jobs = {j}
      BY <1>1, <2>1 DEF NoStretch
    <2>2. CASE stretch.jobs # {j}
      <3>1. stretch' = [stretch EXCEPT !.jobs = stretch.jobs \ {j}]
        BY <1>1, <2>2
      <3>2. stretch'.jobs = stretch.jobs \ {j} /\ stretch'.step = "orphans"
        BY <1>1, <3>1 DEF Stretches
      <3>3. stretch.jobs \ {j} # {}
        BY <1>1, <2>2
      <3> QED
        BY <3>2, <3>3
    <2> QED
      BY <2>1, <2>2
  <1> QED
    BY <1>1, <1>2, <1>3, <1>4 DEF Pushes, Written

LEMMA OrphanOutcome ==
    ASSUME Sound, NEW S \in SUBSET Jobs, \A j \in S : rows[j].status = "claimed",
           SettleOrphans(S), UNCHANGED <<stopped, absorbed>>
    PROVE  Orphans(S)
  <1>1. ASSUME NEW j \in Jobs PROVE rows[j] \in Rows
    BY DEF Sound, TypeOK
  <1>2. rows' = [j \in Jobs |-> IF j \in S THEN SettledOrphan(rows[j]) ELSE rows[j]]
    BY DEF SettleOrphans
  <1>3. ASSUME NEW j \in Jobs \ S PROVE Standing(rows'[j], rows[j])
    <2>1. Standing(rows[j], rows[j])
      BY <1>1, WriteMarks
    <2> QED
      BY <1>2, <2>1
  <1>4. ASSUME NEW j \in S
        PROVE  IF rows[j].kind \in OrphanRequeueKinds
               THEN Moved(rows'[j], rows[j], "pending", rows[j].surfaced)
               ELSE Moved(rows'[j], rows[j], "failed", TRUE)
    <2>1. rows'[j] = SettledOrphan(rows[j])
      BY <1>2
    <2>2. IF rows[j].kind \in OrphanRequeueKinds
          THEN Moved(SettledOrphan(rows[j]), rows[j], "pending", rows[j].surfaced)
          ELSE Moved(SettledOrphan(rows[j]), rows[j], "failed", TRUE)
      BY <1>1, OrphanMarks
    <2> QED
      BY <2>1, <2>2
  <1>5. /\ stretch'.jobs = {j \in S : IsWork(j)}
        /\ stretch'.step = (IF stretch'.jobs = {} THEN "idle" ELSE "orphans")
    <2> DEFINE work == {j \in S : IsWork(j)}
    <2>1. stretch' = IF work = {} THEN NoStretch
                     ELSE [step |-> "orphans", slot |-> None, jobs |-> work]
      BY DEF SettleOrphans
    <2> HIDE DEF work
    <2>2. stretch'.jobs = work /\ stretch'.step = (IF work = {} THEN "idle" ELSE "orphans")
      BY <2>1 DEF NoStretch
    <2> QED
      BY <2>2 DEF work
  <1> QED
    BY <1>3, <1>4, <1>5 DEF Orphans, OthersStand

LEMMA SweepOutcome ==
    ASSUME Sound, Sweep PROVE \E S \in SUBSET Jobs : Sweeps(S)
  <1> DEFINE lapsed == {j \in Jobs : rows[j].status = "claimed" /\ rows[j].lease = "lapsed"}
  <1>1. /\ lapsed \in SUBSET Jobs /\ SettleOrphans(lapsed) /\ lapsed # {} /\ Idle
        /\ \A j \in lapsed : rows[j].status = "claimed" /\ rows[j].lease = "lapsed"
        /\ UNCHANGED <<runs, stopped, absorbed>>
    BY DEF Sweep
  <1> HIDE DEF lapsed
  <1> QED
    BY <1>1, OrphanOutcome DEF Sweeps

LEMMA CrashOutcome ==
    ASSUME Sound, CrashAndReboot PROVE Reboots
  <1> DEFINE claimed == {j \in Jobs : rows[j].status = "claimed"}
  <1>1. /\ claimed \in SUBSET Jobs /\ SettleOrphans(claimed)
        /\ \A j \in claimed : rows[j].status = "claimed"
        /\ runs' = [s \in Slots |-> NoRun] /\ UNCHANGED <<stopped, absorbed>>
    BY DEF CrashAndReboot
  <1>2. MaxCrashes # 0
    BY BoundsAssumption DEF CrashAndReboot, Sound, TypeOK
  <1>3. claimed = {j \in Jobs : rows[j].status = "claimed"}
    OBVIOUS
  <1> HIDE DEF claimed
  <1>4. Orphans(claimed)
    BY <1>1, OrphanOutcome
  <1> QED
    BY <1>1, <1>2, <1>3, <1>4 DEF Reboots

LEMMA EveryStepOutcome ==
    ASSUME Sound, [Next]_vars PROVE Outcome
  <1>1. CASE UNCHANGED vars
    BY <1>1, StepsAside DEF vars, Outcome
  <1>2. CASE \E q \in Requests : Enqueue(q)
    BY <1>2, AskOutcome DEF Outcome
  <1>3. ASSUME NEW s \in Slots,
               \/ \E kind \in {"report", "direct"} : SendReport(s, kind)
               \/ SendUpdate(s) \/ Heartbeat(s) \/ TurnEnds(s)
        PROVE  Outcome
    BY <1>3, SpeakOutcome, HeartbeatOutcome, TurnEndsOutcome DEF Outcome
  <1>4. CASE \E j \in Jobs : Stop(j) \/ BecomesDue(j) \/ LeaseLapses(j)
    BY <1>4, RowStepOutcome DEF Outcome
  <1>5. CASE Claim
    BY <1>5, ClaimOutcome DEF Claim, Outcome
  <1>6. CASE StretchGoesOn
    BY <1>6, MarkOutcome, FollowUpOutcome, GiveUpOutcome, PushOutcome
    DEF StretchGoesOn, Outcome
  <1>7. CASE InteractiveTurn
    BY <1>7, TurnOutcome DEF Outcome
  <1>8. CASE Sweep
    BY <1>8, SweepOutcome DEF Outcome
  <1>9. CASE CrashAndReboot
    BY <1>9, CrashOutcome DEF Outcome
  <1> QED
    BY <1>1, <1>2, <1>3, <1>4, <1>5, <1>6, <1>7, <1>8, <1>9 DEF Next

-----------------------------------------------------------------------------
(* What every step keeps of a row, and whose rows it adds.                   *)

Keeps(j) ==
    /\ SameMessage(rows'[j], rows[j])
    /\ (rows'[j].status = "absent") <=> (rows[j].status = "absent")
    /\ rows[j].status \in Terminal => rows'[j].status = rows[j].status
    /\ rows[j].reported => rows'[j].reported

LEMMA StandingKeeps ==
    ASSUME NEW S, OthersStand(S), NEW j \in Jobs \ S
    PROVE  /\ Keeps(j) /\ ~Fresh(j) /\ rows'[j].reported = rows[j].reported
           /\ rows'[j].status = rows[j].status /\ rows'[j].surfaced = rows[j].surfaced
  <1> QED
    BY DEF OthersStand, Keeps, Standing, Moved, SameMessage, Fresh

LEMMA MovedKeeps ==
    ASSUME NEW j \in Jobs, NEW status, NEW surfaced,
           Moved(rows'[j], rows[j], status, surfaced),
           status # "absent" \/ status = rows[j].status, rows[j].status # "absent",
           rows[j].status \in Terminal => status = rows[j].status
    PROVE  Keeps(j)
  <1> QED
    BY DEF Keeps, Moved, SameMessage

LEMMA EachKeeps ==
    ASSUME Sound, Outcome, NEW j \in Jobs
    PROVE  Fresh(j) \/ Keeps(j)
  <1>1. ASSUME NEW S, OthersStand(S), j \notin S PROVE Keeps(j)
    BY <1>1, StandingKeeps
  <1>2. CASE AsksAtMost
    BY <1>1, <1>2 DEF AsksAtMost
  <1>3. CASE Absorbs
    BY <1>3 DEF Absorbs, Keeps, Standing, Moved, SameMessage, Terminal
  <1>4. ASSUME NEW S, Orphans(S) PROVE Keeps(j)
    <2>1. CASE j \in S
      <3>1. \E status \in {"pending", "failed"}, surfaced \in {TRUE, rows[j].surfaced} :
               Moved(rows'[j], rows[j], status, surfaced)
        BY <1>4, <2>1 DEF Orphans
      <3>2. rows[j].status = "claimed"
        BY <1>4, <2>1 DEF Orphans
      <3> QED
        BY <3>1, <3>2, MovedKeeps DEF Terminal
    <2>2. CASE j \notin S
      BY <1>1, <1>4, <2>2 DEF Orphans
    <2> QED
      BY <2>1, <2>2
  <1>5. ASSUME NEW s \in Slots, Speaks(s) PROVE Fresh(j) \/ Keeps(j)
    BY <1>1, <1>5 DEF Speaks
  <1>6. ASSUME NEW s \in Slots, Leaves(s) PROVE Keeps(j)
    <2>1. CASE j = runs[s].job
      BY <1>6, <2>1 DEF Leaves, LeftAs, Keeps, SameMessage, Terminal, Open
    <2>2. CASE j # runs[s].job
      BY <1>1, <1>6, <2>2 DEF Leaves
    <2> QED
      BY <2>1, <2>2
  <1>7. ASSUME NEW s \in Slots, Follows(s) PROVE Fresh(j) \/ Keeps(j)
    BY <1>1, <1>7 DEF Follows, Written
  <1>8. ASSUME NEW s \in Slots, GivesUpOn(s) PROVE Fresh(j) \/ Keeps(j)
    <2>1. /\ rows[runs[s].job].status # "absent"
          /\ Moved(rows'[runs[s].job], rows[runs[s].job], rows[runs[s].job].status, TRUE)
      BY <1>8, StretchRun DEF GivesUpOn
    <2>2. CASE j = runs[s].job
      BY <2>1, <2>2, MovedKeeps
    <2>3. CASE j # runs[s].job
      BY <1>1, <1>8, <2>3 DEF GivesUpOn, Written
    <2> QED
      BY <2>2, <2>3
  <1>9. ASSUME NEW s \in Slots, NEW step, Pauses(s, step) PROVE Keeps(j)
    <2>1. CASE j = runs[s].job
      <3>1. rows[j].status # "absent"
        BY <1>9, <2>1, TurnEndsForms DEF Pauses, Running, Sound, Attached
      <3> QED
        BY <1>9, <2>1, <3>1 DEF Pauses, Keeps, Moved, SameMessage, Terminal
    <2>2. CASE j # runs[s].job
      BY <1>1, <1>9, <2>2 DEF Pauses
    <2> QED
      BY <2>1, <2>2
  <1>10. ASSUME NEW s \in Slots, NEW i \in Jobs, Starts(s, i) PROVE Keeps(j)
    BY <1>1, <1>10, MovedKeeps DEF Starts, Terminal
  <1>11. ASSUME NEW i \in Jobs, Marks(i) PROVE Keeps(j)
    BY <1>1, <1>11 DEF Marks, Keeps
  <1>12. ASSUME NEW i \in Jobs, Stops(i) PROVE Keeps(j)
    BY <1>1, <1>12, MovedKeeps DEF Stops, Terminal
  <1>13. ASSUME NEW i \in Jobs, DeliversDirectly(i) PROVE Keeps(j)
    BY <1>1, <1>13, MovedKeeps DEF DeliversDirectly, Terminal
  <1>14. ASSUME NEW i \in Jobs, Pushes(i) PROVE Fresh(j) \/ Keeps(j)
    BY <1>1, <1>14 DEF Pushes, Written
  <1> QED
    BY <1>2, <1>3, <1>4, <1>5, <1>6, <1>7, <1>8, <1>9, <1>10, <1>11, <1>12, <1>13, <1>14
    DEF Outcome, Sweeps, Reboots

LEMMA KeepsIsNotFresh ==
    ASSUME NEW j \in Jobs, Fresh(j) PROVE ~Keeps(j)
  <1> QED
    BY DEF Fresh, Keeps

\* The rows the engine wrote.
IsVerdict(v) == rows[v].status # "absent" /\ rows[v].form \in {"auto", "giveUp"}

\* Work is not pending while a run has it, nor queued once it reported; the
\* engine's rows are reports about settled work, one for each; the work a
\* stretch has in hand is settled and not spoken for, except that a colleague's
\* late completion goes on whatever became of its row.
Books ==
    /\ \A s \in Slots : runs[s].job # 0 /\ rows[runs[s].job].kind \in WorkKinds
                           => rows[runs[s].job].status # "pending"
    /\ \A v \in Jobs : IsVerdict(v) =>
          /\ rows[v].kind = "report" /\ rows[v].about \in Jobs
          /\ rows[rows[v].about].kind \in WorkKinds
          /\ rows[rows[v].about].status \in Terminal
    /\ \A u, v \in Jobs : IsVerdict(u) /\ IsVerdict(v) /\ rows[u].about = rows[v].about
                             => u = v
    /\ stretch.step \in {"followUp", "giveUp"} => stretch.jobs = {runs[stretch.slot].job}
    /\ \A j \in stretch.jobs :
          /\ rows[j].kind \in WorkKinds /\ rows[j].status \in Terminal
          /\ stretch.step # "followUp" \/ rows[j].kind = "task"
                => \A v \in Jobs : IsVerdict(v) => rows[v].about # j
    /\ ReportedWorkNeverQueued

\* Who wrote the row a step adds: it adds one at most.
WrittenBy(v) ==
    /\ \A u \in Jobs : Fresh(u) => u = v
    /\ \/ /\ AsksAtMost /\ rows'[v].form \in {"asked", "spoken"}
          /\ \/ rows'[v].kind \in DeliveryKinds
             \/ \E q \in Requests : rows'[v].kind = q.kind /\ rows'[v].req = q.req
       \/ \E s \in Slots :
             /\ Speaks(s) /\ rows'[v].form = "spoken" /\ rows'[v].kind \in {"report", "direct"}
             /\ rows'[v].about = runs[s].job
       \/ \E s \in Slots :
             LET j == runs[s].job
             IN  /\ Follows(s) /\ rows'[v].about = j
                 /\ \/ /\ rows'[v].form = "continuation"
                       /\ rows'[v].kind = rows[j].kind /\ rows'[v].req = rows[j].req
                    \/ rows'[v].form = "auto" /\ rows'[v].kind = "report" /\ OwesReport(j)
       \/ \E s \in Slots :
             /\ GivesUpOn(s) /\ rows'[v].form = "giveUp" /\ rows'[v].kind = "report"
             /\ rows'[v].about = runs[s].job
       \/ \E j \in Jobs :
             /\ Pushes(j) /\ rows'[v].form = "giveUp" /\ rows'[v].kind = "report"
             /\ rows'[v].about = j

LEMMA WhoWrote ==
    ASSUME Sound, Outcome, NEW v \in Jobs, Fresh(v) PROVE WrittenBy(v)
  <1>1. ASSUME NEW S, OthersStand(S) PROVE \A u \in Jobs \ S : ~Fresh(u)
    BY <1>1, StandingKeeps
  <1>2. ASSUME NEW i \in Jobs, OthersStand({i}) PROVE v = i /\ \A u \in Jobs : Fresh(u) => u = v
    BY <1>1, <1>2
  <1>3. CASE AsksAtMost
    <2>1. ~OthersStand({})
      BY <1>1
    <2>2. PICK i \in Jobs :
             /\ OthersStand({i}) /\ rows'[i].form \in {"asked", "spoken"}
             /\ \/ rows'[i].kind \in DeliveryKinds
                \/ \E q \in Requests : rows'[i].kind = q.kind /\ rows'[i].req = q.req
      BY <1>3, <2>1 DEF AsksAtMost
    <2> QED
      BY <1>2, <1>3, <2>2 DEF WrittenBy
  <1>4. CASE Absorbs
    BY <1>4 DEF Absorbs, Fresh, Standing, Moved, Terminal
  <1>5. ASSUME NEW s \in Slots, Speaks(s) PROVE WrittenBy(v)
    BY <1>2, <1>5 DEF Speaks, WrittenBy
  <1>6. ASSUME NEW s \in Slots, Follows(s) PROVE WrittenBy(v)
    <2> DEFINE j == runs[s].job
    <2>1. ASSUME NEW i \in Jobs, Written(i, j, rows[j].kind, "continuation"),
                 rows'[i].req = rows[j].req, OthersStand({i})
          PROVE  WrittenBy(v)
      BY <1>2, <1>6, <2>1 DEF Written, WrittenBy
    <2>2. ASSUME NEW i \in Jobs, Written(i, j, "report", "auto"), OthersStand({i}), OwesReport(j)
          PROVE  WrittenBy(v)
      BY <1>2, <1>6, <2>2 DEF Written, WrittenBy
    <2>3. ~OthersStand({})
      BY <1>1
    <2> QED
      BY <1>6, <2>1, <2>2, <2>3 DEF Follows
  <1>7. ASSUME NEW s \in Slots, GivesUpOn(s) PROVE WrittenBy(v)
    <2>1. PICK i \in Jobs \ {runs[s].job} : /\ Written(i, runs[s].job, "report", "giveUp")
                                            /\ OthersStand({i, runs[s].job})
      BY <1>7 DEF GivesUpOn
    <2>2. ~Fresh(runs[s].job)
      BY <1>7, StretchRun DEF Fresh, GivesUpOn
    <2>3. v = i /\ \A u \in Jobs : Fresh(u) => u = v
      BY <1>1, <2>1, <2>2
    <2> QED
      BY <1>7, <2>1, <2>3 DEF Written, WrittenBy
  <1>8. ASSUME NEW i \in Jobs, Pushes(i) PROVE WrittenBy(v)
    <2>1. PICK k \in Jobs : Written(k, i, "report", "giveUp") /\ OthersStand({k})
      BY <1>8 DEF Pushes
    <2> QED
      BY <1>2, <1>8, <2>1 DEF Written, WrittenBy
  <1>9. ASSUME NEW s \in Slots, Leaves(s) \/ \E step \in {"followUp", "giveUp"} : Pauses(s, step)
        PROVE  FALSE
    <2>1. rows[runs[s].job].status # "absent"
      BY <1>9, TurnEndsForms DEF Leaves, Pauses, Running, Sound, Attached
    <2> QED
      BY <1>1, <1>9, <2>1 DEF Leaves, Pauses, Fresh
  <1>10. ASSUME NEW i \in Jobs,
                Marks(i) \/ Stops(i) \/ DeliversDirectly(i) \/ \E s \in Slots : Starts(s, i)
         PROVE  FALSE
    <2>1. rows'[i].status # "pending" \/ rows[i].status # "absent"
      BY <1>10 DEF Marks, Stops, DeliversDirectly, Starts, Moved, Open
    <2> QED
      BY <1>1, <1>10, <2>1 DEF Marks, Stops, DeliversDirectly, Starts, Fresh
  <1>11. ASSUME NEW S, Orphans(S) PROVE FALSE
    BY <1>1, <1>11 DEF Orphans, Fresh
  <1> QED
    BY <1>3, <1>4, <1>5, <1>6, <1>7, <1>8, <1>9, <1>10, <1>11 DEF Outcome, Sweeps, Reboots

LEMMA NewVerdict ==
    ASSUME Sound, Books, Outcome, NEW v \in Jobs, Fresh(v), rows'[v].form \in {"auto", "giveUp"}
    PROVE  /\ rows'[v].kind = "report"
           /\ rows'[v].about \in stretch.jobs /\ rows'[v].about \notin stretch'.jobs
           /\ stretch.step # "followUp" \/ rows[rows'[v].about].kind = "task"
           /\ \A u \in Jobs : Fresh(u) => u = v
  <1> DEFINE Goal == /\ rows'[v].kind = "report"
                     /\ rows'[v].about \in stretch.jobs /\ rows'[v].about \notin stretch'.jobs
                     /\ stretch.step # "followUp" \/ rows[rows'[v].about].kind = "task"
  <1>1. WrittenBy(v)
    BY WhoWrote
  <1>2. ASSUME NEW s \in Slots, Follows(s), rows'[v].about = runs[s].job,
               rows'[v].kind = "report", OwesReport(runs[s].job)
        PROVE  Goal
    BY <1>2 DEF Follows, Books, NoStretch, OwesReport
  <1>3. ASSUME NEW s \in Slots, GivesUpOn(s), rows'[v].about = runs[s].job,
               rows'[v].kind = "report"
        PROVE  Goal
    BY <1>3 DEF GivesUpOn, Books, NoStretch
  <1>4. ASSUME NEW j \in Jobs, Pushes(j), rows'[v].about = j, rows'[v].kind = "report"
        PROVE  Goal
    BY <1>4 DEF Pushes
  <1> QED
    BY <1>1, <1>2, <1>3, <1>4 DEF WrittenBy

LEMMA StretchMoves ==
    ASSUME Sound, Books, Outcome, NEW j \in stretch'.jobs
    PROVE  /\ j \in Jobs
           /\ \/ j \in stretch.jobs /\ stretch'.step = stretch.step
              \/ /\ rows[j].status = "claimed" /\ rows'[j].status \in Terminal
                 /\ rows[j].kind \in WorkKinds
              \/ /\ stretch'.step = "followUp" /\ rows[j].kind = "agentRun"
                 /\ rows'[j].status \in Terminal
  <1> DEFINE Goal == /\ j \in Jobs
                     /\ \/ j \in stretch.jobs /\ stretch'.step = stretch.step
                        \/ /\ rows[j].status = "claimed" /\ rows'[j].status \in Terminal
                           /\ rows[j].kind \in WorkKinds
                        \/ /\ stretch'.step = "followUp" /\ rows[j].kind = "agentRun"
                           /\ rows'[j].status \in Terminal
  <1>1. CASE UNCHANGED stretch
    BY <1>1 DEF Sound, TypeOK, Stretches
  <1>2. ASSUME NEW S \in SUBSET Jobs, Orphans(S) PROVE Goal
    <2>1. /\ j \in S /\ rows[j].kind \in WorkKinds /\ rows[j].status = "claimed"
          /\ rows[j].kind \notin OrphanRequeueKinds
      BY <1>2 DEF Orphans, IsWork, WorkKinds, OrphanRequeueKinds
    <2>2. Moved(rows'[j], rows[j], "failed", TRUE)
      BY <1>2, <2>1 DEF Orphans
    <2> QED
      BY <2>1, <2>2 DEF Moved, Terminal
  <1>3. ASSUME NEW s \in Slots, NEW step \in {"followUp", "giveUp"}, Pauses(s, step) PROVE Goal
    <2>1. j = runs[s].job /\ stretch'.step = step /\ Running(s)
      BY <1>3 DEF Pauses
    <2>2. j \in Jobs /\ rows[j] \in Rows /\ rows[j].status # "absent"
      BY <2>1, RunningFacts DEF Running, Sound, Attached
    <2>3. rows[j].kind = "agentRun" => rows[j].status # "pending"
      BY <2>1, <2>2 DEF Books, WorkKinds, Running
    <2>4. rows[j].status \in {"claimed", "completed", "failed"} \/ rows[j].status = "pending"
      BY <2>2 DEF Rows, Statuses
    <2> QED
      BY <1>3, <2>1, <2>2, <2>3, <2>4 DEF Pauses, Moved, Terminal, WorkKinds
  <1>4. CASE stretch' = NoStretch
    BY <1>4 DEF NoStretch
  <1>5. ASSUME NEW s \in Slots, Speaks(s) PROVE Goal
    BY <1>5 DEF Speaks
  <1>6. ASSUME NEW i \in Jobs, Pushes(i) PROVE Goal
    BY <1>6 DEF Pushes, Sound, TypeOK, Stretches
  <1> QED
    BY <1>1, <1>2, <1>3, <1>4, <1>5, <1>6
    DEF Outcome, AsksAtMost, Absorbs, Reboots, Leaves, Follows, GivesUpOn, Starts, Marks, Stops,
        DeliversDirectly, Sweeps

\* What may have happened to a row that was there.
MovedBy(j) ==
    \/ Standing(rows'[j], rows[j])
    \/ \E s \in Slots : /\ runs[s].job = j
                        /\ \/ Leaves(s) \/ GivesUpOn(s)
                           \/ \E step \in {"followUp", "giveUp"} : Pauses(s, step)
    \/ \E s \in Slots : Starts(s, j)
    \/ Marks(j) \/ Stops(j) \/ DeliversDirectly(j)
    \/ /\ Absorbs /\ rows[j].status \in Terminal
       /\ Moved(rows'[j], rows[j], rows[j].status, TRUE)
       /\ rows[j].req # Voice => j \in absorbed'
    \/ \E S \in SUBSET Jobs : Orphans(S) /\ j \in S /\ (Sweeps(S) \/ Reboots)

LEMMA FreshOrMoved ==
    ASSUME Sound, Outcome, NEW j \in Jobs
    PROVE  Fresh(j) \/ MovedBy(j)
  <1> SUFFICES ASSUME ~Fresh(j) PROVE MovedBy(j)
    OBVIOUS
  <1>1. ASSUME NEW S, OthersStand(S), j \notin S PROVE Standing(rows'[j], rows[j])
    BY <1>1 DEF OthersStand
  <1>2. ~Fresh(j)
    OBVIOUS
  <1>3. CASE AsksAtMost
    BY <1>1, <1>2, <1>3 DEF AsksAtMost, MovedBy
  <1>4. CASE Absorbs
    BY <1>4 DEF Absorbs, MovedBy
  <1>5. ASSUME NEW S \in SUBSET Jobs, Sweeps(S) \/ (Reboots /\ Orphans(S)) PROVE MovedBy(j)
    <2>1. Orphans(S) /\ OthersStand(S)
      BY <1>5 DEF Sweeps, Orphans
    <2> QED
      BY <1>1, <1>5, <2>1 DEF MovedBy
  <1>6. ASSUME NEW s \in Slots, Speaks(s) PROVE MovedBy(j)
    BY <1>1, <1>2, <1>6 DEF Speaks, MovedBy
  <1>7. ASSUME NEW s \in Slots, Leaves(s) \/ \E step \in {"followUp", "giveUp"} : Pauses(s, step)
        PROVE  MovedBy(j)
    <2>1. OthersStand({runs[s].job})
      BY <1>7 DEF Leaves, Pauses
    <2> QED
      BY <1>1, <1>7, <2>1 DEF MovedBy
  <1>8. ASSUME NEW s \in Slots, Follows(s) PROVE MovedBy(j)
    BY <1>1, <1>2, <1>8 DEF Follows, Written, MovedBy
  <1>9. ASSUME NEW s \in Slots, GivesUpOn(s) PROVE MovedBy(j)
    <2>1. PICK i \in Jobs : Fresh(i) /\ OthersStand({i, runs[s].job})
      BY <1>9 DEF GivesUpOn, Written
    <2> QED
      BY <1>1, <1>2, <1>9, <2>1 DEF MovedBy
  <1>10. ASSUME NEW s \in Slots, NEW i \in Jobs, Starts(s, i) PROVE MovedBy(j)
    <2>1. OthersStand({i})
      BY <1>10 DEF Starts
    <2> QED
      BY <1>1, <1>10, <2>1 DEF MovedBy
  <1>11. ASSUME NEW i \in Jobs, Marks(i) \/ DeliversDirectly(i) PROVE MovedBy(j)
    <2>1. OthersStand({i})
      BY <1>11 DEF Marks, DeliversDirectly
    <2> QED
      BY <1>1, <1>11, <2>1 DEF MovedBy
  <1>12. ASSUME NEW i \in Jobs, Stops(i) PROVE MovedBy(j)
    <2>1. OthersStand({i}) \/ OthersStand({})
      BY <1>12 DEF Stops
    <2> QED
      BY <1>1, <1>12, <2>1 DEF MovedBy
  <1>13. ASSUME NEW i \in Jobs, Pushes(i) PROVE MovedBy(j)
    BY <1>1, <1>2, <1>13 DEF Pushes, Written, MovedBy
  <1>14. Reboots => \E S \in SUBSET Jobs : Orphans(S)
    BY DEF Reboots
  <1> QED
    BY <1>3, <1>4, <1>5, <1>6, <1>7, <1>8, <1>9, <1>10, <1>11, <1>12, <1>13, <1>14 DEF Outcome

LEMMA WhoMoved ==
    ASSUME Sound, Outcome, NEW j \in Jobs, rows[j].status # "absent"
    PROVE  MovedBy(j)
  <1> QED
    BY FreshOrMoved DEF Fresh

\* A run that is there after a step was there before, or is started by it.
LEMMA WhoRuns ==
    ASSUME Sound, Outcome, NEW s \in Slots, runs'[s].job # 0
    PROVE  \/ /\ runs'[s].job = runs[s].job /\ (runs[s].stop => runs'[s].stop)
              /\ ~Leaves(s) /\ ~Follows(s) /\ ~GivesUpOn(s) /\ ~Reboots
           \/ Starts(s, runs'[s].job)
  <1> DEFINE Stays == /\ runs'[s].job = runs[s].job /\ (runs[s].stop => runs'[s].stop)
                      /\ ~Leaves(s) /\ ~Follows(s) /\ ~GivesUpOn(s) /\ ~Reboots
  <1>1. runs \in [Slots -> Runs]
    BY DEF Sound, TypeOK
  <1>2. ~Leaves(s) /\ ~Follows(s) /\ ~GivesUpOn(s) /\ ~Reboots
    <2>1. runs'[s] # NoRun
      BY DEF NoRun
    <2>2. runs' = [runs EXCEPT ![s] = NoRun] => runs'[s] = NoRun
      BY <1>1
    <2>3. Reboots => runs'[s] = NoRun
      BY DEF Reboots
    <2> QED
      BY <2>1, <2>2, <2>3 DEF Leaves, Follows, GivesUpOn
  <1>3. CASE UNCHANGED runs
    BY <1>2, <1>3
  <1>4. ASSUME NEW t \in Slots, Leaves(t) \/ Follows(t) \/ GivesUpOn(t) PROVE Stays
    <2>1. runs' = [runs EXCEPT ![t] = NoRun] /\ t # s
      BY <1>2, <1>4 DEF Leaves, Follows, GivesUpOn
    <2> QED
      BY <1>1, <1>2, <2>1
  <1>5. ASSUME NEW t \in Slots, NEW j \in Jobs, Starts(t, j) PROVE Stays \/ Starts(s, runs'[s].job)
    <2>1. CASE t = s
      BY <1>5, <2>1 DEF Starts
    <2>2. CASE t # s
      BY <1>2, <1>5, <2>2 DEF Starts
    <2> QED
      BY <2>1, <2>2
  <1>6. ASSUME NEW j \in Jobs, Stops(j) PROVE Stays
    BY <1>2, <1>3, <1>6 DEF Stops
  <1> QED
    BY <1>2, <1>3, <1>4, <1>5, <1>6
    DEF Outcome, AsksAtMost, Absorbs, Speaks, Pauses, Marks, DeliversDirectly, Pushes, Sweeps

LEMMA PendingWork ==
    ASSUME Held, Books, Outcome, NEW j \in Jobs, rows[j].status # "absent",
           rows[j].kind \in WorkKinds, rows'[j].status = "pending"
    PROVE  ~rows'[j].reported /\ \A s \in Slots : runs'[s].job # j
  <1>1. Sound /\ j # 0
    BY BoundsAssumption DEF Held
  <1>2. Keeps(j) /\ MovedBy(j)
    BY <1>1, EachKeeps, WhoMoved DEF Fresh
  <1>3. rows[j].status \notin Terminal
    BY <1>2 DEF Keeps, Terminal
  <1>4. rows[j].status \in {"pending", "claimed"}
    BY <1>1, <1>3 DEF Sound, TypeOK, Rows, Statuses, Terminal
  <1>5. \A s \in Slots : ~Starts(s, j)
    BY DEF Starts, Moved
  <1>6. CASE rows[j].status = "pending"
    <2>1. ~rows[j].reported /\ \A s \in Slots : runs[s].job # j
      BY <1>1, <1>6 DEF Books, ReportedWorkNeverQueued, IsWork
    <2>2. ~Marks(j)
      BY <1>1, <2>1, StretchRun DEF Marks
    <2>3. ~rows'[j].reported
      BY <1>2, <1>5, <1>6, <2>1, <2>2
      DEF MovedBy, Standing, Moved, Stops, DeliversDirectly, Orphans, Terminal
    <2>4. ASSUME NEW s \in Slots PROVE runs'[s].job # j
      BY <1>1, <1>5, <2>1, WhoRuns
    <2> QED
      BY <2>3, <2>4
  <1>7. CASE rows[j].status = "claimed"
    <2>1. ~\E S \in SUBSET Jobs : Orphans(S) /\ j \in S
      BY DEF Orphans, Moved, WorkKinds, OrphanRequeueKinds
    <2> DEFINE Elsewise ==
                 \/ Standing(rows'[j], rows[j]) \/ Marks(j) \/ Stops(j) \/ DeliversDirectly(j)
                 \/ \E s \in Slots : /\ runs[s].job = j
                                     /\ \/ GivesUpOn(s)
                                        \/ \E step \in {"followUp", "giveUp"} : Pauses(s, step)
    <2>2. ~Elsewise
      <3>1. ~Standing(rows'[j], rows[j]) /\ ~Marks(j) /\ ~DeliversDirectly(j)
        BY <1>7 DEF Standing, Moved, Marks, DeliversDirectly
      <3>2. ~Stops(j)
        BY <1>7, <3>1 DEF Stops, OthersStand
      <3>3. ASSUME NEW s \in Slots, runs[s].job = j
            PROVE  /\ ~GivesUpOn(s)
                   /\ ~\E step \in {"followUp", "giveUp"} : Pauses(s, step)
        BY <1>7, <3>3 DEF GivesUpOn, Pauses, Moved
      <3> QED
        BY <3>1, <3>2, <3>3
    <2> HIDE DEF Elsewise
    <2>3. PICK s \in Slots : runs[s].job = j /\ Leaves(s)
      BY <1>2, <1>3, <1>5, <2>1, <2>2 DEF MovedBy, Elsewise
    <2>4. ~rows'[j].reported
      BY <1>7, <2>3 DEF Leaves, LeftAs
    <2>5. ASSUME NEW t \in Slots PROVE runs'[t].job # j
      BY <1>1, <1>5, <2>3, WhoRuns, OneRunPerKey DEF Held
    <2> QED
      BY <2>4, <2>5
  <1> QED
    BY <1>4, <1>6, <1>7

\* What a stretch that is underway goes back to.
LEMMA WhoPaused ==
    ASSUME Sound, Outcome, stretch'.step \in {"markReported", "followUp", "giveUp"}
    PROVE  \/ UNCHANGED <<runs, stretch>>
           \/ \E s \in Slots : stretch'.slot = s /\ Speaks(s) /\ stretch'.step = "markReported"
           \/ \E s \in Slots : stretch'.slot = s /\ Pauses(s, stretch'.step)
  <1> DEFINE Goal == \/ UNCHANGED <<runs, stretch>>
                     \/ \E s \in Slots : stretch'.slot = s /\ Speaks(s)
                                         /\ stretch'.step = "markReported"
                     \/ \E s \in Slots : stretch'.slot = s /\ Pauses(s, stretch'.step)
  <1>1. stretch' # NoStretch
    BY DEF NoStretch
  <1>2. ASSUME NEW S, Orphans(S) PROVE FALSE
    BY <1>2 DEF Orphans
  <1>3. Idle => ~UNCHANGED stretch
    BY <1>1 DEF Idle
  <1>4. ASSUME NEW s \in Slots, Speaks(s) \/ \E step \in {"followUp", "giveUp"} : Pauses(s, step)
        PROVE  Goal
    <2>1. CASE Speaks(s)
      <3>1. stretch'.slot = s /\ stretch'.step = "markReported"
        BY <2>1 DEF Speaks
      <3> QED
        BY <2>1, <3>1
    <2>2. ASSUME NEW step, Pauses(s, step) PROVE Goal
      <3>1. stretch'.slot = s /\ stretch'.step = step
        BY <2>2 DEF Pauses
      <3> QED
        BY <2>2, <3>1
    <2> QED
      BY <1>4, <2>1, <2>2
  <1>5. ASSUME NEW s \in Slots, Leaves(s) \/ Follows(s) \/ GivesUpOn(s) \/ \E j \in Jobs : Starts(s, j)
        PROVE  FALSE
    BY <1>1, <1>3, <1>5 DEF Leaves, Follows, GivesUpOn, Starts, Running
  <1>6. ASSUME NEW j \in Jobs, Marks(j) \/ Stops(j) \/ Pushes(j)
        PROVE  FALSE
    BY <1>1, <1>3, <1>6 DEF Marks, Stops, Pushes
  <1>7. AsksAtMost \/ Absorbs \/ (\E j \in Jobs : DeliversDirectly(j)) => UNCHANGED <<runs, stretch>>
    BY DEF AsksAtMost, Absorbs, DeliversDirectly
  <1> QED
    BY <1>2, <1>4, <1>5, <1>6, <1>7 DEF Outcome, Sweeps, Reboots

LEMMA BooksStep ==
    ASSUME Held, Books, Outcome PROVE Books'
  <1>1. Sound
    BY DEF Held
  <1>2. ASSUME NEW j \in Jobs, rows[j].status # "absent" PROVE Keeps(j)
    BY <1>1, <1>2, EachKeeps DEF Fresh
  <1>3. ASSUME NEW j \in Jobs PROVE Fresh(j) \/ Keeps(j)
    BY <1>1, EachKeeps
  <1>4. ASSUME NEW s \in Slots, runs'[s].job # 0, rows'[runs'[s].job].kind \in WorkKinds
        PROVE  rows'[runs'[s].job].status # "pending"
    <2>1. CASE runs'[s].job = runs[s].job
      <3>1. runs[s].job \in Jobs /\ rows[runs[s].job].status # "absent"
        BY <1>1, <1>4, <2>1, RunningFacts DEF Sound, Attached
      <3>2. rows[runs[s].job].kind \in WorkKinds
        BY <1>2, <1>4, <2>1, <3>1 DEF Keeps, SameMessage
      <3> QED
        BY <2>1, <3>1, <3>2, PendingWork
    <2>2. CASE Starts(s, runs'[s].job)
      BY <2>2 DEF Starts, Moved
    <2> QED
      BY <1>1, <1>4, <2>1, <2>2, WhoRuns
  <1>5. ASSUME NEW v \in Jobs, IsVerdict(v)'
        PROVE  \/ /\ IsVerdict(v) /\ rows'[v].kind = rows[v].kind
                  /\ rows[v].kind = "report" /\ rows'[v].about = rows[v].about
               \/ Fresh(v) /\ rows'[v].form \in {"auto", "giveUp"}
    BY <1>3, <1>5 DEF IsVerdict, Keeps, SameMessage, Books
  <1>6. ASSUME NEW v \in Jobs, Fresh(v), rows'[v].form \in {"auto", "giveUp"}
        PROVE  /\ rows'[v].kind = "report"
               /\ rows'[v].about \in stretch.jobs /\ rows'[v].about \notin stretch'.jobs
               /\ stretch.step # "followUp" \/ rows[rows'[v].about].kind = "task"
               /\ \A u \in Jobs : Fresh(u) => u = v
    BY <1>1, <1>6, NewVerdict
  <1>7. ASSUME NEW j \in stretch.jobs
        PROVE  /\ j \in Jobs /\ rows'[j].kind \in WorkKinds /\ rows'[j].status \in Terminal
               /\ rows'[j].kind = rows[j].kind
    <2>1. j \in Jobs /\ rows[j].kind \in WorkKinds /\ rows[j].status \in Terminal
      BY <1>1 DEF Sound, TypeOK, Stretches, Books
    <2> QED
      BY <1>2, <2>1 DEF Keeps, SameMessage, Terminal
  <1>8. ASSUME NEW v \in Jobs, IsVerdict(v)'
        PROVE  /\ rows'[v].kind = "report" /\ rows'[v].about \in Jobs
               /\ rows'[rows'[v].about].kind \in WorkKinds
               /\ rows'[rows'[v].about].status \in Terminal
    <2>1. CASE IsVerdict(v) /\ rows'[v].kind = "report" /\ rows'[v].about = rows[v].about
      <3> DEFINE j == rows[v].about
      <3>1. j \in Jobs /\ rows[j].kind \in WorkKinds /\ rows[j].status \in Terminal
        BY <2>1 DEF Books
      <3>2. Keeps(j)
        BY <1>2, <3>1 DEF Terminal
      <3> QED
        BY <2>1, <3>1, <3>2 DEF Keeps, SameMessage
    <2>2. CASE Fresh(v) /\ rows'[v].form \in {"auto", "giveUp"}
      BY <1>6, <1>7, <2>2
    <2> QED
      BY <1>5, <1>8, <2>1, <2>2
  <1>9. ASSUME NEW u \in Jobs, NEW v \in Jobs, IsVerdict(u)', IsVerdict(v)',
               rows'[u].about = rows'[v].about
        PROVE  u = v
    <2>1. ASSUME NEW x \in Jobs, NEW y \in Jobs, IsVerdict(x), rows'[x].about = rows[x].about,
                 Fresh(y), rows'[y].form \in {"auto", "giveUp"}
          PROVE  rows'[x].about # rows'[y].about
      BY <1>6, <2>1 DEF Books
    <2> QED
      BY <1>5, <1>6, <1>9, <2>1 DEF Books
  <1>10. ASSUME NEW j \in stretch'.jobs
         PROVE  /\ rows'[j].kind \in WorkKinds /\ rows'[j].status \in Terminal
                /\ stretch'.step # "followUp" \/ rows'[j].kind = "task"
                      => \A v \in Jobs : IsVerdict(v)' => rows'[v].about # j
    <2>1. ASSUME NEW v \in Jobs, Fresh(v), rows'[v].form \in {"auto", "giveUp"}
          PROVE  rows'[v].about # j
      BY <1>6, <2>1
    <2>2. CASE j \in stretch.jobs /\ stretch'.step = stretch.step
      BY <1>5, <1>7, <2>1, <2>2 DEF Books
    <2>3. CASE /\ j \in Jobs /\ rows[j].status = "claimed" /\ rows'[j].status \in Terminal
               /\ rows[j].kind \in WorkKinds
      <3>1. rows'[j].kind \in WorkKinds
        BY <1>2, <2>3 DEF Keeps, SameMessage
      <3>2. ASSUME NEW v \in Jobs, IsVerdict(v) PROVE rows[v].about # j
        BY <2>3, <3>2 DEF Books, Terminal
      <3> QED
        BY <1>5, <2>1, <2>3, <3>1, <3>2
    <2>4. CASE /\ j \in Jobs /\ stretch'.step = "followUp" /\ rows[j].kind = "agentRun"
               /\ rows'[j].status \in Terminal
      <3>1. rows'[j].kind = "agentRun"
        BY <1>3, <2>4 DEF Keeps, SameMessage, Fresh, Terminal
      <3> QED
        BY <2>4, <3>1 DEF WorkKinds
    <2> QED
      BY <1>1, <2>2, <2>3, <2>4, StretchMoves
  <1>11. stretch'.step \in {"followUp", "giveUp"} => stretch'.jobs = {runs'[stretch'.slot].job}
    <2>1. ASSUME NEW s \in Slots, stretch'.slot = s, Pauses(s, stretch'.step)
          PROVE  stretch'.jobs = {runs'[stretch'.slot].job}
      BY <2>1 DEF Pauses
    <2> QED
      BY <1>1, <2>1, WhoPaused DEF Books
  <1>12. ASSUME NEW j \in Jobs, rows'[j].kind \in WorkKinds, rows'[j].status = "pending"
         PROVE  ~rows'[j].reported
    <2>1. CASE rows[j].status = "absent"
      BY <1>3, <1>12, <2>1 DEF Keeps, Fresh
    <2>2. CASE rows[j].status # "absent"
      BY <1>2, <1>12, <2>2, PendingWork DEF Keeps, SameMessage
    <2> QED
      BY <2>1, <2>2
  <1> QED
    BY <1>4, <1>8, <1>9, <1>10, <1>11, <1>12 DEF Books, ReportedWorkNeverQueued, IsWork

LEMMA AlwaysBooks == Spec => [](Held /\ Books)
  <1>1. Init => Books
    <2>1. ASSUME Init PROVE Books
      BY <2>1 DEF Init, Books, NoRow, NewRow, NoRun, NoStretch, IsVerdict, ReportedWorkNeverQueued
    <2> QED
      BY <2>1
  <1>2. Held /\ Books /\ [Next]_vars => Books'
    BY EveryStepOutcome, BooksStep DEF Held
  <1> QED
    BY <1>1, <1>2, AlwaysHeld, PTL DEF Spec

\* Work that already spoke its final report is never queued to run again: no
\* retry, sweep, boot or requeue gives it a second run and a second result.
THEOREM ReportedWorkRunsOnce == Spec => []ReportedWorkNeverQueued
  <1>1. Held /\ Books => ReportedWorkNeverQueued
    BY DEF Books
  <1> QED
    BY <1>1, AlwaysBooks, PTL

\* The engine speaks at most once for a job, and only for work: stand-in
\* reports, give-up notices and orphan notices exclude one another, across
\* lapsed leases, late completions and crashes.
THEOREM EngineSpeaksOnce == Spec => []OneVerdictPerWork
  <1>1. ASSUME Books PROVE OneVerdictPerWork
    <2>1. ASSUME NEW j \in Jobs
          PROVE  Cardinality(Verdicts(j)) <= 1 /\ (Verdicts(j) # {} => IsWork(j))
      <3>1. \A v \in Verdicts(j) : v \in Jobs /\ IsVerdict(v) /\ rows[v].about = j
        BY DEF Verdicts, IsVerdict
      <3>2. CASE Verdicts(j) = {}
        BY <3>2, FS_EmptySet
      <3>3. CASE Verdicts(j) # {}
        <4>1. PICK v : v \in Verdicts(j)
          BY <3>3
        <4>2. Verdicts(j) = {v}
          BY <1>1, <3>1, <4>1 DEF Books
        <4>3. IsWork(j)
          BY <1>1, <3>1, <4>1 DEF Books, IsWork
        <4>4. Cardinality(Verdicts(j)) = 1
          BY <4>2, FS_Singleton, Zenon
        <4> QED
          BY <4>3, <4>4
      <3> QED
        BY <3>2, <3>3
    <2> QED
      BY <2>1 DEF OneVerdictPerWork
  <1>2. Held /\ Books => OneVerdictPerWork
    BY <1>1
  <1> QED
    BY <1>2, AlwaysBooks, PTL

-----------------------------------------------------------------------------
(* Messages.                                                                 *)

\* Orphan handling never destroys a message: a claimed report, direct reply or
\* note fails only by the end of its own turn, whatever sweeps and boots find.
THEOREM OrphansSpareMessages == Spec => OrphaningSparesMessages
  <1> DEFINE Spared ==
               \A j \in Jobs :
                  /\ rows[j].kind \in {"report", "direct", "note"}
                  /\ rows[j].status = "claimed"
                  /\ rows'[j].status = "failed"
                  => \E s \in Slots : TurnEnds(s) /\ runs[s].job = j
  <1>1. ASSUME Sound, [Next]_vars PROVE Spared
    <2>1. ASSUME NEW j \in Jobs, rows[j].kind \in {"report", "direct", "note"},
                 rows[j].status = "claimed", rows'[j].status = "failed"
          PROVE  \E s \in Slots : TurnEnds(s) /\ runs[s].job = j
      <3>1. MovedBy(j)
        BY <1>1, <2>1, EveryStepOutcome, WhoMoved
      <3>2. /\ ~Standing(rows'[j], rows[j]) /\ ~Marks(j) /\ ~DeliversDirectly(j)
            /\ \A s \in Slots : ~Starts(s, j)
            /\ rows[j].status \notin Terminal
        BY <2>1 DEF Standing, Moved, Marks, DeliversDirectly, Starts, Terminal
      <3>3. ~Stops(j)
        BY <2>1, <3>2 DEF Stops, OthersStand
      <3>4. ASSUME NEW s \in Slots, runs[s].job = j PROVE ~GivesUpOn(s)
        BY <2>1, <3>4 DEF GivesUpOn, Moved
      <3>5. ASSUME NEW S \in SUBSET Jobs, Orphans(S) PROVE j \notin S
        BY <2>1, <3>5 DEF Orphans, OrphanRequeueKinds, Moved
      <3>6. PICK s \in Slots : /\ runs[s].job = j
                               /\ \/ Leaves(s)
                                  \/ \E step \in {"followUp", "giveUp"} : Pauses(s, step)
        BY <3>1, <3>2, <3>3, <3>4, <3>5 DEF MovedBy
      <3> QED
        BY <3>6 DEF Leaves, Pauses
    <2> QED
      BY <2>1
  <1>2. Sound /\ [Next]_vars => [Spared]_vars
    BY <1>1
  <1> QED
    BY <1>2, AlwaysSound, PTL DEF Spec, OrphaningSparesMessages

-----------------------------------------------------------------------------
(* Follow-ups.  A colleague's completion does not ask whether the row is     *)
(* still its own: what keeps it from following up on a failure is that no    *)
(* lease of a live run lapses.                                               *)

NoAgentRuns == \A q \in Requests : q.kind # "agentRun"

\* While no lease lapses the work of a run stays claimed until the run settles
\* it; a follow-up to come, and one that was written, follows a completion.
Punctual ==
    /\ MaxLapses = 0 =>
          /\ \A j \in Jobs : rows[j].lease # "lapsed"
          /\ \A s \in Slots :
                runs[s].job # 0 /\ rows[runs[s].job].kind \in WorkKinds =>
                    \/ rows[runs[s].job].status = "claimed"
                    \/ stretch.step \in {"followUp", "giveUp"} /\ stretch.slot = s
    /\ NoAgentRuns => \A j \in Jobs : rows[j].kind # "agentRun"
    /\ MaxLapses = 0 \/ NoAgentRuns =>
          /\ stretch.step = "followUp" => rows[runs[stretch.slot].job].status = "completed"
          /\ \A f \in Jobs :
                rows[f].status # "absent" /\ rows[f].form \in {"auto", "continuation"} =>
                    /\ rows[f].kind # "update" /\ rows[f].about \in Jobs
                    /\ rows[rows[f].about].status = "completed"

\* How a stretch that is underway ends.
LEMMA PausedGoesOn ==
    ASSUME Outcome, stretch.step \in {"markReported", "followUp", "giveUp"}
    PROVE  \/ UNCHANGED <<stretch, runs>>
           \/ \E j \in Jobs : Marks(j)
           \/ Follows(stretch.slot) \/ GivesUpOn(stretch.slot) \/ Reboots
  <1>1. ~Idle
    BY DEF Idle, NoStretch
  <1>2. ASSUME NEW s \in Slots,
               \/ Speaks(s) \/ Leaves(s) \/ \E step \in {"followUp", "giveUp"} : Pauses(s, step)
               \/ \E j \in Jobs : Starts(s, j)
        PROVE  FALSE
    BY <1>1, <1>2 DEF Speaks, Leaves, Pauses, Starts, Running
  <1>3. ASSUME NEW s \in Slots, Follows(s) \/ GivesUpOn(s)
        PROVE  Follows(stretch.slot) \/ GivesUpOn(stretch.slot)
    <2>1. stretch.slot = s
      BY <1>3 DEF Follows, GivesUpOn
    <2> QED
      BY <1>3, <2>1
  <1>4. (\A j \in Jobs : ~Stops(j) /\ ~Pushes(j)) /\ \A S : ~Sweeps(S)
    BY <1>1 DEF Stops, Pushes, Sweeps
  <1>5. AsksAtMost \/ Absorbs \/ (\E j \in Jobs : DeliversDirectly(j)) => UNCHANGED <<stretch, runs>>
    BY DEF AsksAtMost, Absorbs, DeliversDirectly
  <1> QED
    BY <1>2, <1>3, <1>4, <1>5 DEF Outcome

\* A claimed row stays claimed, unless its run ends or it is orphaned.
LEMMA ClaimedMoves ==
    ASSUME NEW j \in Jobs, MovedBy(j), rows[j].status = "claimed"
    PROVE  \/ rows'[j].status = "claimed"
           \/ \E s \in Slots : /\ runs[s].job = j
                               /\ \/ Leaves(s)
                                  \/ \E step \in {"followUp", "giveUp"} : Pauses(s, step)
           \/ \E S \in SUBSET Jobs : Orphans(S) /\ j \in S /\ (Sweeps(S) \/ Reboots)
  <1>1. Standing(rows'[j], rows[j]) \/ Marks(j) => rows'[j].status = "claimed"
    BY DEF Standing, Moved, Marks
  <1>2. Stops(j) => Standing(rows'[j], rows[j])
    BY DEF Stops, OthersStand
  <1>3. ~DeliversDirectly(j) /\ \A s \in Slots : ~Starts(s, j)
    BY DEF DeliversDirectly, Starts
  <1>4. ASSUME NEW s \in Slots, runs[s].job = j, GivesUpOn(s) PROVE rows'[j].status = "claimed"
    BY <1>4 DEF GivesUpOn, Moved
  <1>5. rows[j].status \notin Terminal
    BY DEF Terminal
  <1> QED
    BY <1>1, <1>2, <1>3, <1>4, <1>5 DEF MovedBy

LEMMA PunctualStep ==
    ASSUME Held, Books, Punctual, Outcome PROVE Punctual'
  <1>1. Sound
    BY DEF Held
  <1>2. ASSUME NEW j \in Jobs PROVE Fresh(j) \/ Keeps(j)
    BY <1>1, EachKeeps
  <1>3. ASSUME NEW j \in Jobs, rows[j].status # "absent" PROVE Keeps(j) /\ MovedBy(j)
    BY <1>1, <1>2, <1>3, WhoMoved DEF Fresh
  <1>4. ASSUME MaxLapses = 0, NEW j \in Jobs PROVE rows'[j].lease # "lapsed"
    BY <1>2, <1>4 DEF Punctual, Fresh, Keeps, SameMessage
  <1>5. ASSUME MaxLapses = 0, NEW s \in Slots, runs'[s].job # 0,
               rows'[runs'[s].job].kind \in WorkKinds
        PROVE  \/ rows'[runs'[s].job].status = "claimed"
               \/ stretch'.step \in {"followUp", "giveUp"} /\ stretch'.slot = s
    <2>1. CASE Starts(s, runs'[s].job)
      BY <2>1 DEF Starts, Moved
    <2>2. CASE runs'[s].job = runs[s].job /\ ~Leaves(s) /\ ~Follows(s) /\ ~GivesUpOn(s) /\ ~Reboots
      <3> DEFINE j == runs[s].job
      <3>1. j \in Jobs /\ rows[j].status # "absent"
        BY <1>1, <1>5, <2>2, RunningFacts DEF Sound, Attached
      <3>2. rows[j].kind \in WorkKinds
        BY <1>3, <1>5, <2>2, <3>1 DEF Keeps, SameMessage
      <3>3. CASE stretch.step \in {"followUp", "giveUp"} /\ stretch.slot = s
        BY <2>2, <3>3, PausedGoesOn DEF Marks
      <3>4. CASE rows[j].status = "claimed"
        <4>1. ASSUME NEW t \in Slots, runs[t].job = j PROVE t = s
          BY <1>1, <3>1, <4>1, OneRunPerKey, BoundsAssumption DEF Held
        <4>2. ASSUME NEW S \in SUBSET Jobs, Sweeps(S) PROVE j \notin S
          BY <1>5, <4>2 DEF Sweeps, Punctual
        <4>3. ASSUME NEW step \in {"followUp", "giveUp"}, Pauses(s, step)
              PROVE  stretch'.step \in {"followUp", "giveUp"} /\ stretch'.slot = s
          BY <4>3 DEF Pauses
        <4> HIDE DEF j
        <4>4. \/ rows'[j].status = "claimed"
              \/ \E t \in Slots : /\ runs[t].job = j
                                  /\ \/ Leaves(t)
                                     \/ \E step \in {"followUp", "giveUp"} : Pauses(t, step)
              \/ \E S \in SUBSET Jobs : Orphans(S) /\ j \in S /\ (Sweeps(S) \/ Reboots)
          BY <1>3, <3>1, <3>4, ClaimedMoves
        <4> QED
          BY <2>2, <4>1, <4>2, <4>3, <4>4 DEF j
      <3> QED
        BY <1>5, <2>2, <3>1, <3>2, <3>3, <3>4 DEF Punctual
    <2> QED
      BY <1>1, <1>5, <2>1, <2>2, WhoRuns
  <1>6. ASSUME NEW v \in Jobs, Fresh(v) PROVE WrittenBy(v)
    BY <1>1, <1>6, WhoWrote
  <1>7. ASSUME NoAgentRuns, NEW v \in Jobs PROVE rows'[v].kind # "agentRun"
    <2>1. CASE Keeps(v)
      BY <1>7, <2>1 DEF Punctual, Keeps, SameMessage
    <2>2. CASE Fresh(v)
      <3>1. ASSUME NEW s \in Slots, Follows(s) PROVE rows[runs[s].job].kind # "agentRun"
        BY <1>1, <1>7, <3>1, StretchRun DEF Punctual, Follows
      <3> QED
        BY <1>6, <1>7, <2>2, <3>1 DEF WrittenBy, NoAgentRuns, DeliveryKinds
    <2> QED
      BY <1>2, <2>1, <2>2
  <1>8. ASSUME MaxLapses = 0 \/ NoAgentRuns, stretch'.step = "followUp"
        PROVE  rows'[runs'[stretch'.slot].job].status = "completed"
    <2>1. CASE UNCHANGED <<runs, stretch>>
      <3> DEFINE j == runs[stretch.slot].job
      <3>1. j \in Jobs /\ rows[j].status = "completed"
        BY <1>1, <1>8, <2>1, StretchRun DEF Punctual
      <3> QED
        BY <1>3, <2>1, <3>1 DEF Keeps, Terminal
    <2>2. ASSUME NEW s \in Slots, stretch'.slot = s, Pauses(s, "followUp")
          PROVE  rows'[runs'[stretch'.slot].job].status = "completed"
      <3> DEFINE j == runs[s].job
      <3>1. runs' = runs /\ Running(s) /\ Idle /\ j \in Jobs
        BY <1>1, <2>2, RunningFacts DEF Pauses, Running
      <3>2. CASE rows[j].kind = "agentRun"
        <4>1. MaxLapses = 0
          BY <1>8, <3>1, <3>2 DEF Punctual
        <4>2. rows[j].status = "claimed"
          BY <3>1, <3>2, <4>1 DEF Punctual, Running, Idle, NoStretch, WorkKinds
        <4> QED
          BY <2>2, <3>1, <3>2, <4>2 DEF Pauses, Moved
      <3>3. CASE rows[j].kind # "agentRun"
        BY <2>2, <3>1, <3>3 DEF Pauses, Moved
      <3> QED
        BY <3>2, <3>3
    <2> QED
      BY <1>1, <1>8, <2>1, <2>2, WhoPaused
  <1>9. ASSUME MaxLapses = 0 \/ NoAgentRuns, NEW f \in Jobs, rows'[f].status # "absent",
               rows'[f].form \in {"auto", "continuation"}
        PROVE  /\ rows'[f].kind # "update" /\ rows'[f].about \in Jobs
               /\ rows'[rows'[f].about].status = "completed"
    <2>1. CASE Keeps(f)
      <3>1. /\ rows[f].kind # "update" /\ rows[f].about \in Jobs
            /\ rows[rows[f].about].status = "completed"
        BY <1>9, <2>1 DEF Keeps, SameMessage, Punctual
      <3>2. rows'[f].kind = rows[f].kind /\ rows'[f].about = rows[f].about
        BY <2>1, <3>1 DEF Keeps, SameMessage
      <3>3. rows'[rows[f].about].status = "completed"
        BY <1>3, <3>1 DEF Keeps, Terminal
      <3> QED
        BY <3>1, <3>2, <3>3
    <2>2. CASE Fresh(f)
      <3>1. PICK s \in Slots :
               LET j == runs[s].job
               IN  /\ Follows(s) /\ rows'[f].about = j
                   /\ rows'[f].kind \in {rows[j].kind, "report"}
        BY <1>6, <1>9, <2>2 DEF WrittenBy
      <3>2. stretch.step = "followUp" /\ stretch.slot = s
        BY <3>1 DEF Follows
      <3>3. runs[s].job \in Jobs /\ rows[runs[s].job].status = "completed"
        BY <1>1, <1>9, <3>2, StretchRun DEF Punctual
      <3>4. rows[runs[s].job].kind # "update"
        BY <3>2 DEF Books, WorkKinds
      <3> QED
        BY <1>3, <3>1, <3>3, <3>4 DEF Keeps, Terminal
    <2> QED
      BY <1>2, <2>1, <2>2
  <1> QED
    BY <1>4, <1>5, <1>7, <1>8, <1>9 DEF Punctual

LEMMA AlwaysPunctual == Spec => [](Held /\ Books /\ Punctual)
  <1>1. Init => Punctual
    <2>1. ASSUME Init PROVE Punctual
      BY <2>1 DEF Init, Punctual, NoRow, NewRow, NoRun, NoStretch
    <2> QED
      BY <2>1
  <1>2. Held /\ Books /\ Punctual /\ [Next]_vars => Punctual'
    BY EveryStepOutcome, PunctualStep DEF Held
  <1> QED
    BY <1>1, <1>2, AlwaysBooks, PTL DEF Spec

\* As long as no lease of a live run lapses, or no colleague is asked, the
\* engine follows up (by a stand-in report or a continuation) on completed work
\* only.  Without the hypothesis a colleague that ends after the sweeper failed
\* its row is continued all the same.
THEOREM FollowUpsFollowCompletion ==
    ASSUME MaxLapses = 0 \/ NoAgentRuns
    PROVE  Spec => []FollowUpsOnlyFromCompletedWork
  <1>1. Held /\ Books /\ Punctual => FollowUpsOnlyFromCompletedWork
    BY DEF Punctual, FollowUpsOnlyFromCompletedWork
  <1> QED
    BY <1>1, AlwaysPunctual, PTL

-----------------------------------------------------------------------------
(* Verdicts, reports and Stops, while the process lives and its leases too.  *)

\* Only the commit after a report stamps a row.
LEMMA WhoReported ==
    ASSUME NEW j \in Jobs, MovedBy(j), rows'[j].reported # rows[j].reported
    PROVE  Marks(j)
  <1>1. ASSUME NEW status, NEW surfaced PROVE ~Moved(rows'[j], rows[j], status, surfaced)
    BY DEF Moved
  <1>2. ~Standing(rows'[j], rows[j])
    BY <1>1 DEF Standing
  <1>3. ASSUME NEW s \in Slots, runs[s].job = j
        PROVE  /\ ~Leaves(s) /\ ~GivesUpOn(s)
               /\ \A step \in {"followUp", "giveUp"} : ~Pauses(s, step)
    BY <1>1, <1>3 DEF Leaves, LeftAs, GivesUpOn, Pauses
  <1>4. ~Stops(j) /\ ~DeliversDirectly(j) /\ \A s \in Slots : ~Starts(s, j)
    BY <1>1, <1>2 DEF Stops, OthersStand, DeliversDirectly, Starts
  <1>5. ASSUME NEW S \in SUBSET Jobs, Orphans(S) PROVE j \notin S
    BY <1>1, <1>5 DEF Orphans
  <1> QED
    BY <1>1, <1>2, <1>3, <1>4, <1>5 DEF MovedBy

\* No boot and no sweep: no orphan is ever found.
Undisturbed == MaxCrashes = 0 /\ MaxLapses = 0

\* A stopped job has failed and nothing is or will be said about it, or its run
\* is flagged; what reported is not spoken for, nor is it about to be.
Calm ==
    /\ stretch.step # "orphans"
    /\ \A j \in stopped :
          \/ /\ rows[j].status = "failed" /\ j \notin stretch.jobs
             /\ \A v \in Jobs : IsVerdict(v) => rows[v].about # j
          \/ /\ rows[j].status = "claimed"
             /\ \A s \in Slots : runs[s].job = j => runs[s].stop
    /\ \A j \in Jobs : rows[j].reported => \A v \in Jobs : IsVerdict(v) => rows[v].about # j
    /\ stretch.step = "giveUp" => ~rows[runs[stretch.slot].job].reported

LEMMA NoOrphans ==
    ASSUME Undisturbed, Punctual, Outcome
    PROVE  ~Reboots /\ \A S \in SUBSET Jobs : ~Sweeps(S)
  <1>1. ASSUME NEW S \in SUBSET Jobs, Sweeps(S) PROVE FALSE
    <2>1. PICK j \in Jobs : rows[j].lease = "lapsed"
      BY <1>1 DEF Sweeps
    <2> QED
      BY <2>1 DEF Punctual, Undisturbed
  <1> QED
    BY <1>1 DEF Reboots, Undisturbed

LEMMA CalmStep ==
    ASSUME Undisturbed, Held, Books, Punctual, Calm, Outcome, Books', Punctual'
    PROVE  Calm'
  <1>1. Sound
    BY DEF Held
  <1>2. ~Reboots /\ \A S \in SUBSET Jobs : ~Sweeps(S)
    BY NoOrphans
  <1>3. ASSUME NEW j \in Jobs, rows[j].status # "absent" PROVE Keeps(j) /\ MovedBy(j)
    BY <1>1, <1>3, EachKeeps, WhoMoved DEF Fresh
  <1>4. ASSUME NEW v \in Jobs, IsVerdict(v)'
        PROVE  \/ IsVerdict(v) /\ rows'[v].about = rows[v].about
               \/ /\ WrittenBy(v) /\ rows'[v].form \in {"auto", "giveUp"}
                  /\ rows'[v].about \in stretch.jobs
    <2>1. CASE rows[v].status = "absent"
      <3>1. Fresh(v) /\ rows'[v].form \in {"auto", "giveUp"}
        BY <1>1, <1>4, <2>1, EachKeeps DEF IsVerdict, Keeps
      <3> QED
        BY <1>1, <3>1, NewVerdict, WhoWrote
    <2>2. CASE rows[v].status # "absent"
      BY <1>3, <1>4, <2>2 DEF Keeps, SameMessage, IsVerdict, Books
    <2> QED
      BY <2>1, <2>2
  <1>5. ASSUME NEW v \in Jobs, IsVerdict(v) PROVE rows[rows[v].about].status \in Terminal
    BY <1>5 DEF Books
  <1>6. stretch'.step # "orphans"
    <2>1. ASSUME NEW j \in Jobs, Pushes(j) PROVE FALSE
      BY <2>1 DEF Pushes, Calm
    <2>2. stretch' = NoStretch \/ UNCHANGED stretch => stretch'.step # "orphans"
      BY DEF NoStretch, Calm
    <2>3. ASSUME NEW s \in Slots, Speaks(s) \/ \E step \in {"followUp", "giveUp"} : Pauses(s, step)
          PROVE  stretch'.step # "orphans"
      BY <2>3 DEF Speaks, Pauses
    <2> QED
      BY <1>2, <2>1, <2>2, <2>3
      DEF Outcome, AsksAtMost, Absorbs, Leaves, Follows, GivesUpOn, Starts, Marks, Stops,
          DeliversDirectly
  <1>7. ASSUME NEW j \in stopped
        PROVE  \/ /\ rows'[j].status = "failed" /\ j \notin stretch'.jobs
                  /\ \A v \in Jobs : IsVerdict(v)' => rows'[v].about # j
               \/ /\ rows'[j].status = "claimed"
                  /\ \A s \in Slots : runs'[s].job = j => runs'[s].stop
    <2>1. j \in Jobs
      BY <1>1 DEF Sound, TypeOK
    <2>2. CASE /\ rows[j].status = "failed" /\ j \notin stretch.jobs
               /\ \A v \in Jobs : IsVerdict(v) => rows[v].about # j
      <3>1. rows'[j].status = "failed"
        BY <1>3, <2>1, <2>2 DEF Keeps, Terminal
      <3>2. stretch'.step = "followUp" => j \notin stretch'.jobs
        BY <3>1 DEF Punctual, Books, Undisturbed
      <3>3. j \notin stretch'.jobs
        BY <1>1, <2>2, <3>2, StretchMoves
      <3> QED
        BY <1>4, <2>2, <3>1, <3>3
    <2>3. CASE /\ rows[j].status = "claimed"
               /\ \A s \in Slots : runs[s].job = j => runs[s].stop
      <3>1. ASSUME NEW s \in Slots, runs'[s].job = j PROVE runs'[s].stop
        <4>1. ~Starts(s, j) /\ j # 0
          BY <2>1, <2>3, BoundsAssumption DEF Starts
        <4> QED
          BY <1>1, <2>3, <3>1, <4>1, WhoRuns
      <3>2. CASE rows'[j].status = "claimed"
        BY <3>1, <3>2
      <3>3. ASSUME NEW s \in Slots, runs[s].job = j, Leaves(s)
            PROVE  /\ rows'[j].status = "failed" /\ j \notin stretch'.jobs
                   /\ \A v \in Jobs : IsVerdict(v)' => rows'[v].about # j
        <4>1. rows'[j].status = "failed"
          BY <2>3, <3>3 DEF Leaves, LeftAs
        <4>2. stretch'.jobs = {} /\ stretch.jobs = {}
          BY <3>3 DEF Leaves, Running, Idle, NoStretch
        <4>3. ASSUME NEW v \in Jobs, IsVerdict(v) PROVE rows[v].about # j
          BY <1>5, <2>3, <4>3 DEF Terminal
        <4> QED
          BY <1>4, <4>1, <4>2, <4>3
      <3>4. ASSUME NEW s \in Slots, runs[s].job = j, NEW step, Pauses(s, step) PROVE FALSE
        BY <2>3, <3>4 DEF Pauses
      <3> QED
        BY <1>2, <1>3, <2>1, <2>3, <3>2, <3>3, <3>4, ClaimedMoves
    <2> QED
      BY <2>2, <2>3 DEF Calm
  <1>8. ASSUME NEW j \in stopped' \ stopped
        PROVE  \/ /\ rows'[j].status = "failed" /\ j \notin stretch'.jobs
                  /\ \A v \in Jobs : IsVerdict(v)' => rows'[v].about # j
               \/ /\ rows'[j].status = "claimed"
                  /\ \A s \in Slots : runs'[s].job = j => runs'[s].stop
    <2>1. Stops(j) /\ j \in Jobs
      BY <1>2, <1>8
      DEF Outcome, AsksAtMost, Absorbs, Speaks, Leaves, Follows, GivesUpOn, Pauses, Starts, Marks,
          DeliversDirectly, Pushes, Stops
    <2>2. stretch.jobs = {} /\ stretch'.jobs = {}
      BY <2>1 DEF Stops, Idle, NoStretch
    <2>3. CASE rows[j].status = "claimed"
      BY <2>1, <2>3 DEF Stops, OthersStand, Standing, Moved
    <2>4. CASE rows[j].status = "pending"
      <3>1. rows'[j].status = "failed"
        BY <2>1, <2>4 DEF Stops, Moved
      <3>2. ASSUME NEW v \in Jobs, IsVerdict(v) PROVE rows[v].about # j
        BY <1>5, <2>4, <3>2 DEF Terminal
      <3> QED
        BY <1>4, <2>2, <3>1, <3>2
    <2> QED
      BY <2>1, <2>3, <2>4 DEF Stops, Open
  <1>9. ASSUME NEW j \in Jobs, rows'[j].reported, NEW v \in Jobs, IsVerdict(v)'
        PROVE  rows'[v].about # j
    <2>1. CASE IsVerdict(v) /\ rows'[v].about = rows[v].about
      <3>1. SUFFICES ASSUME rows[v].about = j PROVE FALSE
        BY <2>1
      <3>2. rows[j].status \in Terminal /\ rows[j].kind \in WorkKinds /\ ~rows[j].reported
        BY <2>1, <3>1 DEF Books, Calm
      <3>3. Marks(j)
        BY <1>3, <1>9, <3>2, WhoReported DEF Terminal
      <3>4. /\ stretch.step = "markReported" /\ stretch.slot \in Slots
            /\ runs[stretch.slot].job = j /\ j # 0
        BY <1>1, <3>3, StretchRun, BoundsAssumption DEF Marks
      <3> QED
        BY <3>2, <3>4 DEF Punctual, Undisturbed, Terminal
    <2>2. CASE /\ WrittenBy(v) /\ rows'[v].form \in {"auto", "giveUp"}
               /\ rows'[v].about \in stretch.jobs
      <3>1. SUFFICES ASSUME rows'[v].about = j PROVE FALSE
        OBVIOUS
      <3>2. rows[j].status \in Terminal
        BY <2>2, <3>1 DEF Books
      <3>3. rows[j].reported
        BY <1>3, <1>9, <2>2, <3>1, <3>2, WhoReported
        DEF Marks, WrittenBy, Follows, GivesUpOn, Pushes, Terminal
      <3>4. ASSUME NEW s \in Slots, Follows(s), OwesReport(runs[s].job), j = runs[s].job
            PROVE  FALSE
        BY <3>3, <3>4 DEF OwesReport, Spoke
      <3>5. ASSUME NEW s \in Slots, GivesUpOn(s), j = runs[s].job PROVE FALSE
        BY <3>3, <3>5 DEF GivesUpOn, Calm
      <3>6. ASSUME Pushes(j) PROVE FALSE
        BY <3>6 DEF Pushes, Calm
      <3> QED
        BY <2>2, <3>1, <3>4, <3>5, <3>6 DEF WrittenBy
    <2> QED
      BY <1>4, <1>9, <2>1, <2>2
  <1>10. ASSUME stretch'.step = "giveUp" PROVE ~rows'[runs'[stretch'.slot].job].reported
    <2>1. CASE UNCHANGED <<runs, stretch>>
      <3> DEFINE j == runs[stretch.slot].job
      <3>1. j \in Jobs /\ rows[j].status # "absent" /\ ~rows[j].reported
        BY <1>1, <1>10, <2>1, StretchRun DEF Calm
      <3>2. ~Marks(j)
        BY <1>10, <2>1 DEF Marks
      <3> QED
        BY <1>3, <2>1, <3>1, <3>2, WhoReported DEF Sound, TypeOK, Rows
    <2>2. ASSUME NEW s \in Slots, stretch'.slot = s, Pauses(s, "giveUp")
          PROVE  ~rows'[runs'[stretch'.slot].job].reported
      BY <2>2 DEF Pauses, Moved
    <2> QED
      BY <1>1, <1>10, <2>1, <2>2, WhoPaused
  <1> QED
    BY <1>6, <1>7, <1>8, <1>9, <1>10 DEF Calm

LEMMA AlwaysCalm ==
    ASSUME Undisturbed PROVE Spec => []Calm
  <1>1. Init => Calm
    <2>1. ASSUME Init PROVE Calm
      BY <2>1 DEF Init, Calm, NoRow, NewRow, NoStretch
    <2> QED
      BY <2>1
  <1>2. Held /\ Books /\ Punctual /\ Calm /\ [Next]_vars /\ Books' /\ Punctual'
        => Calm'
    BY EveryStepOutcome, CalmStep DEF Held
  <1> QED
    BY <1>1, <1>2, AlwaysPunctual, PTL DEF Spec

\* Once a user was told that a job is stopped or stopping, it neither completes
\* nor goes round again and the engine pushes nothing about it: for a process
\* that neither dies nor lets a lease lapse.  (The boot pass and the sweeper
\* cannot see the flag: it is memory of the run they found orphaned.)
THEOREM StopsAreFinal ==
    ASSUME MaxCrashes = 0, MaxLapses = 0 PROVE Spec => []StopIsFinal
  <1>1. Undisturbed
    BY DEF Undisturbed
  <1>2. ASSUME Held, Books, Calm PROVE StopIsFinal
    <2>1. ASSUME NEW j \in stopped
          PROVE  rows[j].status \in {"claimed", "failed"} /\ Verdicts(j) = {}
      <3>1. ASSUME NEW v \in Jobs, IsVerdict(v), rows[v].about = j PROVE rows[j].status # "claimed"
        BY <1>2, <3>1 DEF Books, Terminal
      <3> QED
        BY <1>2, <3>1 DEF Calm, Verdicts, IsVerdict
    <2> QED
      BY <2>1 DEF StopIsFinal
  <1>3. Held /\ Books /\ Calm => StopIsFinal
    BY <1>2
  <1> QED
    BY <1>1, <1>3, AlwaysBooks, AlwaysCalm, PTL

\* Work that reported is neither reported for nor declared failed by the engine:
\* for a process that neither dies nor lets a lease lapse.  (A crash between a
\* report and its stamp, or a lapse during the run, leaves an orphan whose
\* notice contradicts the report.)
THEOREM ReportsAreNotContradicted ==
    ASSUME MaxCrashes = 0, MaxLapses = 0 PROVE Spec => []NoContradiction
  <1>1. Undisturbed
    BY DEF Undisturbed
  <1>2. Calm => NoContradiction
    BY DEF Calm, NoContradiction, Verdicts, IsVerdict
  <1> QED
    BY <1>1, <1>2, AlwaysCalm, PTL

-----------------------------------------------------------------------------
(* Nothing settled goes unheard.                                             *)

\* The voice thread hands out no work.
VoiceAsksNoWork == \A q \in Requests : q.kind \in WorkKinds => q.req # Voice

Answered(j) == \E i \in Jobs : /\ rows[i].status # "absent" /\ rows[i].about = j
                               /\ rows[i].kind # "update"

\* The catch-up net holds all open work; a stamp, and the commit that sets it,
\* stand for a message; a colleague's late completion has been heard of.
Audible ==
    /\ \A j \in Jobs : rows[j].kind \in WorkKinds => rows[j].req # Voice
    /\ \A j \in Jobs : rows[j].status \in Open => ~rows[j].surfaced
    /\ \A j \in Jobs : rows[j].reported => Answered(j)
    /\ \A j \in Jobs :
          stretch.step = "markReported" /\ runs[stretch.slot].job = j => Answered(j)
    /\ \A j \in Jobs :
          /\ stretch.step = "followUp" /\ runs[stretch.slot].job = j
          /\ rows[j].kind = "agentRun"
          => Heard(j)
    /\ stretch.step \in {"idle", "markReported"} => stretch.jobs = {}
    /\ NoSilentOutcome

LEMMA AnsweredStays ==
    ASSUME Sound, Outcome, NEW j, Answered(j) PROVE Answered(j)'
  <1>1. PICK i \in Jobs : /\ rows[i].status # "absent" /\ rows[i].about = j
                          /\ rows[i].kind # "update"
    BY DEF Answered
  <1>2. Keeps(i)
    BY <1>1, EachKeeps DEF Fresh
  <1> QED
    BY <1>1, <1>2 DEF Keeps, SameMessage, Answered

LEMMA AnsweredIsHeard ==
    ASSUME NEW j PROVE (Answered(j) => Heard(j)) /\ (Answered(j)' => Heard(j)')
  <1> QED
    BY DEF Answered, Heard

LEMMA HistoriesGrow ==
    ASSUME Outcome PROVE stopped \subseteq stopped' /\ absorbed \subseteq absorbed'
  <1> QED
    BY DEF Outcome, AsksAtMost, Absorbs, Reboots, Orphans, Speaks, Leaves, Follows, GivesUpOn,
           Pauses, Starts, Marks, Stops, DeliversDirectly, Pushes, Sweeps

LEMMA HeardStays ==
    ASSUME Sound, Outcome, NEW j \in Jobs, Heard(j), rows'[j].surfaced => rows[j].surfaced
    PROVE  Heard(j)'
  <1>1. CASE Answered(j)
    BY <1>1, AnsweredStays, AnsweredIsHeard
  <1>2. CASE j \in stopped \cup absorbed \/ ~rows[j].surfaced
    BY <1>2, HistoriesGrow DEF Heard
  <1> QED
    BY <1>1, <1>2 DEF Heard, Answered

LEMMA WrittenAnswers ==
    ASSUME NEW i \in Jobs, NEW j, NEW kind, NEW form, Written(i, j, kind, form), kind # "update"
    PROVE  Answered(j)'
  <1> QED
    BY DEF Written, Fresh, Answered

\* What becomes of work whose outcome was already due to be heard.
LEMMA SettledMoves ==
    ASSUME Held, Books, Audible, Outcome, ~Reboots, NEW j \in Jobs,
           rows[j].kind \in WorkKinds, rows[j].status \in Terminal, j \notin stretch.jobs
    PROVE  Heard(j)'
  <1>1. Sound /\ Heard(j) /\ rows[j].status # "absent"
    BY DEF Held, Audible, NoSilentOutcome, IsWork, Terminal
  <1>2. MovedBy(j)
    BY <1>1, WhoMoved
  <1>3. CASE rows'[j].surfaced => rows[j].surfaced
    BY <1>1, <1>3, HeardStays
  <1>4. CASE rows'[j].surfaced /\ ~rows[j].surfaced
    <2>1. /\ ~Standing(rows'[j], rows[j]) /\ ~Marks(j) /\ ~DeliversDirectly(j) /\ ~Stops(j)
          /\ \A s \in Slots : ~Starts(s, j)
      BY <1>4 DEF Standing, Moved, Marks, DeliversDirectly, Stops, Starts, Terminal, Open
    <2>2. ASSUME NEW S \in SUBSET Jobs, Orphans(S) PROVE j \notin S
      BY <2>2 DEF Orphans, Terminal
    <2>3. ASSUME Absorbs, rows[j].req # Voice => j \in absorbed' PROVE Heard(j)'
      BY <2>3 DEF Audible, Heard
    <2>4. ASSUME NEW s \in Slots, runs[s].job = j, Leaves(s) PROVE Heard(j)'
      <3>1. Answered(j)
        BY <1>4, <2>4 DEF Leaves, LeftAs, Audible
      <3> QED
        BY <1>1, <3>1, AnsweredStays, AnsweredIsHeard
    <2>5. ASSUME NEW s \in Slots, runs[s].job = j, GivesUpOn(s) PROVE Heard(j)'
      <3>1. stretch.jobs = {j}
        BY <2>5 DEF GivesUpOn, Books
      <3> QED
        BY <3>1
    <2>6. ASSUME NEW s \in Slots, runs[s].job = j, NEW step, Pauses(s, step) PROVE Heard(j)'
      BY <1>4, <2>6 DEF Pauses, Moved, Terminal
    <2> QED
      BY <1>2, <2>1, <2>2, <2>3, <2>4, <2>5, <2>6 DEF MovedBy
  <1> QED
    BY <1>3, <1>4

LEMMA OutcomeIsHeard ==
    ASSUME Held, Books, Audible, Outcome, ~Reboots, NEW j \in Jobs,
           rows'[j].kind \in WorkKinds, rows'[j].status \in Terminal, j \notin stretch'.jobs
    PROVE  Heard(j)'
  <1>1. Sound
    BY DEF Held
  <1>2. rows[j].status # "absent" /\ Keeps(j) /\ rows[j].kind \in WorkKinds
    BY <1>1, EachKeeps DEF Fresh, Keeps, SameMessage, Terminal
  <1>3. MovedBy(j)
    BY <1>1, <1>2, WhoMoved
  <1>4. CASE j \in stretch.jobs
    <2>1. stretch.step \notin {"idle", "markReported"} /\ rows[j].status \in Terminal
      BY <1>4 DEF Audible, Books
    <2>2. stretch # NoStretch /\ ~UNCHANGED stretch
      BY <1>4 DEF NoStretch
    <2>3. CASE stretch.step = "orphans"
      <3>1. ASSUME NEW i \in Jobs, Pushes(i) PROVE Heard(j)'
        <4>1. i = j
          BY <1>4, <3>1 DEF Pushes
        <4> QED
          BY <3>1, <4>1, WrittenAnswers, AnsweredIsHeard DEF Pushes
      <3>2. ASSUME NEW s \in Slots,
                   \/ Speaks(s) \/ Leaves(s) \/ Follows(s) \/ GivesUpOn(s)
                   \/ \E step \in {"followUp", "giveUp"} : Pauses(s, step)
                   \/ \E i \in Jobs : Starts(s, i)
            PROVE  FALSE
        BY <2>2, <2>3, <3>2
        DEF Speaks, Leaves, Follows, GivesUpOn, Pauses, Starts, Running, Idle
      <3>3. (\A i \in Jobs : ~Marks(i) /\ ~Stops(i) /\ ~DeliversDirectly(i)) /\ \A S : ~Sweeps(S)
        BY <2>2, <2>3 DEF Marks, Stops, DeliversDirectly, Sweeps, Idle
      <3> QED
        BY <2>2, <3>1, <3>2, <3>3 DEF Outcome, AsksAtMost, Absorbs
    <2>4. CASE stretch.step \in {"followUp", "giveUp"}
      <3> DEFINE s == stretch.slot
      <3>1. s \in Slots /\ runs[s].job = j
        BY <1>1, <1>4, <2>4, StretchRun DEF Books
      <3>2. Follows(s) \/ GivesUpOn(s)
        <4>1. \A i \in Jobs : ~Marks(i)
          BY <2>4 DEF Marks
        <4>2. \/ UNCHANGED <<stretch, runs>>
              \/ \E i \in Jobs : Marks(i)
              \/ Follows(s) \/ GivesUpOn(s) \/ Reboots
          BY <2>4, PausedGoesOn
        <4> HIDE DEF s
        <4> QED
          BY <2>2, <4>1, <4>2
      <3>3. CASE GivesUpOn(s)
        BY <3>1, <3>3, WrittenAnswers, AnsweredIsHeard DEF GivesUpOn
      <3>4. CASE Follows(s)
        <4>1. ASSUME NEW i \in Jobs, Written(i, j, rows[j].kind, "continuation") PROVE Heard(j)'
          BY <1>2, <4>1, WrittenAnswers, AnsweredIsHeard DEF WorkKinds
        <4>2. ASSUME NEW i \in Jobs, Written(i, j, "report", "auto") PROVE Heard(j)'
          BY <4>2, WrittenAnswers, AnsweredIsHeard
        <4>3. ASSUME ~OwesReport(j), OthersStand({}) PROVE Heard(j)'
          <5>1. CASE rows[j].kind = "task"
            BY <1>1, <4>3, <5>1, AnsweredStays, AnsweredIsHeard DEF OwesReport, Spoke, Audible
          <5>2. CASE rows[j].kind = "agentRun"
            <6>1. Heard(j)
              BY <3>1, <3>4, <5>2 DEF Follows, Audible
            <6>2. rows'[j].surfaced = rows[j].surfaced
              BY <4>3 DEF OthersStand, Standing, Moved
            <6> QED
              BY <1>1, <6>1, <6>2, HeardStays
          <5> QED
            BY <1>2, <5>1, <5>2 DEF WorkKinds
        <4> HIDE DEF s
        <4> QED
          BY <3>1, <3>4, <4>1, <4>2, <4>3 DEF Follows
      <3> QED
        BY <3>2, <3>3, <3>4
    <2> QED
      BY <1>1, <2>1, <2>3, <2>4 DEF Sound, TypeOK, Stretches
  <1>5. CASE j \notin stretch.jobs /\ rows[j].status \in Terminal
    BY <1>2, <1>5, SettledMoves
  <1>6. CASE j \notin stretch.jobs /\ rows[j].status \in Open
    <2>1. ~rows[j].surfaced
      BY <1>6 DEF Audible
    <2>2. ~rows'[j].surfaced => Heard(j)'
      BY DEF Heard
    <2>3. /\ ~Standing(rows'[j], rows[j]) /\ ~Marks(j) /\ ~DeliversDirectly(j)
          /\ (\A s \in Slots : ~Starts(s, j)) /\ rows[j].status \notin Terminal
      BY <1>2, <1>6 DEF Standing, Moved, Marks, DeliversDirectly, Starts, IsWork, Terminal, Open
    <2>4. ASSUME Stops(j) PROVE Heard(j)'
      BY <2>4 DEF Stops, Heard
    <2>5. ASSUME NEW S \in SUBSET Jobs, Orphans(S) PROVE j \notin S
      BY <1>2, <2>5 DEF Orphans, IsWork
    <2>6. ASSUME NEW s \in Slots, runs[s].job = j, Leaves(s) PROVE Heard(j)'
      <3>1. CASE rows'[j].surfaced
        <4>1. Answered(j)
          BY <1>2, <2>1, <2>6, <3>1 DEF Leaves, LeftAs, Audible
        <4> QED
          BY <1>1, <4>1, AnsweredStays, AnsweredIsHeard
      <3> QED
        BY <2>2, <3>1
    <2>7. ASSUME NEW s \in Slots, runs[s].job = j, GivesUpOn(s) PROVE FALSE
      BY <1>6, <2>7 DEF GivesUpOn, Books
    <2>8. ASSUME NEW s \in Slots, runs[s].job = j, NEW step, Pauses(s, step) PROVE FALSE
      BY <2>8 DEF Pauses
    <2> QED
      BY <1>3, <2>3, <2>4, <2>5, <2>6, <2>7, <2>8 DEF MovedBy
  <1> QED
    BY <1>1, <1>2, <1>4, <1>5, <1>6 DEF Sound, TypeOK, Rows, Statuses, Terminal, Open

\* A row leaves the catch-up net settled.
LEMMA OpenIsUnsurfaced ==
    ASSUME Held, Books, Audible, Outcome, NEW j \in Jobs, rows'[j].status \in Open
    PROVE  ~rows'[j].surfaced
  <1>1. Sound
    BY DEF Held
  <1>2. CASE Fresh(j)
    BY <1>2 DEF Fresh
  <1>3. CASE ~Fresh(j)
    <2>1. /\ Keeps(j) /\ rows[j].status # "absent" /\ rows[j].status \in Open /\ MovedBy(j)
      <3>1. Keeps(j)
        BY <1>1, <1>3, EachKeeps
      <3>2. rows[j].status # "absent" /\ rows[j].status \notin Terminal
        BY <3>1 DEF Keeps, Terminal, Open
      <3>3. rows[j].status \in Open
        BY <1>1, <3>2 DEF Sound, TypeOK, Rows, Statuses, Terminal, Open
      <3> QED
        BY <1>1, <3>1, <3>2, <3>3, WhoMoved
    <2>2. ~rows[j].surfaced
      BY <2>1 DEF Audible
    <2>3. \A status : Moved(rows'[j], rows[j], status, rows[j].surfaced) => ~rows'[j].surfaced
      BY <2>2 DEF Moved
    <2>4. Standing(rows'[j], rows[j]) \/ Marks(j) \/ DeliversDirectly(j) => ~rows'[j].surfaced
      BY <2>2, <2>3 DEF Standing, Marks, DeliversDirectly
    <2>5. Stops(j) \/ (\E s \in Slots : Starts(s, j)) => ~rows'[j].surfaced
      BY <2>3 DEF Stops, Starts, OthersStand, Standing
    <2>6. ASSUME NEW s \in Slots, runs[s].job = j, Leaves(s) PROVE ~rows'[j].surfaced
      BY <2>2, <2>6 DEF Leaves, LeftAs, Terminal, Open
    <2>7. ASSUME NEW s \in Slots, runs[s].job = j, GivesUpOn(s) PROVE FALSE
      BY <2>1, <2>7 DEF GivesUpOn, Books, Terminal, Open
    <2>8. ASSUME NEW s \in Slots, runs[s].job = j, NEW step, Pauses(s, step)
          PROVE  ~rows'[j].surfaced
      BY <2>3, <2>8 DEF Pauses, Moved, Open
    <2>9. ASSUME NEW S \in SUBSET Jobs, Orphans(S), j \in S PROVE ~rows'[j].surfaced
      BY <2>3, <2>9 DEF Orphans, Moved, Open
    <2>10. rows[j].status \notin Terminal
      BY <2>1 DEF Terminal, Open
    <2> QED
      BY <2>1, <2>4, <2>5, <2>6, <2>7, <2>8, <2>9, <2>10 DEF MovedBy
  <1> QED
    BY <1>2, <1>3

LEMMA AudibleStep ==
    ASSUME VoiceAsksNoWork, Held, Books, Audible, Outcome, ~Reboots PROVE Audible'
  <1>1. Sound
    BY DEF Held
  <1>2. ASSUME NEW j \in Jobs PROVE Fresh(j) \/ Keeps(j)
    BY <1>1, EachKeeps
  <1>3. ASSUME NEW j \in Jobs, rows'[j].kind \in WorkKinds PROVE rows'[j].req # Voice
    <2>1. CASE Keeps(j)
      BY <1>3, <2>1 DEF Keeps, SameMessage, Audible
    <2>2. CASE Fresh(j)
      <3>1. WrittenBy(j)
        BY <1>1, <2>2, WhoWrote
      <3>2. ASSUME NEW s \in Slots, Follows(s), rows'[j].kind = rows[runs[s].job].kind,
                   rows'[j].req = rows[runs[s].job].req
            PROVE  rows'[j].req # Voice
        BY <1>1, <1>3, <3>2, StretchRun DEF Follows, Audible
      <3> QED
        BY <1>3, <3>1, <3>2 DEF WrittenBy, WorkKinds, DeliveryKinds, VoiceAsksNoWork
    <2> QED
      BY <1>2, <2>1, <2>2
  <1>4. ASSUME NEW j \in Jobs, rows'[j].reported PROVE Answered(j)'
    <2>1. CASE rows[j].reported
      BY <1>1, <2>1, AnsweredStays DEF Audible
    <2>2. CASE ~rows[j].reported
      <3>1. ~Fresh(j)
        BY <1>4 DEF Fresh
      <3>2. Marks(j)
        BY <1>1, <1>4, <2>2, <3>1, FreshOrMoved, WhoReported
      <3>3. stretch.step = "markReported" /\ runs[stretch.slot].job = j
        BY <3>2 DEF Marks
      <3>4. Answered(j)
        BY <3>3 DEF Audible
      <3> QED
        BY <1>1, <3>4, AnsweredStays
    <2> QED
      BY <2>1, <2>2
  <1>5. ASSUME NEW j \in Jobs, stretch'.step = "markReported", runs'[stretch'.slot].job = j
        PROVE  Answered(j)'
    <2>1. CASE UNCHANGED <<runs, stretch>>
      <3>1. Answered(j)
        BY <1>5, <2>1 DEF Audible
      <3> QED
        BY <1>1, <3>1, AnsweredStays
    <2>2. ASSUME NEW s \in Slots, stretch'.slot = s, Speaks(s) PROVE Answered(j)'
      <3>1. runs[s].job = j
        BY <1>5, <2>2 DEF Speaks
      <3> QED
        BY <2>2, <3>1 DEF Speaks, Fresh, Answered
    <2>3. ASSUME NEW s \in Slots, Pauses(s, "markReported") PROVE FALSE
      BY <2>3 DEF Pauses
    <2> QED
      BY <1>1, <1>5, <2>1, <2>2, <2>3, WhoPaused
  <1>6. ASSUME NEW j \in Jobs, stretch'.step = "followUp", runs'[stretch'.slot].job = j,
               rows'[j].kind = "agentRun"
        PROVE  Heard(j)'
    <2>1. ASSUME rows[j].kind = "agentRun", rows[j].status \in Terminal, stretch.step = "idle"
          PROVE  Heard(j)'
      BY <2>1, SettledMoves DEF Audible, WorkKinds
    <2>2. CASE UNCHANGED <<runs, stretch>>
      <3>1. /\ runs[stretch.slot].job = j /\ stretch.step = "followUp" /\ stretch.jobs = {j}
            /\ rows[j].status \in Terminal
        BY <1>6, <2>2 DEF Books
      <3>2. Keeps(j) /\ MovedBy(j)
        BY <1>1, <1>2, <3>1, WhoMoved DEF Fresh, Terminal
      <3>3. rows[j].kind = "agentRun" /\ rows[j].req # Voice /\ Heard(j)
        BY <1>6, <3>1, <3>2 DEF Keeps, SameMessage, Audible, WorkKinds
      <3>4. CASE rows'[j].surfaced => rows[j].surfaced
        BY <1>1, <3>3, <3>4, HeardStays
      <3>5. CASE rows'[j].surfaced /\ ~rows[j].surfaced
        <4>1. /\ ~Standing(rows'[j], rows[j]) /\ ~Marks(j) /\ ~DeliversDirectly(j) /\ ~Stops(j)
              /\ \A s \in Slots : ~Starts(s, j)
          BY <3>1, <3>5 DEF Standing, Moved, Marks, DeliversDirectly, Stops, Starts, Terminal, Open
        <4>2. /\ \A S \in SUBSET Jobs : ~Sweeps(S)
              /\ \A s \in Slots : /\ ~Leaves(s) /\ ~GivesUpOn(s)
                                  /\ \A step \in {"followUp", "giveUp"} : ~Pauses(s, step)
          BY <3>1 DEF Sweeps, Leaves, GivesUpOn, Pauses, Running, Idle, NoStretch
        <4>3. j \in absorbed'
          BY <3>2, <3>3, <4>1, <4>2 DEF MovedBy
        <4> QED
          BY <4>3 DEF Heard
      <3> QED
        BY <3>4, <3>5
    <2>3. ASSUME NEW s \in Slots, stretch'.slot = s, Pauses(s, "followUp") PROVE Heard(j)'
      <3>1. runs[s].job = j /\ Running(s) /\ stretch.step = "idle"
        BY <1>6, <2>3 DEF Pauses, Running, Idle, NoStretch
      <3>2. rows[j].status # "absent" /\ Keeps(j)
        BY <1>1, <1>2, <3>1, BoundsAssumption DEF Sound, Attached, Running, Fresh
      <3>3. rows[j].kind = "agentRun" /\ rows[j].status # "pending"
        BY <1>6, <3>1, <3>2 DEF Keeps, SameMessage, Books, WorkKinds, Running
      <3>4. CASE rows[j].status = "claimed"
        <4>1. ~rows[j].surfaced
          BY <3>4 DEF Audible, Open
        <4>2. ~rows'[j].surfaced
          BY <2>3, <3>1, <3>3, <4>1 DEF Pauses, Moved
        <4> QED
          BY <4>2 DEF Heard
      <3>5. CASE rows[j].status \in Terminal
        BY <2>1, <3>1, <3>3, <3>5
      <3> QED
        BY <1>1, <3>2, <3>3, <3>4, <3>5 DEF Sound, TypeOK, Rows, Statuses, Terminal
    <2> QED
      BY <1>1, <1>6, <2>2, <2>3, WhoPaused
  <1>7. stretch'.step \in {"idle", "markReported"} => stretch'.jobs = {}
    <2>1. stretch' = NoStretch \/ UNCHANGED stretch
             => (stretch'.step \in {"idle", "markReported"} => stretch'.jobs = {})
      BY DEF NoStretch, Audible
    <2>2. ASSUME NEW s \in Slots, Speaks(s) \/ \E step \in {"followUp", "giveUp"} : Pauses(s, step)
          PROVE  stretch'.step \in {"idle", "markReported"} => stretch'.jobs = {}
      BY <2>2 DEF Speaks, Pauses
    <2>3. ASSUME NEW S \in SUBSET Jobs, Orphans(S)
          PROVE  stretch'.step \in {"idle", "markReported"} => stretch'.jobs = {}
      BY <2>3 DEF Orphans
    <2>4. ASSUME NEW j \in Jobs, Pushes(j)
          PROVE  stretch'.step \in {"idle", "markReported"} => stretch'.jobs = {}
      BY <2>4 DEF Pushes
    <2> QED
      BY <2>1, <2>2, <2>3, <2>4
      DEF Outcome, AsksAtMost, Absorbs, Leaves, Follows, GivesUpOn, Starts, Marks, Stops,
          DeliversDirectly, Sweeps
  <1>8. ASSUME NEW j \in Jobs, rows'[j].kind \in WorkKinds, rows'[j].status \in Terminal,
               j \notin stretch'.jobs
        PROVE  Heard(j)'
    BY <1>8, OutcomeIsHeard
  <1>9. ASSUME NEW j \in Jobs, rows'[j].status \in Open PROVE ~rows'[j].surfaced
    BY <1>9, OpenIsUnsurfaced
  <1> QED
    BY <1>3, <1>4, <1>5, <1>6, <1>7, <1>8, <1>9 DEF Audible, NoSilentOutcome, IsWork

\* Whatever lapses, late completions, retries and Stops come in between, the
\* requester of settled work hears of it, from a process that does not die and
\* whose voice thread hands out no work.  (A crash after a completion and before
\* its follow-up loses the report; what the voice thread asked for is retired
\* from the catch-up net without being narrated.)
THEOREM NothingEndsSilently ==
    ASSUME MaxCrashes = 0, VoiceAsksNoWork PROVE Spec => []NoSilentOutcome
  <1>1. Init => Audible
    <2>1. ASSUME Init PROVE Audible
      BY <2>1, IdentityAssumption
      DEF Init, Audible, NoRow, NewRow, NoStretch, NoSilentOutcome, Open, Terminal
    <2> QED
      BY <2>1
  <1>2. Held /\ Books /\ Audible /\ [Next]_vars => Audible'
    <2>1. ~Reboots
      BY DEF Reboots
    <2> QED
      BY <2>1, EveryStepOutcome, AudibleStep DEF Held
  <1>3. Audible => NoSilentOutcome
    BY DEF Audible
  <1> QED
    BY <1>1, <1>2, <1>3, AlwaysBooks, PTL DEF Spec

=============================================================================
