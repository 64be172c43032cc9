----------------------------- MODULE DbChannels -----------------------------
(***************************************************************************)
(* A database channel (lib/db-channels.ts): a work queue of records that   *)
(* workers and operators change over HTTP, and the runs of a task bound to *)
(* it (lib/runs/service.ts, lib/runs/channel.ts), each of which claims one *)
(* record before it is created and settles it after it has ended.          *)
(*                                                                         *)
(* A step is one MongoDB operation. A run is reduced to what its record    *)
(* depends on; how it gets from queued to its final status is the business *)
(* of RunLifecycle, and finishRun's guard is taken from there.             *)
(***************************************************************************)
EXTENDS Naturals

CONSTANTS
  Runs,       \* runs of tasks bound to the channel
  None,       \* no run
  MaxRecords, \* bound: records ever added
  MaxEdits,   \* bound: edits by an operator or a worker
  MaxCrashes  \* bound: crashes of the app

ASSUME ChannelAssumption == /\ {MaxRecords, MaxEdits, MaxCrashes} \subseteq Nat
                            /\ None \notin Runs \cup {"worker"}
                            /\ "worker" \notin Runs

\* ObjectIds: their order is the order of the queue.
Ids == 1..MaxRecords

VARIABLES
  channel,   \* the channel's document exists
  purging,   \* a deleteChannel between its two deletions
  record,    \* status of each record; "coming" in addRecords before the insert
  result,    \* the run that wrote the record's result
  run,       \* Run.status; cancelled stands for lost and skipped as well
  claim,     \* the record the run carries (Run.dbRecord), 0 for none
  step,      \* the step createRun or settleChannelRecord takes next for it
  edits,     \* edits so far
  crashes,   \* crashes so far
  owner,     \* history: who the claim in force was made for
  touched,   \* history: records whose status was changed by hand
  dropped    \* history: claims given up by a crash, or a lost run document

recordVars == <<record, result>>
runVars == <<run, claim, step>>
history == <<owner, touched, dropped>>
vars == <<channel, purging, recordVars, runVars, edits, crashes, history>>

Statuses == {"pending", "processing", "done", "failed"}
Outcomes == {"succeeded", "failed", "cancelled"}
InFlight == {"queued", "running"}

\* Steps at which somebody still looks after the record of a run: createRun
\* about to insert the run or to undo its claim, settleChannelRecord about to
\* read the run, or to apply what it read.
Applying == {"done", "failed", "pending"}
Holding == {"insert", "undo", "settle"} \cup Applying

TypeOK ==
  /\ channel \in BOOLEAN /\ purging \in BOOLEAN
  /\ record \in [Ids -> Statuses \cup {"none", "coming", "deleted"}]
  /\ result \in [Ids -> Runs \cup {None}]
  /\ run \in [Runs -> {"none", "deleted"} \cup InFlight \cup Outcomes]
  /\ claim \in [Runs -> {0} \cup Ids]
  /\ step \in [Runs -> {"idle", "claim"} \cup Holding]
  /\ edits \in 0..MaxEdits /\ crashes \in 0..MaxCrashes
  /\ owner \in [Ids -> Runs \cup {None, "worker"}]
  /\ touched \subseteq Ids /\ dropped \subseteq Ids

Init ==
  /\ channel = TRUE /\ purging = FALSE
  /\ record = [x \in Ids |-> "none"]
  /\ result = [x \in Ids |-> None]
  /\ run = [r \in Runs |-> "none"]
  /\ claim = [r \in Runs |-> 0]
  /\ step = [r \in Runs |-> "idle"]
  /\ edits = 0 /\ crashes = 0
  /\ owner = [x \in Ids |-> None]
  /\ touched = {} /\ dropped = {}

Goes(r, s) == step' = [step EXCEPT ![r] = s]

\* The records whose claim in force was made for one of these runs.
ClaimsOf(rs) == {x \in Ids : owner[x] \in rs}

-----------------------------------------------------------------------------
(* The record operations, each one atomic update                           *)

\* Faulty variant: the claim forgets to ask for the status.
AnyRecord(x) == record[x] \in Statuses

Claimable(x) == record[x] = "pending"

\* claimNextRecord: the oldest pending record.
Oldest(x) == Claimable(x) /\ \A y \in 1..(x - 1) : ~Claimable(y)

ClaimFor(x, who) ==
  /\ record' = [record EXCEPT ![x] = "processing"]
  /\ owner' = [owner EXCEPT ![x] = who]
  /\ UNCHANGED result

\* Back to pending, at its old place in the queue.
GiveBack(x) ==
  /\ record' = [record EXCEPT ![x] = "pending"]
  /\ owner' = [owner EXCEPT ![x] = None]
  /\ UNCHANGED result

\* settleRecord: only a record that is processing, whoever claimed it.
Settle(x, r, to) ==
  IF record[x] # "processing" THEN UNCHANGED <<recordVars, owner>>
  ELSE IF to = "pending" THEN GiveBack(x)
  ELSE /\ record' = [record EXCEPT ![x] = to]
       /\ result' = [result EXCEPT ![x] = r]
       /\ owner' = [owner EXCEPT ![x] = None]

-----------------------------------------------------------------------------
(* createRun: claim, insert, and the undo of a claim whose run is refused  *)

\* claimNextRecord finds the channel.
CreateCheck(r) ==
  /\ channel /\ run[r] = "none" /\ step[r] = "idle"
  /\ Goes(r, "claim")
  /\ UNCHANGED <<channel, purging, recordVars, run, claim, edits, crashes,
                 history>>

CreateClaim(r) ==
  /\ step[r] = "claim"
  /\ \E x \in Ids : /\ Oldest(x)
                    /\ ClaimFor(x, r)
                    /\ claim' = [claim EXCEPT ![r] = x]
  /\ Goes(r, "insert")
  /\ UNCHANGED <<channel, purging, run, edits, crashes, touched, dropped>>

\* "Channel ... has no pending records"
CreateEmpty(r) ==
  /\ step[r] = "claim" /\ \A x \in Ids : ~Claimable(x)
  /\ Goes(r, "idle")
  /\ UNCHANGED <<channel, purging, recordVars, run, claim, edits, crashes,
                 history>>

CreateInsert(r) ==
  /\ step[r] = "insert"
  /\ run' = [run EXCEPT ![r] = "queued"]
  /\ Goes(r, "idle")
  /\ UNCHANGED <<channel, purging, recordVars, claim, edits, crashes,
                 history>>

\* Faulty variant: a refused run keeps its claim.
RefuseOnly(r) == Goes(r, "idle")

Refuse(r) == Goes(r, "undo")

\* Run.create fails, on the unique index of the device for one.
CreateRefused(r) ==
  /\ step[r] = "insert"
  /\ Refuse(r)
  /\ UNCHANGED <<channel, purging, recordVars, run, claim, edits, crashes,
                 history>>

\* undoRecord, whose failure is ignored: without its channel it does nothing.
CreateUndo(r) ==
  /\ step[r] = "undo"
  /\ IF channel /\ record[claim[r]] = "processing"
     THEN GiveBack(claim[r]) /\ UNCHANGED dropped
     ELSE /\ dropped' = dropped \cup ClaimsOf({r})
          /\ UNCHANGED <<recordVars, owner>>
  /\ claim' = [claim EXCEPT ![r] = 0]
  /\ Goes(r, "idle")
  /\ UNCHANGED <<channel, purging, run, edits, crashes, touched>>

-----------------------------------------------------------------------------
(* The run, and settleChannelRecord                                        *)

\* transitionRun(queued -> running), which settles nothing.
RunBegins(r) ==
  /\ run[r] = "queued"
  /\ run' = [run EXCEPT ![r] = "running"]
  /\ UNCHANGED <<channel, purging, recordVars, claim, step, edits, crashes,
                 history>>

\* finishRun, or transitionRun to cancelled: one writer wins and settles.
RunEnds(r) ==
  /\ run[r] \in InFlight
  /\ \E o \in Outcomes : /\ run[r] = "queued" => o # "succeeded"
                         /\ run' = [run EXCEPT ![r] = o]
  /\ Goes(r, "settle")
  /\ UNCHANGED <<channel, purging, recordVars, claim, edits, crashes,
                 history>>

\* Faulty variant: a cancelled run counts as a failed one.
CancelledFails(status) == IF status = "succeeded" THEN "done" ELSE "failed"

\* outcomeFor
OutcomeFor(status) == CASE status = "succeeded" -> "done"
                        [] status = "failed" -> "failed"
                        [] status = "cancelled" -> "pending"

\* Faulty variant: a run that did not process its record settles nothing.
SettleFinished(r) ==
  /\ step[r] = "settle"
  /\ Goes(r, IF run[r] \in {"succeeded", "failed"} THEN OutcomeFor(run[r])
                                                 ELSE "idle")
  /\ UNCHANGED <<channel, purging, recordVars, run, claim, edits, crashes,
                 history>>

\* The run is read; deleted meanwhile, its claim is forgotten.
SettleRead(r) ==
  /\ step[r] = "settle"
  /\ IF run[r] = "deleted"
     THEN Goes(r, "idle") /\ dropped' = dropped \cup ClaimsOf({r})
     ELSE Goes(r, OutcomeFor(run[r])) /\ UNCHANGED dropped
  /\ UNCHANGED <<channel, purging, recordVars, run, claim, edits, crashes,
                 owner, touched>>

SettleApply(r) ==
  /\ step[r] \in Applying
  /\ Settle(claim[r], r, step[r])
  /\ Goes(r, "idle")
  /\ UNCHANGED <<channel, purging, run, claim, edits, crashes, touched,
                 dropped>>

DeleteRun(r) ==
  /\ run[r] \in Outcomes
  /\ run' = [run EXCEPT ![r] = "deleted"]
  /\ UNCHANGED <<channel, purging, recordVars, claim, step, edits, crashes,
                 history>>

-----------------------------------------------------------------------------
(* Workers and operators                                                   *)

\* addRecords takes the ids, having found the channel, ...
AddBegin(x) ==
  /\ channel /\ record[x] = "none" /\ \A y \in 1..(x - 1) : record[y] # "none"
  /\ record' = [record EXCEPT ![x] = "coming"]
  /\ UNCHANGED <<channel, purging, result, runVars, edits,
                 crashes, history>>

\* ... and inserts them, whether or not the channel still exists.
AddInsert(x) ==
  /\ record[x] = "coming"
  /\ record' = [record EXCEPT ![x] = "pending"]
  /\ UNCHANGED <<channel, purging, result, runVars, edits,
                 crashes, history>>

\* GET /db/{channel}/get
WorkerClaims(x) ==
  /\ channel /\ Oldest(x)
  /\ ClaimFor(x, "worker")
  /\ UNCHANGED <<channel, purging, runVars, edits, crashes, touched,
                 dropped>>

\* setRecord and updateRecord: any status, whatever the record is by then.
EditRecord(x) ==
  /\ channel /\ record[x] \in Statuses
  /\ edits < MaxEdits /\ edits' = edits + 1
  /\ \E to \in Statuses : record' = [record EXCEPT ![x] = to]
  /\ owner' = [owner EXCEPT ![x] = None]
  /\ touched' = touched \cup {x}
  /\ UNCHANGED <<channel, purging, result, runVars, crashes, dropped>>

\* undoRecord by a worker, or reset_processing by an operator.
UndoByHand(x) ==
  /\ channel /\ record[x] = "processing"
  /\ edits < MaxEdits /\ edits' = edits + 1
  /\ GiveBack(x)
  /\ touched' = touched \cup {x}
  /\ UNCHANGED <<channel, purging, runVars, crashes, dropped>>

\* deleteRecord, delete_by_status, clear
RemoveRecord(x) ==
  /\ channel /\ record[x] \in Statuses
  /\ edits < MaxEdits /\ edits' = edits + 1
  /\ record' = [record EXCEPT ![x] = "deleted"]
  /\ owner' = [owner EXCEPT ![x] = None]
  /\ UNCHANGED <<channel, purging, result, runVars, crashes, touched, dropped>>

\* deleteChannel: the channel first, then its records.
DeleteChannel ==
  /\ channel /\ ~purging
  /\ channel' = FALSE /\ purging' = TRUE
  /\ UNCHANGED <<recordVars, runVars, edits, crashes, history>>

Purge ==
  /\ purging /\ purging' = FALSE
  /\ record' = [x \in Ids |-> IF record[x] \in Statuses THEN "deleted"
                                                       ELSE record[x]]
  /\ owner' = [x \in Ids |-> None]
  /\ UNCHANGED <<channel, result, runVars, edits, crashes,
                 touched, dropped>>

CreateChannel ==
  /\ ~channel /\ channel' = TRUE
  /\ UNCHANGED <<purging, recordVars, runVars, edits, crashes, history>>

-----------------------------------------------------------------------------
\* Requests vanish. A run in flight is resumed after the boot and ends, but
\* nothing settles a run that already has: its claim is dropped.
Crash ==
  /\ crashes < MaxCrashes /\ crashes' = crashes + 1
  /\ purging' = FALSE
  /\ record' = [x \in Ids |-> IF record[x] = "coming" THEN "deleted"
                                                    ELSE record[x]]
  /\ step' = [r \in Runs |-> "idle"]
  /\ claim' = [r \in Runs |-> IF step[r] \in {"insert", "undo"} THEN 0
                                                             ELSE claim[r]]
  /\ dropped' = dropped \cup ClaimsOf({r \in Runs : step[r] \in Holding})
  /\ UNCHANGED <<channel, result, run, edits, owner, touched>>

Create(r) == CreateClaim(r) \/ CreateEmpty(r) \/ CreateInsert(r)
               \/ CreateRefused(r) \/ CreateUndo(r)

SettleRun(r) == SettleRead(r) \/ SettleApply(r)

Next ==
  \/ \E r \in Runs : \/ CreateCheck(r) \/ Create(r) \/ RunBegins(r) \/ RunEnds(r)
                     \/ SettleRun(r) \/ DeleteRun(r)
  \/ \E x \in Ids : \/ AddBegin(x) \/ AddInsert(x) \/ WorkerClaims(x)
                    \/ EditRecord(x) \/ UndoByHand(x) \/ RemoveRecord(x)
  \/ DeleteChannel \/ Purge \/ CreateChannel \/ Crash

Spec == Init /\ [][Next]_vars

\* createRun and settling go on while the app lives, and a run ends
\* (RunLifecycle, RunsEnd). Workers and operators may do nothing.
Fairness == \A r \in Runs : /\ WF_vars(Create(r))
                            /\ WF_vars(RunEnds(r))
                            /\ WF_vars(SettleRun(r))

FairSpec == Spec /\ Fairness

-----------------------------------------------------------------------------
(* Safety                                                                  *)

\* The run stands for its record: it may work on it, or is about to.
Working(r) == run[r] \in InFlight \/ step[r] \in Holding

\* "Every run of such a task consumes exactly one record" and no two share
\* one, unless the record was taken from its run by hand.
OneRunPerRecord ==
  \A r, o \in Runs : /\ Working(r) /\ Working(o) /\ r # o
                     /\ claim[r] = claim[o]
                     => claim[r] \in touched

\* A record in processing has somebody who will bring it out again: the worker
\* that got it, the run that carries it, or whoever set it by hand. The
\* exception is a claim that a crash, or a deleted run or channel, dropped.
ProcessingHasOwner ==
  \A x \in Ids : record[x] = "processing" /\ x \notin touched \cup dropped =>
    \/ owner[x] = "worker"
    \/ \E r \in Runs : owner[x] = r /\ claim[r] = x /\ Working(r)

\* What a record says happened to it is what happened to the run that carried
\* it, unless it was changed by hand.
RecordTellsOutcome ==
  \A x \in Ids : record[x] \in {"done", "failed"} /\ x \notin touched =>
    \E r \in Runs :
      /\ result[x] = r /\ claim[r] = x
      /\ run[r] \in {"deleted", IF record[x] = "done" THEN "succeeded"
                                                     ELSE "failed"}

-----------------------------------------------------------------------------
(* Action properties                                                       *)

DoneStep ==
  \A x \in Ids : record[x] \in {"done", "failed"} =>
                    record'[x] \in {record[x], "deleted"} \/ x \in touched'

\* A finished record is never handed out again by itself: no work is done
\* twice, whatever crashes and settles late.
DoneStaysDone == [][DoneStep]_vars

OwnClaimStep ==
  \A r \in Runs :
    /\ step[r] \in Applying /\ step'[r] = "idle" /\ crashes' = crashes
    /\ record'[claim[r]] # record[claim[r]]
    => owner[claim[r]] = r

\* "Only a record still `processing` is touched, so a change an operator made
\* by hand wins": a run settles its own claim, and not one that another run
\* or a worker was given after the record was reset.
SettlesOwnClaim == [][OwnClaimStep]_vars

-----------------------------------------------------------------------------
(* Liveness                                                                *)

\* A record that was claimed for a run comes out of the run's hands again.
ClaimsEnd ==
  \A x \in Ids, r \in Runs :
    owner[x] = r ~> owner[x] # r \/ x \in dropped

=============================================================================
