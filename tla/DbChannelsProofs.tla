--------------------------- MODULE DbChannelsProofs ---------------------------
(***************************************************************************)
(* Theorems about DbChannels for any set of runs and any number of         *)
(* records, edits and crashes: a record has one run at a time, an owner    *)
(* while it is processing, and ends as its run did.                        *)
(***************************************************************************)
EXTENDS DbChannels, TLAPS

\* Where createRun and settleChannelRecord stand, the run has the status it
\* should have.
StepsMatchRun ==
  \A r \in Runs :
    /\ step[r] \in {"claim", "insert", "undo"} => run[r] = "none"
    /\ step[r] \in {"settle"} \cup Applying
         => run[r] \in Outcomes \cup {"deleted"}
    /\ step[r] \in Applying /\ run[r] # "deleted"
         => step[r] = OutcomeFor(run[r])

\* A claim in force is on a processing record, and its run carries it and has
\* not let go of it.
OwnersHold ==
  \A x \in Ids :
    /\ owner[x] # None => record[x] = "processing"
    /\ owner[x] \in Runs /\ x \notin dropped
         => claim[owner[x]] = x /\ Working(owner[x])
    /\ record[x] = "processing" /\ x \notin touched => owner[x] # None

\* A run that works has a record: it owns it, or somebody removed it or
\* changed it by hand.
WorkersOwn ==
  \A r \in Runs : Working(r) =>
    /\ claim[r] \in Ids
    /\ \/ claim[r] \in touched
       \/ owner[claim[r]] = r
       \/ record[claim[r]] = "deleted"

IInv == /\ TypeOK /\ StepsMatchRun /\ OwnersHold /\ WorkersOwn
        /\ OneRunPerRecord /\ RecordTellsOutcome

-----------------------------------------------------------------------------
(* Preservation, one part of IInv at a time.                               *)

\* Values keep their types; an outcome read from a run is a step.
LEMMA TypeStep ==
  ASSUME IInv, [Next]_vars
  PROVE  TypeOK'
<1> USE ChannelAssumption
        DEF recordVars, runVars, history, Goes, InFlight, Outcomes,
            Applying, Holding, IInv, TypeOK, Statuses, ClaimsOf,
            StepsMatchRun
<1>1. ASSUME NEW r \in Runs,
              \/ CreateCheck(r) \/ Create(r) \/ RunBegins(r) \/ RunEnds(r)
              \/ SettleRun(r) \/ DeleteRun(r)
      PROVE  TypeOK'
  <2>1. CASE CreateCheck(r)
    BY <2>1 DEF CreateCheck
  <2>2. CASE CreateClaim(r)
    BY <2>2 DEF CreateClaim, Oldest, Claimable, ClaimFor
  <2>3. CASE CreateEmpty(r)
    BY <2>3 DEF CreateEmpty
  <2>4. CASE CreateInsert(r)
    BY <2>4 DEF CreateInsert
  <2>5. CASE CreateRefused(r)
    BY <2>5 DEF CreateRefused, Refuse
  <2>6. CASE CreateUndo(r)
    BY <2>6 DEF CreateUndo, GiveBack
  <2>7. CASE RunBegins(r)
    BY <2>7 DEF RunBegins
  <2>8. CASE RunEnds(r)
    BY <2>8 DEF RunEnds
  <2>9. CASE SettleRead(r)
    BY <2>9 DEF SettleRead, OutcomeFor
  <2>10. CASE SettleApply(r)
    BY <2>10 DEF SettleApply, Settle, GiveBack
  <2>11. CASE DeleteRun(r)
    BY <2>11 DEF DeleteRun
  <2> QED BY <1>1, <2>1, <2>2, <2>3, <2>4, <2>5, <2>6, <2>7, <2>8, <2>9,
             <2>10, <2>11 DEF Create, SettleRun
<1>2. ASSUME NEW x \in Ids,
              \/ AddBegin(x) \/ AddInsert(x) \/ WorkerClaims(x)
              \/ EditRecord(x) \/ UndoByHand(x) \/ RemoveRecord(x)
      PROVE  TypeOK'
  <2>1. CASE AddBegin(x)
    BY <2>1 DEF AddBegin
  <2>2. CASE AddInsert(x)
    BY <2>2 DEF AddInsert
  <2>3. CASE WorkerClaims(x)
    BY <2>3 DEF WorkerClaims, Oldest, Claimable, ClaimFor
  <2>4. CASE EditRecord(x)
    BY <2>4 DEF EditRecord
  <2>5. CASE UndoByHand(x)
    BY <2>5 DEF UndoByHand, GiveBack
  <2>6. CASE RemoveRecord(x)
    BY <2>6 DEF RemoveRecord
  <2> QED BY <1>2, <2>1, <2>2, <2>3, <2>4, <2>5, <2>6
<1>3. CASE DeleteChannel
  BY <1>3 DEF DeleteChannel
<1>4. CASE Purge
  BY <1>4 DEF Purge
<1>5. CASE CreateChannel
  BY <1>5 DEF CreateChannel
<1>6. CASE Crash
  <2>1. crashes' \in 0..MaxCrashes
    BY <1>6 DEF Crash
  <2>2. claim' \in [Runs -> {0} \cup Ids]
    BY <1>6 DEF Crash
  <2> QED BY <1>6, <2>1, <2>2 DEF Crash
<1>7. CASE UNCHANGED vars
  BY <1>7 DEF vars
<1> QED BY <1>1, <1>2, <1>3, <1>4, <1>5, <1>6, <1>7 DEF Next

\* createRun, the run's own life and settling follow each other.
LEMMA StepsStep ==
  ASSUME IInv, [Next]_vars
  PROVE  StepsMatchRun'
<1> USE ChannelAssumption
        DEF recordVars, runVars, history, Goes, InFlight, Outcomes,
            Applying, Holding, IInv, TypeOK, StepsMatchRun
<1>1. ASSUME NEW r \in Runs,
              \/ CreateCheck(r) \/ Create(r) \/ RunBegins(r) \/ RunEnds(r)
              \/ SettleRun(r) \/ DeleteRun(r)
      PROVE  StepsMatchRun'
  <2>1. CASE CreateCheck(r)
    BY <2>1 DEF CreateCheck
  <2>2. CASE CreateClaim(r)
    BY <2>2 DEF CreateClaim, Oldest, Claimable, ClaimFor
  <2>3. CASE CreateEmpty(r)
    BY <2>3 DEF CreateEmpty
  <2>4. CASE CreateInsert(r)
    BY <2>4 DEF CreateInsert
  <2>5. CASE CreateRefused(r)
    BY <2>5 DEF CreateRefused, Refuse
  <2>6. CASE CreateUndo(r)
    BY <2>6 DEF CreateUndo, GiveBack
  <2>7. CASE RunBegins(r)
    BY <2>7 DEF RunBegins
  <2>8. CASE RunEnds(r)
    BY <2>8 DEF RunEnds
  <2>9. CASE SettleRead(r)
    BY <2>9 DEF SettleRead, OutcomeFor
  <2>10. CASE SettleApply(r)
    BY <2>10 DEF SettleApply, Settle, GiveBack
  <2>11. CASE DeleteRun(r)
    BY <2>11 DEF DeleteRun
  <2> QED BY <1>1, <2>1, <2>2, <2>3, <2>4, <2>5, <2>6, <2>7, <2>8, <2>9,
             <2>10, <2>11 DEF Create, SettleRun
<1>2. ASSUME NEW x \in Ids,
              \/ AddBegin(x) \/ AddInsert(x) \/ WorkerClaims(x)
              \/ EditRecord(x) \/ UndoByHand(x) \/ RemoveRecord(x)
      PROVE  StepsMatchRun'
  <2>1. CASE AddBegin(x)
    BY <2>1 DEF AddBegin
  <2>2. CASE AddInsert(x)
    BY <2>2 DEF AddInsert
  <2>3. CASE WorkerClaims(x)
    BY <2>3 DEF WorkerClaims, Oldest, Claimable, ClaimFor
  <2>4. CASE EditRecord(x)
    BY <2>4 DEF EditRecord
  <2>5. CASE UndoByHand(x)
    BY <2>5 DEF UndoByHand, GiveBack
  <2>6. CASE RemoveRecord(x)
    BY <2>6 DEF RemoveRecord
  <2> QED BY <1>2, <2>1, <2>2, <2>3, <2>4, <2>5, <2>6
<1>3. CASE DeleteChannel
  BY <1>3 DEF DeleteChannel
<1>4. CASE Purge
  BY <1>4 DEF Purge
<1>5. CASE CreateChannel
  BY <1>5 DEF CreateChannel
<1>6. CASE Crash
  BY <1>6 DEF Crash
<1>7. CASE UNCHANGED vars
  BY <1>7 DEF vars
<1> QED BY <1>1, <1>2, <1>3, <1>4, <1>5, <1>6, <1>7 DEF Next

\* A claim is in force from the claim to the settling, or is dropped.
LEMMA OwnersStep ==
  ASSUME IInv, [Next]_vars
  PROVE  OwnersHold'
<1> USE ChannelAssumption
        DEF recordVars, runVars, history, Goes, InFlight, Outcomes,
            Applying, Holding, IInv, TypeOK, OwnersHold, StepsMatchRun,
            WorkersOwn, Working, Statuses, ClaimsOf
<1>1. ASSUME NEW r \in Runs,
              \/ CreateCheck(r) \/ Create(r) \/ RunBegins(r) \/ RunEnds(r)
              \/ SettleRun(r) \/ DeleteRun(r)
      PROVE  OwnersHold'
  <2>1. CASE CreateCheck(r)
    BY <2>1 DEF CreateCheck
  <2>2. CASE CreateClaim(r)
    BY <2>2 DEF CreateClaim, Oldest, Claimable, ClaimFor
  <2>3. CASE CreateEmpty(r)
    BY <2>3 DEF CreateEmpty
  <2>4. CASE CreateInsert(r)
    BY <2>4 DEF CreateInsert
  <2>5. CASE CreateRefused(r)
    BY <2>5 DEF CreateRefused, Refuse
  <2>6. CASE CreateUndo(r)
    BY <2>6 DEF CreateUndo, GiveBack
  <2>7. CASE RunBegins(r)
    BY <2>7 DEF RunBegins
  <2>8. CASE RunEnds(r)
    BY <2>8 DEF RunEnds
  <2>9. CASE SettleRead(r)
    BY <2>9 DEF SettleRead, OutcomeFor
  <2>10. CASE SettleApply(r)
    BY <2>10 DEF SettleApply, Settle, GiveBack
  <2>11. CASE DeleteRun(r)
    BY <2>11 DEF DeleteRun
  <2> QED BY <1>1, <2>1, <2>2, <2>3, <2>4, <2>5, <2>6, <2>7, <2>8, <2>9,
             <2>10, <2>11 DEF Create, SettleRun
<1>2. ASSUME NEW x \in Ids,
              \/ AddBegin(x) \/ AddInsert(x) \/ WorkerClaims(x)
              \/ EditRecord(x) \/ UndoByHand(x) \/ RemoveRecord(x)
      PROVE  OwnersHold'
  <2>1. CASE AddBegin(x)
    BY <2>1 DEF AddBegin
  <2>2. CASE AddInsert(x)
    BY <2>2 DEF AddInsert
  <2>3. CASE WorkerClaims(x)
    BY <2>3 DEF WorkerClaims, Oldest, Claimable, ClaimFor
  <2>4. CASE EditRecord(x)
    BY <2>4 DEF EditRecord
  <2>5. CASE UndoByHand(x)
    BY <2>5 DEF UndoByHand, GiveBack
  <2>6. CASE RemoveRecord(x)
    BY <2>6 DEF RemoveRecord
  <2> QED BY <1>2, <2>1, <2>2, <2>3, <2>4, <2>5, <2>6
<1>3. CASE DeleteChannel
  BY <1>3 DEF DeleteChannel
<1>4. CASE Purge
  BY <1>4 DEF Purge
<1>5. CASE CreateChannel
  BY <1>5 DEF CreateChannel
<1>6. CASE Crash
  BY <1>6 DEF Crash
<1>7. CASE UNCHANGED vars
  BY <1>7 DEF vars
<1> QED BY <1>1, <1>2, <1>3, <1>4, <1>5, <1>6, <1>7 DEF Next

\* A working run owns its record: nobody else may claim or settle it.
LEMMA WorkersStep ==
  ASSUME IInv, [Next]_vars
  PROVE  WorkersOwn'
<1> USE ChannelAssumption
        DEF recordVars, runVars, history, Goes, InFlight, Outcomes,
            Applying, Holding, IInv, TypeOK, OwnersHold, StepsMatchRun,
            WorkersOwn, OneRunPerRecord, Working, Statuses
<1>1. ASSUME NEW r \in Runs,
              \/ CreateCheck(r) \/ Create(r) \/ RunBegins(r) \/ RunEnds(r)
              \/ SettleRun(r) \/ DeleteRun(r)
      PROVE  WorkersOwn'
  <2>1. CASE CreateCheck(r)
    BY <2>1 DEF CreateCheck
  <2>2. CASE CreateClaim(r)
    BY <2>2 DEF CreateClaim, Oldest, Claimable, ClaimFor
  <2>3. CASE CreateEmpty(r)
    BY <2>3 DEF CreateEmpty
  <2>4. CASE CreateInsert(r)
    BY <2>4 DEF CreateInsert
  <2>5. CASE CreateRefused(r)
    BY <2>5 DEF CreateRefused, Refuse
  <2>6. CASE CreateUndo(r)
    BY <2>6 DEF CreateUndo, GiveBack
  <2>7. CASE RunBegins(r)
    BY <2>7 DEF RunBegins
  <2>8. CASE RunEnds(r)
    BY <2>8 DEF RunEnds
  <2>9. CASE SettleRead(r)
    BY <2>9 DEF SettleRead, OutcomeFor
  <2>10. CASE SettleApply(r)
    BY <2>10 DEF SettleApply, Settle, GiveBack
  <2>11. CASE DeleteRun(r)
    BY <2>11 DEF DeleteRun
  <2> QED BY <1>1, <2>1, <2>2, <2>3, <2>4, <2>5, <2>6, <2>7, <2>8, <2>9,
             <2>10, <2>11 DEF Create, SettleRun
<1>2. ASSUME NEW x \in Ids,
              \/ AddBegin(x) \/ AddInsert(x) \/ WorkerClaims(x)
              \/ EditRecord(x) \/ UndoByHand(x) \/ RemoveRecord(x)
      PROVE  WorkersOwn'
  <2>1. CASE AddBegin(x)
    BY <2>1 DEF AddBegin
  <2>2. CASE AddInsert(x)
    BY <2>2 DEF AddInsert
  <2>3. CASE WorkerClaims(x)
    BY <2>3 DEF WorkerClaims, Oldest, Claimable, ClaimFor
  <2>4. CASE EditRecord(x)
    BY <2>4 DEF EditRecord
  <2>5. CASE UndoByHand(x)
    BY <2>5 DEF UndoByHand, GiveBack
  <2>6. CASE RemoveRecord(x)
    BY <2>6 DEF RemoveRecord
  <2> QED BY <1>2, <2>1, <2>2, <2>3, <2>4, <2>5, <2>6
<1>3. CASE DeleteChannel
  BY <1>3 DEF DeleteChannel
<1>4. CASE Purge
  BY <1>4 DEF Purge
<1>5. CASE CreateChannel
  BY <1>5 DEF CreateChannel
<1>6. CASE Crash
  BY <1>6 DEF Crash
<1>7. CASE UNCHANGED vars
  BY <1>7 DEF vars
<1> QED BY <1>1, <1>2, <1>3, <1>4, <1>5, <1>6, <1>7 DEF Next

\* No two working runs share an untouched record.
LEMMA OneRunStep ==
  ASSUME IInv, [Next]_vars
  PROVE  OneRunPerRecord'
<1> USE ChannelAssumption
        DEF recordVars, runVars, history, Goes, InFlight, Outcomes,
            Applying, Holding, IInv, TypeOK, OwnersHold, StepsMatchRun,
            WorkersOwn, OneRunPerRecord, Working
<1>1. ASSUME NEW r \in Runs,
              \/ CreateCheck(r) \/ Create(r) \/ RunBegins(r) \/ RunEnds(r)
              \/ SettleRun(r) \/ DeleteRun(r)
      PROVE  OneRunPerRecord'
  <2>1. CASE CreateCheck(r)
    BY <2>1 DEF CreateCheck
  <2>2. CASE CreateClaim(r)
    BY <2>2 DEF CreateClaim, Oldest, Claimable, ClaimFor
  <2>3. CASE CreateEmpty(r)
    BY <2>3 DEF CreateEmpty
  <2>4. CASE CreateInsert(r)
    BY <2>4 DEF CreateInsert
  <2>5. CASE CreateRefused(r)
    BY <2>5 DEF CreateRefused, Refuse
  <2>6. CASE CreateUndo(r)
    BY <2>6 DEF CreateUndo, GiveBack
  <2>7. CASE RunBegins(r)
    BY <2>7 DEF RunBegins
  <2>8. CASE RunEnds(r)
    <3>1. \A q \in Runs : Working(q)' => Working(q)
      BY <2>8 DEF RunEnds
    <3>2. UNCHANGED <<claim, touched>>
      BY <2>8 DEF RunEnds
    <3> QED BY <3>1, <3>2
  <2>9. CASE SettleRead(r)
    BY <2>9 DEF SettleRead, OutcomeFor
  <2>10. CASE SettleApply(r)
    BY <2>10 DEF SettleApply, Settle, GiveBack
  <2>11. CASE DeleteRun(r)
    BY <2>11 DEF DeleteRun
  <2> QED BY <1>1, <2>1, <2>2, <2>3, <2>4, <2>5, <2>6, <2>7, <2>8, <2>9,
             <2>10, <2>11 DEF Create, SettleRun
<1>2. ASSUME NEW x \in Ids,
              \/ AddBegin(x) \/ AddInsert(x) \/ WorkerClaims(x)
              \/ EditRecord(x) \/ UndoByHand(x) \/ RemoveRecord(x)
      PROVE  OneRunPerRecord'
  <2>1. CASE AddBegin(x)
    BY <2>1 DEF AddBegin
  <2>2. CASE AddInsert(x)
    BY <2>2 DEF AddInsert
  <2>3. CASE WorkerClaims(x)
    BY <2>3 DEF WorkerClaims, Oldest, Claimable, ClaimFor
  <2>4. CASE EditRecord(x)
    BY <2>4 DEF EditRecord
  <2>5. CASE UndoByHand(x)
    BY <2>5 DEF UndoByHand, GiveBack
  <2>6. CASE RemoveRecord(x)
    BY <2>6 DEF RemoveRecord
  <2> QED BY <1>2, <2>1, <2>2, <2>3, <2>4, <2>5, <2>6
<1>3. CASE DeleteChannel
  BY <1>3 DEF DeleteChannel
<1>4. CASE Purge
  BY <1>4 DEF Purge
<1>5. CASE CreateChannel
  BY <1>5 DEF CreateChannel
<1>6. CASE Crash
  BY <1>6 DEF Crash
<1>7. CASE UNCHANGED vars
  BY <1>7 DEF vars
<1> QED BY <1>1, <1>2, <1>3, <1>4, <1>5, <1>6, <1>7 DEF Next

\* Records end as their runs did.
LEMMA OutcomeStep ==
  ASSUME IInv, [Next]_vars
  PROVE  RecordTellsOutcome'
<1> USE ChannelAssumption
        DEF recordVars, runVars, history, Goes, InFlight, Outcomes,
            Applying, Holding, IInv, TypeOK, StepsMatchRun,
            RecordTellsOutcome, OutcomeFor, WorkersOwn, Working, Statuses
<1>1. ASSUME NEW r \in Runs,
              \/ CreateCheck(r) \/ Create(r) \/ RunBegins(r) \/ RunEnds(r)
              \/ SettleRun(r) \/ DeleteRun(r)
      PROVE  RecordTellsOutcome'
  <2>1. CASE CreateCheck(r)
    BY <2>1 DEF CreateCheck
  <2>2. CASE CreateClaim(r)
    BY <2>2 DEF CreateClaim, Oldest, Claimable, ClaimFor
  <2>3. CASE CreateEmpty(r)
    BY <2>3 DEF CreateEmpty
  <2>4. CASE CreateInsert(r)
    BY <2>4 DEF CreateInsert
  <2>5. CASE CreateRefused(r)
    BY <2>5 DEF CreateRefused, Refuse
  <2>6. CASE CreateUndo(r)
    BY <2>6 DEF CreateUndo, GiveBack
  <2>7. CASE RunBegins(r)
    BY <2>7 DEF RunBegins
  <2>8. CASE RunEnds(r)
    BY <2>8 DEF RunEnds
  <2>9. CASE SettleRead(r)
    BY <2>9 DEF SettleRead, OutcomeFor
  <2>10. CASE SettleApply(r)
    BY <2>10 DEF SettleApply, Settle, GiveBack
  <2>11. CASE DeleteRun(r)
    BY <2>11 DEF DeleteRun
  <2> QED BY <1>1, <2>1, <2>2, <2>3, <2>4, <2>5, <2>6, <2>7, <2>8, <2>9,
             <2>10, <2>11 DEF Create, SettleRun
<1>2. ASSUME NEW x \in Ids,
              \/ AddBegin(x) \/ AddInsert(x) \/ WorkerClaims(x)
              \/ EditRecord(x) \/ UndoByHand(x) \/ RemoveRecord(x)
      PROVE  RecordTellsOutcome'
  <2>1. CASE AddBegin(x)
    BY <2>1 DEF AddBegin
  <2>2. CASE AddInsert(x)
    BY <2>2 DEF AddInsert
  <2>3. CASE WorkerClaims(x)
    BY <2>3 DEF WorkerClaims, Oldest, Claimable, ClaimFor
  <2>4. CASE EditRecord(x)
    BY <2>4 DEF EditRecord
  <2>5. CASE UndoByHand(x)
    BY <2>5 DEF UndoByHand, GiveBack
  <2>6. CASE RemoveRecord(x)
    BY <2>6 DEF RemoveRecord
  <2> QED BY <1>2, <2>1, <2>2, <2>3, <2>4, <2>5, <2>6
<1>3. CASE DeleteChannel
  BY <1>3 DEF DeleteChannel
<1>4. CASE Purge
  BY <1>4 DEF Purge
<1>5. CASE CreateChannel
  BY <1>5 DEF CreateChannel
<1>6. CASE Crash
  BY <1>6 DEF Crash
<1>7. CASE UNCHANGED vars
  BY <1>7 DEF vars
<1> QED BY <1>1, <1>2, <1>3, <1>4, <1>5, <1>6, <1>7 DEF Next

-----------------------------------------------------------------------------
(***************************************************************************)
(* The theorems.                                                           *)
(***************************************************************************)

\* Where runs, claims and records stand determines each other.
THEOREM Inductive == Spec => []IInv
<1>1. Init => IInv
  <2> SUFFICES ASSUME Init
               PROVE  IInv
    OBVIOUS
  <2> USE ChannelAssumption DEF Init
  <2>1. TypeOK
    <3>1. 0 \in 0..MaxEdits /\ 0 \in 0..MaxCrashes
      OBVIOUS
    <3> QED BY <3>1 DEF TypeOK, Holding
  <2>2. StepsMatchRun /\ OwnersHold
    BY DEF StepsMatchRun, OwnersHold, Applying
  <2>3. WorkersOwn /\ OneRunPerRecord /\ RecordTellsOutcome
    BY DEF WorkersOwn, OneRunPerRecord, RecordTellsOutcome, Working, InFlight,
           Holding, Applying
  <2> QED BY <2>1, <2>2, <2>3 DEF IInv
<1>2. IInv /\ [Next]_vars => IInv'
  BY TypeStep, StepsStep, OwnersStep, WorkersStep, OneRunStep, OutcomeStep
     DEF IInv
<1> QED BY <1>1, <1>2, PTL DEF Spec

\* Type correctness of channel, records and runs.
THEOREM TypeCorrect == Spec => []TypeOK
<1>1. IInv => TypeOK
  BY DEF IInv
<1> QED BY <1>1, Inductive, PTL

\* Two runs never work on one record that nobody changed by hand
\* (claimNextRecord, createRun's undo, settleRecord).
THEOREM RecordsHaveOneRun == Spec => []OneRunPerRecord
<1>1. IInv => OneRunPerRecord
  BY DEF IInv
<1> QED BY <1>1, Inductive, PTL

\* No refusal, end or settling strands a record in processing (createRun,
\* settleChannelRecord); crashes and deletions do, and are named.
THEOREM OwnersExist == Spec => []ProcessingHasOwner
<1>1. IInv => ProcessingHasOwner
  <2>1. ASSUME IInv, NEW x \in Ids, record[x] = "processing",
               x \notin touched \cup dropped
        PROVE  \/ owner[x] = "worker"
               \/ \E r \in Runs : owner[x] = r /\ claim[r] = x /\ Working(r)
    <3>1. owner[x] \in Runs \cup {"worker"}
      BY <2>1 DEF IInv, TypeOK, OwnersHold
    <3> QED BY <2>1, <3>1 DEF IInv, OwnersHold
  <2> QED BY <2>1 DEF ProcessingHasOwner
<1> QED BY <1>1, Inductive, PTL

\* A record says what the run that settled it did (outcomeFor).
THEOREM OutcomesAreTrue == Spec => []RecordTellsOutcome
<1>1. IInv => RecordTellsOutcome
  BY DEF IInv
<1> QED BY <1>1, Inductive, PTL

\* No step but an edit by hand or a deletion touches a finished record.
LEMMA DoneOneStep ==
  ASSUME IInv, [Next]_vars
  PROVE  DoneStep
<1> USE ChannelAssumption
        DEF recordVars, runVars, history, Goes, InFlight, Outcomes,
            Applying, Holding, IInv, TypeOK, DoneStep, Statuses
<1>1. ASSUME NEW r \in Runs,
              \/ CreateCheck(r) \/ Create(r) \/ RunBegins(r) \/ RunEnds(r)
              \/ SettleRun(r) \/ DeleteRun(r)
      PROVE  DoneStep
  <2>1. CASE CreateCheck(r)
    BY <2>1 DEF CreateCheck
  <2>2. CASE CreateClaim(r)
    BY <2>2 DEF CreateClaim, Oldest, Claimable, ClaimFor
  <2>3. CASE CreateEmpty(r)
    BY <2>3 DEF CreateEmpty
  <2>4. CASE CreateInsert(r)
    BY <2>4 DEF CreateInsert
  <2>5. CASE CreateRefused(r)
    BY <2>5 DEF CreateRefused, Refuse
  <2>6. CASE CreateUndo(r)
    BY <2>6 DEF CreateUndo, GiveBack
  <2>7. CASE RunBegins(r)
    BY <2>7 DEF RunBegins
  <2>8. CASE RunEnds(r)
    BY <2>8 DEF RunEnds
  <2>9. CASE SettleRead(r)
    BY <2>9 DEF SettleRead, OutcomeFor
  <2>10. CASE SettleApply(r)
    BY <2>10 DEF SettleApply, Settle, GiveBack
  <2>11. CASE DeleteRun(r)
    BY <2>11 DEF DeleteRun
  <2> QED BY <1>1, <2>1, <2>2, <2>3, <2>4, <2>5, <2>6, <2>7, <2>8, <2>9,
             <2>10, <2>11 DEF Create, SettleRun
<1>2. ASSUME NEW x \in Ids,
              \/ AddBegin(x) \/ AddInsert(x) \/ WorkerClaims(x)
              \/ EditRecord(x) \/ UndoByHand(x) \/ RemoveRecord(x)
      PROVE  DoneStep
  <2>1. CASE AddBegin(x)
    BY <2>1 DEF AddBegin
  <2>2. CASE AddInsert(x)
    BY <2>2 DEF AddInsert
  <2>3. CASE WorkerClaims(x)
    BY <2>3 DEF WorkerClaims, Oldest, Claimable, ClaimFor
  <2>4. CASE EditRecord(x)
    BY <2>4 DEF EditRecord
  <2>5. CASE UndoByHand(x)
    BY <2>5 DEF UndoByHand, GiveBack
  <2>6. CASE RemoveRecord(x)
    BY <2>6 DEF RemoveRecord
  <2> QED BY <1>2, <2>1, <2>2, <2>3, <2>4, <2>5, <2>6
<1>3. CASE DeleteChannel
  BY <1>3 DEF DeleteChannel
<1>4. CASE Purge
  BY <1>4 DEF Purge
<1>5. CASE CreateChannel
  BY <1>5 DEF CreateChannel
<1>6. CASE Crash
  BY <1>6 DEF Crash
<1>7. CASE UNCHANGED vars
  BY <1>7 DEF vars
<1> QED BY <1>1, <1>2, <1>3, <1>4, <1>5, <1>6, <1>7 DEF Next

\* Finished work is never handed out again by itself.
THEOREM DoneIsDone == Spec => DoneStaysDone
<1>1. IInv /\ [Next]_vars => [DoneStep]_vars
  BY DoneOneStep
<1> QED BY <1>1, Inductive, PTL DEF Spec, DoneStaysDone

=============================================================================
