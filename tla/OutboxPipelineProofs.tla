------------------------ MODULE OutboxPipelineProofs ------------------------
(***************************************************************************)
(* Theorems about the outbox pipeline for every set of messages and        *)
(* workers, every LIMIT and every number of crashes: what holds for any    *)
(* number of workers, and then what one worker delivers.                   *)
(***************************************************************************)
EXTENDS OutboxPipeline, SumLemmas, TLAPS

\* Closing a session keeps the types of its variables.
LEMMA CloseType ==
    ASSUME TypeOK, NEW w \in Workers, Close(w)
    PROVE  /\ pc' \in [Workers -> PCs]
           /\ batch' \in [Workers -> SUBSET Messages]
           /\ client' \in [Workers -> BOOLEAN]
           /\ outcome' \in [Workers -> [Messages -> Outcomes]]
           /\ stamp' \in [Workers -> [Messages -> Nat]]
           /\ inserting' \in [Workers -> BOOLEAN]
           /\ copy' \in [Workers -> Checkpoints]
           /\ rows' \in [Workers -> SUBSET Messages]
<1>1. /\ [m \in Messages |-> "untouched"] \in [Messages -> Outcomes]
      /\ [m \in Messages |-> 0] \in [Messages -> Nat]
      /\ NoCheckpoint \in Checkpoints
      /\ "idle" \in PCs
  BY DEF Outcomes, NoCheckpoint, Checkpoints, PCs
<1>. QED  BY <1>1 DEF TypeOK, Close

\* The initial state and every step keep the types.
LEMMA InitType == Init => TypeOK
  BY ConstantsAssumption
     DEF ConstantsAssumption, Init, TypeOK, Statuses, Errors, Outcomes, PCs, Checkpoints, NoCheckpoint

LEMMA NextType == TypeOK /\ [Next]_vars => TypeOK'
<1> SUFFICES ASSUME TypeOK, [Next]_vars PROVE TypeOK'
  OBVIOUS
<1> USE ConstantsAssumption DEF ConstantsAssumption
<1>1. ASSUME NEW m \in Messages, AppendEvent(m) PROVE TypeOK'
  BY <1>1 DEF AppendEvent, TypeOK, Statuses, session
<1>2. ASSUME NEW w \in Workers, RelaySelect(w) PROVE TypeOK'
  BY <1>2 DEF RelaySelect, TypeOK, PCs, tables, Pending
<1>3. ASSUME NEW w \in Workers, NEW m \in Messages, RelayRow(w, m) PROVE TypeOK'
  <2>1. PICK r \in RelayResults(client[w]) :
           /\ outcome' = [outcome EXCEPT ![w][m] = r[1]]
           /\ stream' = [stream EXCEPT ![m] = @ + r[2]]
           /\ \/ UNCHANGED <<stamp, clock>>
              \/ /\ stamp' = [stamp EXCEPT ![w][m] = clock]
                 /\ \E t \in Ticks : clock' = clock + t
    BY <1>3 DEF RelayRow
  <2>2. r[1] \in Outcomes /\ r[2] \in Nat
    BY <2>1 DEF RelayResults, Outcomes
  <2>3. outcome' \in [Workers -> [Messages -> Outcomes]] /\ stream' \in [Messages -> Nat]
    BY <2>1, <2>2 DEF TypeOK
  <2>4. stamp' \in [Workers -> [Messages -> Nat]] /\ clock' \in Nat
    <3>1. CASE UNCHANGED <<stamp, clock>>
      BY <3>1 DEF TypeOK
    <3>2. ASSUME stamp' = [stamp EXCEPT ![w][m] = clock],
                 NEW t \in Ticks, clock' = clock + t
          PROVE  stamp' \in [Workers -> [Messages -> Nat]] /\ clock' \in Nat
      <4>1. clock \in Nat /\ t \in Nat
        BY DEF TypeOK
      <4>2. [stamp[w] EXCEPT ![m] = clock] \in [Messages -> Nat]
        BY <4>1 DEF TypeOK
      <4>. QED  BY <3>2, <4>1, <4>2 DEF TypeOK
    <3>. QED  BY <2>1, <3>1, <3>2
  <2>. QED  BY <1>3, <2>3, <2>4 DEF RelayRow, TypeOK, tables
<1>4. ASSUME NEW w \in Workers, LoadCheckpoint(w) PROVE TypeOK'
  BY <1>4 DEF LoadCheckpoint, TypeOK, PCs, tables
<1>5. ASSUME NEW w \in Workers, InsertCheckpoint(w) PROVE TypeOK'
  <2>1. CASE checkpoint.exists
    BY <1>5, <2>1, CloseType DEF InsertCheckpoint, TypeOK, tables
  <2>2. CASE ~checkpoint.exists
    <3>1. FreshCheckpoint \in Checkpoints /\ "consume" \in PCs
      BY DEF FreshCheckpoint, Checkpoints, PCs
    <3>2. /\ inserting' = [inserting EXCEPT ![w] = TRUE]
          /\ copy' = [copy EXCEPT ![w] = FreshCheckpoint]
          /\ pc' = [pc EXCEPT ![w] = "consume"]
          /\ UNCHANGED <<batch, client, outcome, stamp, rows>>
          /\ UNCHANGED <<tables, stream, clock, aborts>>
      BY <1>5, <2>2 DEF InsertCheckpoint
    <3>. QED  BY <3>1, <3>2 DEF TypeOK, tables
  <2>. QED  BY <2>1, <2>2
<1>6. ASSUME NEW w \in Workers, ConsumeSelect(w) PROVE TypeOK'
  <2>1. PICK R \in SUBSET Unread(w) :
           /\ Cardinality(R) = Lesser(ConsumeBatch, Cardinality(Unread(w)))
           /\ rows' = [rows EXCEPT ![w] = R]
           /\ \/ R = {} /\ UNCHANGED copy
              \/ \E last \in R : copy' = [copy EXCEPT ![w] =
                                   Advance(@, Cardinality(R), SeesAt(w, last), last)]
    BY <1>6 DEF ConsumeSelect
  <2>2. R \subseteq Messages
    BY DEF Unread
  <2>3. copy' \in [Workers -> Checkpoints]
    <3>1. CASE UNCHANGED copy
      BY <3>1 DEF TypeOK
    <3>2. ASSUME NEW last \in R,
                 copy' = [copy EXCEPT ![w] =
                            Advance(@, Cardinality(R), SeesAt(w, last), last)]
          PROVE  copy' \in [Workers -> Checkpoints]
      <4>1. SeesAt(w, last) \in Nat
        BY <2>2 DEF SeesAt, TypeOK
      <4>2. Cardinality(R) \in Nat
        BY <2>2, FS_Subset, FS_CardinalityType
      <4>3. Advance(copy[w], Cardinality(R), SeesAt(w, last), last) \in Checkpoints
        BY <2>2, <4>1, <4>2 DEF Advance, Checkpoints, TypeOK
      <4>. QED  BY <3>2, <4>3 DEF TypeOK
    <3>. QED  BY <2>1, <3>1, <3>2
  <2>. QED  BY <1>6, <2>1, <2>2, <2>3 DEF ConsumeSelect, TypeOK, PCs, tables
<1>7. ASSUME NEW w \in Workers, Commit(w) PROVE TypeOK'
  BY <1>7, CloseType DEF Commit, TypeOK, Statuses, Errors, NewStatus, NewPublishedAt,
     NewLastError, NewAttempts
<1>8. ASSUME NEW w \in Workers, Abort(w) PROVE TypeOK'
  BY <1>8, CloseType DEF Abort, TypeOK, tables
<1>9. CASE UNCHANGED vars
  BY <1>9 DEF vars, tables, session, TypeOK
<1>. QED
  BY <1>1, <1>2, <1>3, <1>4, <1>5, <1>6, <1>7, <1>8, <1>9 DEF Next, WorkerStep

\* Every reachable state is well typed.
THEOREM TypeCorrect == Spec => []TypeOK
  BY InitType, NextType, PTL DEF Spec

-----------------------------------------------------------------------------
(* A published row without a note is in the stream.  The mark a session has  *)
(* not committed yet must already be true of the stream: StreamInv.          *)

SentBeforeMarked ==
    \A w \in Workers, m \in Messages : outcome[w][m] = "published" => stream[m] >= 1

StreamInv == TypeOK /\ SentBeforeMarked /\ PublishedMeansStreamed

\* A step that leaves the stream alone and ends a session keeps the session part.
LEMMA CloseSent ==
    ASSUME TypeOK, SentBeforeMarked, NEW w \in Workers, Close(w), UNCHANGED stream
    PROVE  SentBeforeMarked'
  BY DEF SentBeforeMarked, Close, TypeOK

LEMMA InitStream == Init => StreamInv
<1>1. Init => SentBeforeMarked /\ PublishedMeansStreamed
  BY DEF Init, SentBeforeMarked, PublishedMeansStreamed
<1>. QED  BY <1>1, InitType DEF StreamInv

LEMMA NextStream == StreamInv /\ [Next]_vars => StreamInv'
<1> SUFFICES ASSUME StreamInv, [Next]_vars
             PROVE  SentBeforeMarked' /\ PublishedMeansStreamed'
  BY NextType DEF StreamInv
<1> USE DEF StreamInv
<1>1. ASSUME NEW m \in Messages, AppendEvent(m)
      PROVE  SentBeforeMarked' /\ PublishedMeansStreamed'
  BY <1>1 DEF AppendEvent, SentBeforeMarked, PublishedMeansStreamed, TypeOK, session
<1>2. ASSUME NEW w \in Workers, RelaySelect(w)
      PROVE  SentBeforeMarked' /\ PublishedMeansStreamed'
  BY <1>2 DEF RelaySelect, SentBeforeMarked, PublishedMeansStreamed, tables
<1>3. ASSUME NEW w \in Workers, NEW m \in Messages, RelayRow(w, m)
      PROVE  SentBeforeMarked' /\ PublishedMeansStreamed'
  <2>1. PICK r \in RelayResults(client[w]) :
           /\ outcome' = [outcome EXCEPT ![w][m] = r[1]]
           /\ stream' = [stream EXCEPT ![m] = @ + r[2]]
    BY <1>3 DEF RelayRow
  <2>2. r[2] \in Nat /\ (r[1] = "published" => r[2] = 1)
    BY <2>1 DEF RelayResults
  <2>3. \A n \in Messages : stream'[n] >= stream[n]
    BY <2>1, <2>2 DEF TypeOK
  <2>4. SentBeforeMarked'
    <3> SUFFICES ASSUME NEW v \in Workers, NEW n \in Messages,
                        outcome'[v][n] = "published"
                 PROVE  stream'[n] >= 1
      BY DEF SentBeforeMarked
    <3>1. CASE v = w /\ n = m
      BY <2>1, <2>2, <3>1 DEF TypeOK
    <3>2. CASE ~(v = w /\ n = m)
      <4>1. outcome'[v][n] = outcome[v][n]
        BY <2>1, <3>2 DEF TypeOK
      <4>. QED  BY <2>1, <2>2, <2>3, <4>1 DEF SentBeforeMarked, TypeOK
    <3>. QED  BY <3>1, <3>2
  <2>5. PublishedMeansStreamed'
    BY <1>3, <2>1, <2>2, <2>3 DEF RelayRow, PublishedMeansStreamed, TypeOK, tables
  <2>. QED  BY <2>4, <2>5
<1>4. ASSUME NEW w \in Workers, LoadCheckpoint(w)
      PROVE  SentBeforeMarked' /\ PublishedMeansStreamed'
  BY <1>4 DEF LoadCheckpoint, SentBeforeMarked, PublishedMeansStreamed, tables
<1>5. ASSUME NEW w \in Workers, InsertCheckpoint(w)
      PROVE  SentBeforeMarked' /\ PublishedMeansStreamed'
  <2>1. PublishedMeansStreamed'
    BY <1>5 DEF InsertCheckpoint, PublishedMeansStreamed, tables
  <2>2. CASE UNCHANGED outcome
    BY <1>5, <2>1, <2>2 DEF InsertCheckpoint, SentBeforeMarked
  <2>3. CASE Close(w)
    BY <1>5, <2>1, <2>3, CloseSent DEF InsertCheckpoint
  <2>. QED  BY <1>5, <2>1, <2>2, <2>3 DEF InsertCheckpoint
<1>6. ASSUME NEW w \in Workers, ConsumeSelect(w)
      PROVE  SentBeforeMarked' /\ PublishedMeansStreamed'
  BY <1>6 DEF ConsumeSelect, SentBeforeMarked, PublishedMeansStreamed, tables
<1>7. ASSUME NEW w \in Workers, Commit(w)
      PROVE  SentBeforeMarked' /\ PublishedMeansStreamed'
  <2>1. SentBeforeMarked'
    BY <1>7, CloseSent DEF Commit
  <2>2. PublishedMeansStreamed'
    BY <1>7 DEF Commit, PublishedMeansStreamed, SentBeforeMarked, NewStatus, NewLastError,
       TypeOK, Errors
  <2>. QED  BY <2>1, <2>2
<1>8. ASSUME NEW w \in Workers, Abort(w)
      PROVE  SentBeforeMarked' /\ PublishedMeansStreamed'
  BY <1>8, CloseSent DEF Abort, PublishedMeansStreamed, tables
<1>9. CASE UNCHANGED vars
  BY <1>9 DEF vars, tables, session, SentBeforeMarked, PublishedMeansStreamed
<1>. QED
  BY <1>1, <1>2, <1>3, <1>4, <1>5, <1>6, <1>7, <1>8, <1>9 DEF Next, WorkerStep

\* No interleaving of any number of workers, no crash and no failing XADD lets
\* a committed mark run ahead of the stream (relay_outbox_batch).
THEOREM PublishedIsStreamed == Spec => []PublishedMeansStreamed
<1>1. Init => StreamInv  BY InitStream
<1>2. StreamInv /\ [Next]_vars => StreamInv'  BY NextStream
<1>3. StreamInv => PublishedMeansStreamed  BY DEF StreamInv
<1>. QED  BY <1>1, <1>2, <1>3, PTL DEF Spec
-----------------------------------------------------------------------------
(* Only what was published is projected.  Marks carry a stamp before they    *)
(* are committed, and a worker projects rows that have one: StampInv.        *)

Marks == {"published", "fallback"}

MarksStamped ==
    /\ clock >= 1
    /\ \A m \in Messages : status[m] = "published" => publishedAt[m] # 0
    /\ \A w \in Workers, m \in Messages : outcome[w][m] \in Marks => stamp[w][m] # 0
    /\ \A w \in Workers : HoldsRows(w) => \A m \in batch[w] : outcome[w][m] # "untouched"

\* A worker projects in the step to its commit, and then rows that are stamped.
RowsStamped ==
    \A w \in Workers :
        /\ pc[w] # "commit" => rows[w] = {}
        /\ \A m \in rows[w] :
             publishedAt[m] # 0 \/ (m \in batch[w] /\ outcome[w][m] \in Marks)

StampInv == TypeOK /\ MarksStamped /\ RowsStamped /\ ProjectedWasPublished

LEMMA InitStamp == Init => StampInv
<1>1. Init => MarksStamped /\ RowsStamped /\ ProjectedWasPublished
  BY DEF Init, MarksStamped, RowsStamped, ProjectedWasPublished, HoldsRows, Marks
<1>. QED  BY <1>1, InitType DEF StampInv

\* The end of a session leaves what the others wrote, wait for and project.
LEMMA CloseStamp ==
    ASSUME StampInv, NEW w \in Workers, Close(w), clock' \in Nat, clock' >= clock,
           \A m \in Messages : publishedAt[m] # 0 => publishedAt'[m] # 0,
           \A m \in Messages : status'[m] = "published" => publishedAt'[m] # 0
    PROVE  MarksStamped' /\ RowsStamped'
<1>1. \A v \in Workers :
        /\ v # w => /\ pc'[v] = pc[v] /\ batch'[v] = batch[v] /\ outcome'[v] = outcome[v]
                    /\ stamp'[v] = stamp[v] /\ rows'[v] = rows[v]
        /\ v = w => /\ pc'[v] = "idle" /\ batch'[v] = {} /\ rows'[v] = {}
                    /\ \A m \in Messages : outcome'[v][m] = "untouched"
  BY DEF Close, StampInv, TypeOK
<1>2. clock' >= 1
  BY DEF StampInv, MarksStamped, TypeOK
<1>3. \A v \in Workers, m \in Messages : outcome'[v][m] \in Marks => stamp'[v][m] # 0
  BY <1>1 DEF StampInv, MarksStamped, Marks
<1>4. \A v \in Workers : HoldsRows(v)' => \A m \in batch'[v] : outcome'[v][m] # "untouched"
  BY <1>1 DEF StampInv, MarksStamped, HoldsRows
<1>5. RowsStamped'
  <2>1. \A v \in Workers : rows[v] \subseteq Messages
    BY DEF StampInv, TypeOK
  <2>. QED  BY <1>1, <2>1 DEF StampInv, RowsStamped
<1>. QED  BY <1>2, <1>3, <1>4, <1>5 DEF MarksStamped

LEMMA NextStamp == StampInv /\ [Next]_vars => StampInv'
<1> SUFFICES ASSUME StampInv, [Next]_vars
             PROVE  MarksStamped' /\ RowsStamped' /\ ProjectedWasPublished'
  BY NextType DEF StampInv
<1> USE DEF Marks
<1>1. TypeOK /\ TypeOK' /\ MarksStamped /\ RowsStamped /\ ProjectedWasPublished
  BY NextType DEF StampInv
<1>2. ASSUME NEW m \in Messages, AppendEvent(m)
      PROVE  MarksStamped' /\ RowsStamped' /\ ProjectedWasPublished'
  BY <1>1, <1>2 DEF AppendEvent, session, TypeOK, MarksStamped, RowsStamped,
                    ProjectedWasPublished, HoldsRows
<1>3. ASSUME NEW w \in Workers, RelaySelect(w)
      PROVE  MarksStamped' /\ RowsStamped' /\ ProjectedWasPublished'
  BY <1>1, <1>3 DEF RelaySelect, tables, TypeOK, MarksStamped, RowsStamped,
                    ProjectedWasPublished, HoldsRows
<1>4. ASSUME NEW w \in Workers, NEW m \in Messages, RelayRow(w, m)
      PROVE  MarksStamped' /\ RowsStamped' /\ ProjectedWasPublished'
  <2>1. PICK r \in RelayResults(client[w]) :
           /\ outcome' = [outcome EXCEPT ![w][m] = r[1]]
           /\ r[1] = "failed" => UNCHANGED <<stamp, clock>>
           /\ r[1] # "failed" => /\ stamp' = [stamp EXCEPT ![w][m] = clock]
                                 /\ \E t \in Ticks : clock' = clock + t
    BY <1>4 DEF RelayRow
  <2>2. r[1] \in Marks \cup {"failed"}
    BY <2>1 DEF RelayResults
  <2>3. /\ pc[w] = "relay" /\ m \in batch[w]
        /\ UNCHANGED <<status, publishedAt, processed, pc, batch, rows>>
    BY <1>4 DEF RelayRow, tables
  <2>4. clock' >= clock
    BY <1>1, <2>1, ConstantsAssumption DEF ConstantsAssumption, TypeOK
  <2>5. \A v \in Workers, n \in Messages :
          /\ outcome'[v][n] = IF v = w /\ n = m THEN r[1] ELSE outcome[v][n]
          /\ stamp'[v][n] = IF v = w /\ n = m /\ r[1] # "failed" THEN clock ELSE stamp[v][n]
    BY <1>1, <2>1 DEF TypeOK
  <2>6. MarksStamped'
    <3>1. clock \in Nat /\ clock' \in Nat /\ clock # 0
      BY <1>1 DEF TypeOK, MarksStamped
    <3>2. \A v \in Workers, n \in Messages : outcome'[v][n] \in Marks => stamp'[v][n] # 0
      BY <1>1, <2>2, <2>5, <3>1 DEF MarksStamped
    <3>3. \A v \in Workers : HoldsRows(v)' => v # w
      BY <2>3 DEF HoldsRows
    <3>4. \A v \in Workers : HoldsRows(v)' => \A n \in batch'[v] : outcome'[v][n] # "untouched"
      <4>1. \A v \in Workers : batch[v] \subseteq Messages
        BY <1>1 DEF TypeOK
      <4>2. \A v \in Workers \ {w}, n \in Messages : outcome'[v][n] = outcome[v][n]
        BY <2>5
      <4>3. \A v \in Workers : HoldsRows(v)' => HoldsRows(v) /\ batch'[v] = batch[v]
        BY <2>3 DEF HoldsRows
      <4>. QED  BY <1>1, <3>3, <4>1, <4>2, <4>3 DEF MarksStamped
    <3>. QED  BY <1>1, <2>3, <2>4, <3>1, <3>2, <3>4 DEF MarksStamped
  <2>7. RowsStamped'
    <3>1. rows[w] = {}
      BY <1>1, <2>3 DEF RowsStamped
    <3>2. \A v \in Workers \ {w}, n \in Messages : outcome'[v][n] = outcome[v][n]
      BY <2>5
    <3>3. \A v \in Workers : rows[v] \subseteq Messages
      BY <1>1 DEF TypeOK
    <3>. QED  BY <1>1, <2>3, <3>1, <3>2, <3>3 DEF RowsStamped
  <2>8. ProjectedWasPublished'
    BY <1>1, <2>3 DEF ProjectedWasPublished
  <2>. QED  BY <2>6, <2>7, <2>8
<1>5. ASSUME NEW w \in Workers, LoadCheckpoint(w)
      PROVE  MarksStamped' /\ RowsStamped' /\ ProjectedWasPublished'
  BY <1>1, <1>5 DEF LoadCheckpoint, tables, TypeOK, MarksStamped, RowsStamped,
                    ProjectedWasPublished, HoldsRows
<1>6. ASSUME NEW w \in Workers, InsertCheckpoint(w)
      PROVE  MarksStamped' /\ RowsStamped' /\ ProjectedWasPublished'
  <2>1. ProjectedWasPublished' /\ UNCHANGED <<status, publishedAt, clock>>
    BY <1>1, <1>6 DEF InsertCheckpoint, tables, ProjectedWasPublished
  <2>2. CASE Close(w)
    BY <1>1, <2>1, <2>2, CloseStamp DEF TypeOK, MarksStamped
  <2>3. CASE pc' = [pc EXCEPT ![w] = "consume"] /\ UNCHANGED <<batch, outcome, stamp, rows>>
    BY <1>1, <1>6, <2>1, <2>3 DEF InsertCheckpoint, TypeOK, MarksStamped, RowsStamped, HoldsRows
  <2>. QED  BY <1>6, <2>1, <2>2, <2>3 DEF InsertCheckpoint
<1>7. ASSUME NEW w \in Workers, ConsumeSelect(w)
      PROVE  MarksStamped' /\ RowsStamped' /\ ProjectedWasPublished'
  <2>1. PICK R \in SUBSET Unread(w) : rows' = [rows EXCEPT ![w] = R]
    BY <1>7 DEF ConsumeSelect
  <2>2. /\ pc[w] = "consume" /\ pc' = [pc EXCEPT ![w] = "commit"]
        /\ UNCHANGED <<status, publishedAt, processed, clock, batch, outcome, stamp>>
    BY <1>7 DEF ConsumeSelect, tables
  <2>3. MarksStamped' /\ ProjectedWasPublished'
    BY <1>1, <2>2 DEF MarksStamped, ProjectedWasPublished, HoldsRows, TypeOK
  <2>4. \A n \in R : publishedAt[n] # 0 \/ (n \in batch[w] /\ outcome[w][n] \in Marks)
    BY <1>1, <2>1 DEF Unread, SeesPublished, MarksStamped
  <2>5. RowsStamped'
    BY <1>1, <2>1, <2>2, <2>4 DEF RowsStamped, TypeOK
  <2>. QED  BY <2>3, <2>5
<1>8. ASSUME NEW w \in Workers, Commit(w)
      PROVE  MarksStamped' /\ RowsStamped' /\ ProjectedWasPublished'
  <2>1. \A m \in Messages :
          m \in batch[w] => /\ outcome[w][m] # "untouched"
                            /\ outcome[w][m] # "failed" => stamp[w][m] # 0
    BY <1>1, <1>8 DEF Commit, MarksStamped, HoldsRows, TypeOK, Outcomes
  <2>2. \A m \in Messages :
          publishedAt'[m] = IF m \in batch[w] /\ outcome[w][m] # "failed"
                            THEN stamp[w][m] ELSE publishedAt[m]
    BY <1>8 DEF Commit, NewPublishedAt
  <2>3. \A m \in Messages : publishedAt[m] # 0 => publishedAt'[m] # 0
    BY <2>1, <2>2
  <2>4. \A m \in Messages : status'[m] = "published" => publishedAt'[m] # 0
    BY <1>1, <1>8, <2>1, <2>2 DEF Commit, NewStatus, MarksStamped
  <2>5. Close(w) /\ clock' \in Nat /\ clock' >= clock
    BY <1>1, <1>8 DEF Commit, TypeOK
  <2>6. MarksStamped' /\ RowsStamped'
    BY <2>3, <2>4, <2>5, CloseStamp
  <2>7. \A m \in Messages : m \in rows[w] => publishedAt'[m] # 0
    BY <1>1, <2>1, <2>2, <2>3 DEF RowsStamped
  <2>8. \A m \in Messages : processed'[m] >= 1 => m \in rows[w] \/ processed[m] >= 1
    BY <1>1, <1>8 DEF Commit, TypeOK
  <2>9. ProjectedWasPublished'
    BY <1>1, <2>3, <2>7, <2>8 DEF ProjectedWasPublished
  <2>. QED  BY <2>6, <2>9
<1>9. ASSUME NEW w \in Workers, Abort(w)
      PROVE  MarksStamped' /\ RowsStamped' /\ ProjectedWasPublished'
  <2>1. Close(w) /\ UNCHANGED <<status, publishedAt, processed, clock>>
    BY <1>9 DEF Abort, tables
  <2>2. MarksStamped' /\ RowsStamped'
    BY <1>1, <2>1, CloseStamp DEF TypeOK, MarksStamped
  <2>. QED  BY <1>1, <2>1, <2>2 DEF ProjectedWasPublished
<1>10. CASE UNCHANGED vars
  BY <1>1, <1>10 DEF vars, tables, session, MarksStamped, RowsStamped,
                     ProjectedWasPublished, HoldsRows
<1>. QED
  BY <1>2, <1>3, <1>4, <1>5, <1>6, <1>7, <1>8, <1>9, <1>10 DEF Next, WorkerStep

\* Whatever workers overlap, crash or overwrite each other's marks, only a row that some
\* committed pass stamped is ever projected (consume_published_events).
THEOREM OnlyPublishedIsProjected == Spec => []ProjectedWasPublished
<1>1. StampInv => ProjectedWasPublished  BY DEF StampInv
<1>. QED  BY <1>1, InitStamp, NextStamp, PTL DEF Spec

-----------------------------------------------------------------------------
(* The checkpoint never counts more rows than passes projected.  A session   *)
(* may store a count it computed from an old checkpoint, but the sum of all  *)
(* projections has only grown since: CountInv.                               *)

Total == SumFunctionOnSet(processed, Messages)

CopiesNotAhead ==
    \A w \in Workers :
        /\ pc[w] = "consume" => copy[w].count <= Total
        /\ pc[w] = "commit" => copy[w].count <= Total + Cardinality(rows[w])

CountInv == TypeOK /\ CountNeverAhead /\ CopiesNotAhead

\* Messages are finite, and so are the sum and the size of a batch.
LEMMA CountType ==
    ASSUME TypeOK
    PROVE  /\ IsFiniteSet(Messages) /\ Total \in Nat
           /\ \A R \in SUBSET Messages : IsFiniteSet(R) /\ Cardinality(R) \in Nat
<1>1. IsFiniteSet(Messages)
  BY ConstantsAssumption DEF ConstantsAssumption
<1>2. \A m \in Messages : processed[m] \in Nat
  BY DEF TypeOK
<1>. QED  BY <1>1, <1>2, SumType, FS_Subset, FS_CardinalityType DEF Total

LEMMA InitCount == Init => CountInv
<1> SUFFICES ASSUME Init PROVE CountInv
  OBVIOUS
<1>1. TypeOK
  BY InitType
<1>2. Total \in Nat
  BY <1>1, CountType
<1>3. CountNeverAhead /\ CopiesNotAhead
  BY <1>2 DEF Init, NoCheckpoint, CountNeverAhead, CopiesNotAhead, Total
<1>. QED  BY <1>1, <1>3 DEF CountInv

\* A session that ends takes its copy with it; the sum may have grown.
LEMMA CloseCount ==
    ASSUME CountInv, NEW w \in Workers, Close(w), Total' \in Nat, Total' >= Total
    PROVE  CopiesNotAhead'
<1>1. pc'[w] = "idle"
  BY DEF Close, CountInv, TypeOK
<1>2. \A v \in Workers \ {w} : pc'[v] = pc[v] /\ copy'[v] = copy[v] /\ rows'[v] = rows[v]
  BY DEF Close, CountInv, TypeOK
<1>3. Total \in Nat
  BY CountType DEF CountInv
<1>4. \A v \in Workers : copy[v].count \in Nat /\ Cardinality(rows[v]) \in Nat
  BY CountType DEF CountInv, TypeOK, Checkpoints
<1>. QED  BY <1>1, <1>2, <1>3, <1>4 DEF CountInv, CopiesNotAhead

\* A commit adds the rows it projected to the sum, and nothing else.
LEMMA CommitAdds ==
    ASSUME TypeOK, NEW w \in Workers, Commit(w)
    PROVE  Total' = Total + Cardinality(rows[w])
<1>1. rows[w] \in SUBSET Messages /\ IsFiniteSet(Messages)
  BY CountType DEF TypeOK
<1>2. \A m \in Messages :
        processed[m] \in Nat /\ processed'[m] = IF m \in rows[w] THEN processed[m] + 1 ELSE processed[m]
  BY DEF Commit, TypeOK
<1>. QED  BY <1>1, <1>2, SumIncrement DEF Total

LEMMA NextCount == CountInv /\ [Next]_vars => CountInv'
<1> SUFFICES ASSUME CountInv, [Next]_vars PROVE CountNeverAhead' /\ CopiesNotAhead'
  BY NextType DEF CountInv
<1>1. TypeOK /\ TypeOK' /\ CountNeverAhead /\ CopiesNotAhead
  BY NextType DEF CountInv
<1>2. Total \in Nat /\ Total' \in Nat
  <2>1. IsFiniteSet(Messages) /\ \A m \in Messages : processed'[m] \in Nat
    BY <1>1, CountType DEF TypeOK
  <2>. QED  BY <1>1, <2>1, CountType, SumType DEF Total
<1>3. UNCHANGED processed => Total' = Total
  BY DEF Total
<1>4. ASSUME NEW m \in Messages, AppendEvent(m) PROVE CountNeverAhead' /\ CopiesNotAhead'
  BY <1>1, <1>4 DEF AppendEvent, session, CountNeverAhead, CopiesNotAhead, Total
<1>5. ASSUME NEW w \in Workers, RelaySelect(w) PROVE CountNeverAhead' /\ CopiesNotAhead'
  BY <1>1, <1>5 DEF RelaySelect, tables, TypeOK, CountNeverAhead, CopiesNotAhead, Total
<1>6. ASSUME NEW w \in Workers, NEW m \in Messages, RelayRow(w, m)
      PROVE  CountNeverAhead' /\ CopiesNotAhead'
  BY <1>1, <1>6 DEF RelayRow, tables, CountNeverAhead, CopiesNotAhead, Total
<1>7. ASSUME NEW w \in Workers, LoadCheckpoint(w) PROVE CountNeverAhead' /\ CopiesNotAhead'
  <2>1. /\ UNCHANGED <<checkpoint, processed, rows>>
        /\ copy' = [copy EXCEPT ![w] = checkpoint]
        /\ pc' = [pc EXCEPT ![w] = IF checkpoint.exists THEN "consume" ELSE "insert"]
    BY <1>7 DEF LoadCheckpoint, tables
  <2>2. checkpoint.count <= Total
    BY <1>1 DEF CountNeverAhead, Total
  <2>3. CopiesNotAhead'
    BY <1>1, <1>3, <2>1, <2>2 DEF CopiesNotAhead, TypeOK
  <2>. QED  BY <1>1, <2>1, <2>3 DEF CountNeverAhead
<1>8. ASSUME NEW w \in Workers, InsertCheckpoint(w) PROVE CountNeverAhead' /\ CopiesNotAhead'
  <2>1. UNCHANGED <<checkpoint, processed>>
    BY <1>8 DEF InsertCheckpoint, tables
  <2>2. CASE Close(w)
    BY <1>1, <1>2, <1>3, <2>1, <2>2, CloseCount DEF CountNeverAhead, CountInv
  <2>3. CASE /\ copy' = [copy EXCEPT ![w] = FreshCheckpoint]
             /\ pc' = [pc EXCEPT ![w] = "consume"]
             /\ UNCHANGED rows
    <3>1. FreshCheckpoint.count = 0
      BY DEF FreshCheckpoint
    <3>. QED  BY <1>1, <1>2, <1>3, <2>1, <2>3, <3>1 DEF CountNeverAhead, CopiesNotAhead, TypeOK
  <2>. QED  BY <1>8, <2>2, <2>3 DEF InsertCheckpoint
<1>9. ASSUME NEW w \in Workers, ConsumeSelect(w) PROVE CountNeverAhead' /\ CopiesNotAhead'
  <2>1. PICK R \in SUBSET Unread(w) :
           /\ rows' = [rows EXCEPT ![w] = R]
           /\ \/ R = {} /\ UNCHANGED copy
              \/ \E last \in R : copy' = [copy EXCEPT ![w] =
                                   Advance(@, Cardinality(R), SeesAt(w, last), last)]
    BY <1>9 DEF ConsumeSelect
  <2>2. /\ pc[w] = "consume" /\ pc' = [pc EXCEPT ![w] = "commit"]
        /\ UNCHANGED <<checkpoint, processed>>
    BY <1>9 DEF ConsumeSelect, tables
  <2>3. R \in SUBSET Messages /\ Cardinality(R) \in Nat
    BY <1>1, CountType DEF Unread
  <2>4. copy[w].count \in Nat /\ copy[w].count <= Total
    BY <1>1, <2>2 DEF CopiesNotAhead, TypeOK, Checkpoints
  <2>5. copy'[w].count <= Total + Cardinality(R)
    <3>1. CASE UNCHANGED copy
      BY <1>2, <2>3, <2>4, <3>1
    <3>2. CASE \E last \in R : copy' = [copy EXCEPT ![w] =
                                 Advance(@, Cardinality(R), SeesAt(w, last), last)]
      BY <1>1, <1>2, <2>3, <2>4, <3>2 DEF Advance, TypeOK
    <3>. QED  BY <2>1, <3>1, <3>2
  <2>6. \A v \in Workers \ {w} : pc'[v] = pc[v] /\ copy'[v] = copy[v] /\ rows'[v] = rows[v]
    BY <1>1, <2>1, <2>2 DEF TypeOK
  <2>7. pc'[w] = "commit" /\ rows'[w] = R
    BY <1>1, <2>1, <2>2 DEF TypeOK
  <2>8. CopiesNotAhead'
    BY <1>1, <1>3, <2>2, <2>5, <2>6, <2>7 DEF CopiesNotAhead
  <2>. QED  BY <1>1, <2>2, <2>8 DEF CountNeverAhead
<1>10. ASSUME NEW w \in Workers, Commit(w) PROVE CountNeverAhead' /\ CopiesNotAhead'
  <2>1. Total' = Total + Cardinality(rows[w]) /\ Cardinality(rows[w]) \in Nat
    BY <1>1, <1>10, CommitAdds, CountType DEF TypeOK
  <2>2. CopiesNotAhead'
    BY <1>1, <1>2, <1>10, <2>1, CloseCount DEF Commit, CountInv
  <2>3. checkpoint' = checkpoint \/ checkpoint' = copy[w]
    BY <1>10 DEF Commit
  <2>4. copy[w].count <= Total + Cardinality(rows[w]) /\ copy[w].count \in Nat
    BY <1>1, <1>10 DEF Commit, CopiesNotAhead, TypeOK, Checkpoints
  <2>5. checkpoint.count <= Total /\ checkpoint.count \in Nat
    BY <1>1 DEF CountNeverAhead, Total, TypeOK, Checkpoints
  <2>6. checkpoint'.count <= Total'
    BY <1>2, <2>1, <2>3, <2>4, <2>5
  <2>. QED  BY <2>2, <2>6 DEF CountNeverAhead, Total
<1>11. ASSUME NEW w \in Workers, Abort(w) PROVE CountNeverAhead' /\ CopiesNotAhead'
  BY <1>1, <1>2, <1>3, <1>11, CloseCount DEF Abort, tables, CountInv, CountNeverAhead
<1>12. CASE UNCHANGED vars
  BY <1>1, <1>12 DEF vars, tables, session, CountNeverAhead, CopiesNotAhead, Total
<1>. QED
  BY <1>4, <1>5, <1>6, <1>7, <1>8, <1>9, <1>10, <1>11, <1>12 DEF Next, WorkerStep

\* For any number of workers that overwrite each other's checkpoint, the count of
\* processed events is at most the number of projections (consume_published_events).
THEOREM CountIsNeverAhead == Spec => []CountNeverAhead
<1>1. CountInv => CountNeverAhead  BY DEF CountInv
<1>. QED  BY <1>1, InitCount, NextCount, PTL DEF Spec

-----------------------------------------------------------------------------
(* One worker delivers exactly once.  A pass starts from the stored          *)
(* checkpoint, stamps its rows after everything stored, and moves on by the  *)
(* rows it projects, in the order of the stamps: OnceInv.                    *)

\* One worker, as the event consumer runs unless a second one is started.
OneWorker == \E w : Workers = {w}

\* The stored rows: what is published is stamped in the past and projected once it
\* is not beyond the checkpoint; nothing else is projected.
TablesInOrder ==
    /\ clock >= 1
    /\ checkpoint.at < clock
    /\ ~checkpoint.exists => checkpoint = NoCheckpoint
    /\ \A m \in Messages : status[m] # "published" => processed[m] = 0
    /\ \A m \in Messages : status[m] = "published" =>
         /\ 1 <= publishedAt[m] /\ publishedAt[m] < clock
         /\ processed[m] = IF Beyond(checkpoint, publishedAt[m], m) THEN 0 ELSE 1

\* The relay's half of a pass: it works on pending rows, and what it marks lies
\* beyond the checkpoint.
RelayInOrder ==
    \A w \in Workers :
        /\ pc[w] = "idle" => batch[w] = {}
        /\ batch[w] \subseteq Pending
        /\ \A m \in Messages \ batch[w] : outcome[w][m] = "untouched"
        /\ HoldsRows(w) => \A m \in batch[w] : outcome[w][m] # "untouched"
        /\ \A m \in batch[w] : outcome[w][m] \in Marks =>
             checkpoint.at < stamp[w][m] /\ stamp[w][m] <= clock

SamePosition(c, d) == c.at = d.at /\ c.id = d.id /\ c.count = d.count

\* The consumer's half: it starts from the stored checkpoint, and has moved on by the rows
\* it projects, which are all it sees between the two.
ConsumeInOrder ==
    \A w \in Workers :
        /\ pc[w] = "insert" \/ inserting[w] => ~checkpoint.exists
        /\ pc[w] \in {"consume", "commit"} => copy[w].exists
        /\ pc[w] \in {"consume", "commit"} /\ ~inserting[w] => checkpoint.exists
        /\ pc[w] # "commit" => rows[w] = {}
        /\ pc[w] \in {"consume", "commit"} /\ rows[w] = {} => SamePosition(copy[w], checkpoint)
        /\ \A m \in rows[w] :
             SeesPublished(w, m) /\ Beyond(checkpoint, SeesAt(w, m), m)
        /\ pc[w] = "commit" =>
             /\ copy[w].count = checkpoint.count + Cardinality(rows[w])
             /\ copy[w].at < clock \/ (batch[w] # {} /\ copy[w].at <= clock)
             /\ \A m \in Messages : SeesPublished(w, m) =>
                  (Beyond(copy[w], SeesAt(w, m), m) <=>
                     Beyond(checkpoint, SeesAt(w, m), m) /\ m \notin rows[w])

OnceInv == TypeOK /\ TablesInOrder /\ RelayInOrder /\ ConsumeInOrder

\* (published_at, id) is a strict order of pairs of numbers.
LEMMA PrecedesIsOrder ==
    /\ \A a, b, i, j \in Nat : Precedes(a, i, b, j) => ~Precedes(b, j, a, i)
    /\ \A a, b, c, i, j, k \in Nat :
         Precedes(a, i, b, j) /\ Precedes(b, j, c, k) => Precedes(a, i, c, k)
  BY DEF Precedes

LEMMA InitOnce == Init => OnceInv
<1> SUFFICES ASSUME Init PROVE TablesInOrder /\ RelayInOrder /\ ConsumeInOrder
  BY InitType DEF OnceInv
<1>1. TablesInOrder
  BY DEF Init, TablesInOrder, NoCheckpoint
<1>2. RelayInOrder
  BY DEF Init, RelayInOrder, Pending, HoldsRows
<1>3. ConsumeInOrder
  BY DEF Init, ConsumeInOrder, NoCheckpoint
<1>. QED  BY <1>1, <1>2, <1>3

\* Ids and stamps are numbers.
LEMMA OnceNumbers ==
    ASSUME TypeOK
    PROVE  /\ Messages \subseteq Nat \ {0}
           /\ checkpoint.at \in Nat /\ checkpoint.id \in Nat /\ checkpoint.count \in Nat
           /\ \A w \in Workers :
                /\ copy[w].at \in Nat /\ copy[w].id \in Nat /\ copy[w].count \in Nat
                /\ batch[w] \subseteq Messages /\ rows[w] \subseteq Messages
                /\ \A m \in Messages : SeesAt(w, m) \in Nat
<1>1. Messages \subseteq Nat \ {0}
  BY ConstantsAssumption DEF ConstantsAssumption
<1>2. checkpoint \in Checkpoints /\ \A w \in Workers : copy[w] \in Checkpoints
  BY DEF TypeOK
<1>3. \A w \in Workers, m \in Messages : SeesAt(w, m) \in Nat
  BY DEF SeesAt, TypeOK
<1>4. ASSUME NEW c \in Checkpoints PROVE c.at \in Nat /\ c.id \in Nat /\ c.count \in Nat
  <2>1. c.at \in Nat /\ c.id \in Messages \cup {0} /\ c.count \in Nat
    BY DEF Checkpoints
  <2>2. CASE c.id \in Messages
    BY <1>1, <2>1, <2>2
  <2>3. CASE c.id = 0
    BY <2>1, <2>3
  <2>. QED  BY <2>1, <2>2, <2>3
<1>5. \A w \in Workers : batch[w] \subseteq Messages /\ rows[w] \subseteq Messages
  BY DEF TypeOK
<1>. QED  BY <1>1, <1>2, <1>3, <1>4, <1>5

\* A session that ends without a commit leaves nothing out of order.
LEMMA CloseOnce ==
    ASSUME OnceInv, OneWorker, NEW w \in Workers, Close(w),
           TypeOK', TablesInOrder'
    PROVE  RelayInOrder' /\ ConsumeInOrder'
<1>1. Workers = {w}
  BY DEF OneWorker
<1>2. /\ pc'[w] = "idle" /\ batch'[w] = {} /\ rows'[w] = {} /\ inserting'[w] = FALSE
      /\ \A m \in Messages : outcome'[w][m] = "untouched"
  BY DEF Close, OnceInv, TypeOK
<1>3. RelayInOrder'
  BY <1>1, <1>2 DEF RelayInOrder, HoldsRows
<1>4. ConsumeInOrder'
  BY <1>1, <1>2 DEF ConsumeInOrder
<1>. QED  BY <1>3, <1>4

LEMMA AppendOnce ==
    ASSUME OnceInv, NEW m \in Messages, AppendEvent(m)
    PROVE  TablesInOrder' /\ RelayInOrder' /\ ConsumeInOrder'
<1>1. /\ status[m] = "absent" /\ status' = [status EXCEPT ![m] = "pending"]
      /\ UNCHANGED <<publishedAt, checkpoint, processed, clock, pc, batch, outcome, stamp,
                     inserting, copy, rows>>
  BY DEF AppendEvent, session
<1>2. \A n \in Messages : (status'[n] = "published" <=> status[n] = "published")
                          /\ (status[n] = "pending" => status'[n] = "pending")
  BY <1>1 DEF OnceInv, TypeOK
<1>3. TablesInOrder'
  BY <1>1, <1>2 DEF OnceInv, TablesInOrder, Beyond, Precedes
<1>4. RelayInOrder'
  BY <1>1, <1>2 DEF OnceInv, RelayInOrder, HoldsRows, Pending
<1>5. \A v \in Workers, n \in Messages :
        (SeesPublished(v, n)' <=> SeesPublished(v, n)) /\ SeesAt(v, n)' = SeesAt(v, n)
  BY <1>1, <1>2 DEF SeesPublished, SeesAt
<1>6. ConsumeInOrder'
  <2>1. \A v \in Workers : rows[v] \subseteq Messages
    BY DEF OnceInv, TypeOK
  <2>. QED  BY <1>1, <1>5, <2>1 DEF OnceInv, ConsumeInOrder, SamePosition, Beyond
<1>. QED  BY <1>3, <1>4, <1>6

LEMMA SelectOnce ==
    ASSUME OnceInv, OneWorker, NEW w \in Workers, RelaySelect(w)
    PROVE  TablesInOrder' /\ RelayInOrder' /\ ConsumeInOrder'
<1>1. Workers = {w}
  BY DEF OneWorker
<1>2. PICK B \in SUBSET Pending : batch' = [batch EXCEPT ![w] = B]
  BY DEF RelaySelect
<1>3. /\ pc[w] = "idle" /\ pc' = [pc EXCEPT ![w] = "relay"]
      /\ UNCHANGED <<status, publishedAt, checkpoint, processed, clock, outcome, stamp,
                     inserting, copy, rows>>
  BY DEF RelaySelect, tables
<1>4. pc'[w] = "relay" /\ batch'[w] = B /\ batch[w] = {} /\ rows[w] = {}
  BY <1>2, <1>3 DEF OnceInv, TypeOK, RelayInOrder, ConsumeInOrder
<1>5. \A m \in Messages : outcome[w][m] = "untouched"
  BY <1>4 DEF OnceInv, RelayInOrder
<1>6. TablesInOrder'
  BY <1>3 DEF OnceInv, TablesInOrder, Beyond
<1>7. RelayInOrder'
  BY <1>1, <1>2, <1>3, <1>4, <1>5 DEF RelayInOrder, HoldsRows, Pending, Marks
<1>8. ConsumeInOrder'
  BY <1>1, <1>3, <1>4 DEF OnceInv, ConsumeInOrder
<1>. QED  BY <1>6, <1>7, <1>8

LEMMA RowOnce ==
    ASSUME OnceInv, OneWorker, NEW w \in Workers, NEW m \in Messages, RelayRow(w, m)
    PROVE  TablesInOrder' /\ RelayInOrder' /\ ConsumeInOrder'
<1>1. Workers = {w}
  BY DEF OneWorker
<1>2. PICK r \in RelayResults(client[w]) :
         /\ outcome' = [outcome EXCEPT ![w][m] = r[1]]
         /\ r[1] = "failed" => UNCHANGED <<stamp, clock>>
         /\ r[1] # "failed" => /\ stamp' = [stamp EXCEPT ![w][m] = clock]
                               /\ \E t \in Ticks : clock' = clock + t
  BY DEF RelayRow
<1>3. r[1] \in Marks \cup {"failed"}
  BY <1>2 DEF RelayResults, Marks
<1>4. /\ pc[w] = "relay" /\ m \in batch[w]
      /\ UNCHANGED <<status, publishedAt, checkpoint, processed, pc, batch, inserting, copy, rows>>
  BY DEF RelayRow, tables
<1>5. clock \in Nat /\ clock' \in Nat /\ clock' >= clock
  BY <1>2, ConstantsAssumption DEF ConstantsAssumption, OnceInv, TypeOK
<1>6. \A n \in Messages :
        /\ outcome'[w][n] = IF n = m THEN r[1] ELSE outcome[w][n]
        /\ stamp'[w][n] = IF n = m /\ r[1] # "failed" THEN clock ELSE stamp[w][n]
        /\ stamp[w][n] \in Nat
  BY <1>2 DEF OnceInv, TypeOK
<1>7. checkpoint.at < clock /\ checkpoint.at \in Nat
  BY OnceNumbers DEF OnceInv, TablesInOrder
<1>8. TablesInOrder'
  <2>1. \A n \in Messages : publishedAt[n] \in Nat
    BY DEF OnceInv, TypeOK
  <2>. QED  BY <1>4, <1>5, <1>7, <2>1 DEF OnceInv, TablesInOrder, Beyond
<1>9. RelayInOrder'
  <2>1. batch[w] \subseteq Pending /\ batch[w] \subseteq Messages
    BY DEF OnceInv, RelayInOrder, Pending
  <2>2. \A n \in Messages \ batch[w] : outcome'[w][n] = "untouched"
    BY <1>4, <1>6 DEF OnceInv, RelayInOrder
  <2>3. \A n \in batch[w] : outcome'[w][n] \in Marks =>
          checkpoint.at < stamp'[w][n] /\ stamp'[w][n] <= clock'
    BY <1>3, <1>5, <1>6, <1>7, <2>1 DEF OnceInv, RelayInOrder, Marks
  <2>. QED  BY <1>1, <1>4, <2>1, <2>2, <2>3 DEF RelayInOrder, HoldsRows, Pending
<1>10. ConsumeInOrder'
  BY <1>1, <1>4 DEF OnceInv, ConsumeInOrder
<1>. QED  BY <1>8, <1>9, <1>10

LEMMA LoadOnce ==
    ASSUME OnceInv, OneWorker, NEW w \in Workers, LoadCheckpoint(w)
    PROVE  TablesInOrder' /\ RelayInOrder' /\ ConsumeInOrder'
<1>1. Workers = {w}
  BY DEF OneWorker
<1>2. /\ pc[w] = "relay" /\ \A m \in batch[w] : outcome[w][m] # "untouched"
      /\ copy' = [copy EXCEPT ![w] = checkpoint]
      /\ pc' = [pc EXCEPT ![w] = IF checkpoint.exists THEN "consume" ELSE "insert"]
      /\ UNCHANGED <<status, publishedAt, checkpoint, processed, clock, batch, outcome, stamp,
                     inserting, rows>>
  BY DEF LoadCheckpoint, tables
<1>3. /\ copy'[w] = checkpoint /\ rows[w] = {}
      /\ pc'[w] = IF checkpoint.exists THEN "consume" ELSE "insert"
  BY <1>2 DEF OnceInv, TypeOK, ConsumeInOrder
<1>4. checkpoint.exists \in BOOLEAN
  BY DEF OnceInv, TypeOK, Checkpoints
<1>5. TablesInOrder'
  BY <1>2 DEF OnceInv, TablesInOrder, Beyond
<1>6. RelayInOrder'
  BY <1>1, <1>2, <1>3 DEF OnceInv, RelayInOrder, HoldsRows, Pending
<1>7. ConsumeInOrder'
  BY <1>1, <1>2, <1>3, <1>4 DEF OnceInv, ConsumeInOrder, SamePosition
<1>. QED  BY <1>5, <1>6, <1>7

\* Alone, a worker that found no checkpoint row still finds none at its INSERT.
LEMMA InsertOnce ==
    ASSUME OnceInv, OneWorker, NEW w \in Workers, InsertCheckpoint(w)
    PROVE  /\ TablesInOrder' /\ RelayInOrder' /\ ConsumeInOrder'
           /\ UNCHANGED <<outcome, stream, aborts>>
<1>1. Workers = {w}
  BY DEF OneWorker
<1>2. pc[w] = "insert" /\ ~checkpoint.exists
  BY DEF InsertCheckpoint, OnceInv, ConsumeInOrder
<1>3. /\ inserting' = [inserting EXCEPT ![w] = TRUE]
      /\ copy' = [copy EXCEPT ![w] = FreshCheckpoint]
      /\ pc' = [pc EXCEPT ![w] = "consume"]
      /\ UNCHANGED <<status, publishedAt, checkpoint, processed, clock, batch, outcome, stamp,
                     rows, stream, aborts>>
  BY <1>2 DEF InsertCheckpoint, tables
<1>4. copy'[w] = FreshCheckpoint /\ pc'[w] = "consume" /\ inserting'[w] /\ rows[w] = {}
  BY <1>2, <1>3 DEF OnceInv, TypeOK, ConsumeInOrder
<1>5. checkpoint = NoCheckpoint
  BY <1>2 DEF OnceInv, TablesInOrder
<1>6. TablesInOrder'
  BY <1>3 DEF OnceInv, TablesInOrder, Beyond
<1>7. RelayInOrder'
  BY <1>1, <1>2, <1>3, <1>4 DEF OnceInv, RelayInOrder, HoldsRows, Pending
<1>8. ConsumeInOrder'
  BY <1>1, <1>2, <1>3, <1>4, <1>5
     DEF OnceInv, ConsumeInOrder, SamePosition, FreshCheckpoint, NoCheckpoint
<1>. QED  BY <1>3, <1>6, <1>7, <1>8

\* The select moves the copy beyond the rows it takes, and no further.
LEMMA ConsumeOnce ==
    ASSUME OnceInv, OneWorker, NEW w \in Workers, ConsumeSelect(w)
    PROVE  TablesInOrder' /\ RelayInOrder' /\ ConsumeInOrder'
<1>1. Workers = {w}
  BY DEF OneWorker
<1>2. PICK R \in SUBSET Unread(w) :
         /\ rows' = [rows EXCEPT ![w] = R]
         /\ \A r \in R, u \in Unread(w) \ R : Precedes(SeesAt(w, r), r, SeesAt(w, u), u)
         /\ \/ R = {} /\ UNCHANGED copy
            \/ \E last \in R :
                 /\ \A r \in R \ {last} : Precedes(SeesAt(w, r), r, SeesAt(w, last), last)
                 /\ copy' = [copy EXCEPT ![w] =
                      Advance(@, Cardinality(R), SeesAt(w, last), last)]
  BY DEF ConsumeSelect
<1>3. /\ pc[w] = "consume" /\ pc' = [pc EXCEPT ![w] = "commit"]
      /\ UNCHANGED <<status, publishedAt, checkpoint, processed, clock, batch, outcome, stamp,
                     inserting>>
  BY DEF ConsumeSelect, tables
<1>4. pc'[w] = "commit" /\ rows'[w] = R /\ rows[w] = {}
  BY <1>2, <1>3 DEF OnceInv, TypeOK, ConsumeInOrder
<1>5. SamePosition(copy[w], checkpoint) /\ copy[w].exists
  BY <1>3, <1>4 DEF OnceInv, ConsumeInOrder
<1>6. \A m \in Messages :
        m \in Unread(w) <=> SeesPublished(w, m) /\ Beyond(checkpoint, SeesAt(w, m), m)
  BY <1>5 DEF Unread, Beyond, SamePosition
<1>7. R \subseteq Messages /\ Cardinality(R) \in Nat
  BY CountType DEF OnceInv, Unread
<1>8. \A m \in Messages :
        (SeesPublished(w, m)' <=> SeesPublished(w, m)) /\ SeesAt(w, m)' = SeesAt(w, m)
  BY <1>3 DEF SeesPublished, SeesAt
<1>9. /\ copy'[w].exists
      /\ copy'[w].count = checkpoint.count + Cardinality(R)
      /\ R = {} => SamePosition(copy'[w], checkpoint)
      /\ copy'[w].at < clock \/ (batch[w] # {} /\ copy'[w].at <= clock)
      /\ \A m \in Messages : SeesPublished(w, m) =>
           (Beyond(copy'[w], SeesAt(w, m), m) <=>
              Beyond(checkpoint, SeesAt(w, m), m) /\ m \notin R)
  <2>1. CASE R = {} /\ UNCHANGED copy
    <3>1. Cardinality(R) = 0
      BY <2>1, FS_EmptySet
    <3>2. checkpoint.at < clock /\ checkpoint.count \in Nat
      BY OnceNumbers DEF OnceInv, TablesInOrder
    <3>. QED  BY <1>5, <2>1, <3>1, <3>2 DEF SamePosition, Beyond
  <2>2. ASSUME NEW last \in R,
               \A r \in R \ {last} : Precedes(SeesAt(w, r), r, SeesAt(w, last), last),
               copy' = [copy EXCEPT ![w] =
                          Advance(@, Cardinality(R), SeesAt(w, last), last)]
        PROVE  /\ copy'[w].exists
               /\ copy'[w].count = checkpoint.count + Cardinality(R)
               /\ R = {} => SamePosition(copy'[w], checkpoint)
               /\ copy'[w].at < clock \/ (batch[w] # {} /\ copy'[w].at <= clock)
               /\ \A m \in Messages : SeesPublished(w, m) =>
                    (Beyond(copy'[w], SeesAt(w, m), m) <=>
                       Beyond(checkpoint, SeesAt(w, m), m) /\ m \notin R)
    <3>1. copy'[w] = Advance(copy[w], Cardinality(R), SeesAt(w, last), last)
      BY <2>2 DEF OnceInv, TypeOK
    <3>2. /\ copy'[w].exists /\ copy'[w].at = SeesAt(w, last) /\ copy'[w].id = last
          /\ copy'[w].count = checkpoint.count + Cardinality(R)
      BY <1>5, <3>1 DEF Advance, SamePosition
    <3>3. last \in Messages /\ SeesPublished(w, last) /\ Beyond(checkpoint, SeesAt(w, last), last)
      BY <1>6, <1>7
    <3>4. SeesAt(w, last) < clock \/ (batch[w] # {} /\ SeesAt(w, last) <= clock)
      <4>1. CASE last \in batch[w]
        BY <3>3, <4>1 DEF OnceInv, RelayInOrder, SeesPublished, SeesAt, Marks
      <4>2. CASE last \notin batch[w]
        BY <3>3, <4>2 DEF OnceInv, TablesInOrder, SeesPublished, SeesAt
      <4>. QED  BY <4>1, <4>2
    <3>5. ASSUME NEW m \in Messages, SeesPublished(w, m)
          PROVE  Precedes(SeesAt(w, last), last, SeesAt(w, m), m) <=>
                   Beyond(checkpoint, SeesAt(w, m), m) /\ m \notin R
      <4>1. /\ SeesAt(w, m) \in Nat /\ SeesAt(w, last) \in Nat /\ m \in Nat /\ last \in Nat
            /\ checkpoint.at \in Nat /\ checkpoint.id \in Nat
        BY <3>3, OnceNumbers DEF OnceInv
      <4>2. Precedes(checkpoint.at, checkpoint.id, SeesAt(w, last), last)
        BY <3>3 DEF Beyond
      <4>3. ASSUME Precedes(SeesAt(w, last), last, SeesAt(w, m), m)
            PROVE  Beyond(checkpoint, SeesAt(w, m), m) /\ m \notin R
        <5>1. Beyond(checkpoint, SeesAt(w, m), m)
          BY <4>1, <4>2, <4>3, PrecedesIsOrder DEF Beyond
        <5>2. ~Precedes(SeesAt(w, m), m, SeesAt(w, last), last)
          BY <4>1, <4>3, PrecedesIsOrder
        <5>3. m # last
          BY <4>1, <4>3, <5>2
        <5>. QED  BY <2>2, <5>1, <5>2, <5>3
      <4>4. ASSUME Beyond(checkpoint, SeesAt(w, m), m), m \notin R
            PROVE  Precedes(SeesAt(w, last), last, SeesAt(w, m), m)
        <5>1. m \in Unread(w) \ R
          BY <1>6, <3>5, <4>4
        <5>. QED  BY <1>2, <5>1
      <4>. QED  BY <4>3, <4>4
    <3>6. \A m \in Messages : SeesPublished(w, m) =>
            (Beyond(copy'[w], SeesAt(w, m), m) <=>
               Beyond(checkpoint, SeesAt(w, m), m) /\ m \notin R)
      BY <3>2, <3>5 DEF Beyond
    <3>. QED  BY <2>2, <3>2, <3>4, <3>6
  <2>. QED  BY <1>2, <2>1, <2>2
<1>10. TablesInOrder'
  BY <1>3 DEF OnceInv, TablesInOrder, Beyond
<1>11. RelayInOrder'
  BY <1>1, <1>3, <1>4 DEF OnceInv, RelayInOrder, HoldsRows, Pending
<1>12. ConsumeInOrder'
  <2>1. \A m \in R : SeesPublished(w, m)' /\ Beyond(checkpoint, SeesAt(w, m), m)'
    BY <1>3, <1>6, <1>7, <1>8 DEF Beyond
  <2>2. \A m \in Messages : SeesPublished(w, m)' =>
          (Beyond(copy[w], SeesAt(w, m), m)' <=>
             Beyond(checkpoint, SeesAt(w, m), m)' /\ m \notin rows'[w])
    BY <1>3, <1>4, <1>8, <1>9 DEF Beyond
  <2>3. inserting[w] \/ checkpoint.exists
    BY <1>3 DEF OnceInv, ConsumeInOrder
  <2>4. inserting[w] => ~checkpoint.exists
    BY DEF OnceInv, ConsumeInOrder
  <2>. QED  BY <1>1, <1>3, <1>4, <1>9, <2>1, <2>2, <2>3, <2>4 DEF ConsumeInOrder, SamePosition
<1>. QED  BY <1>10, <1>11, <1>12

\* What a commit does to the rows, as one worker sees it.
LEMMA CommitRows ==
    ASSUME OnceInv, NEW w \in Workers, Commit(w), NEW m \in Messages
    PROVE  /\ status'[m] = "published" <=> SeesPublished(w, m)
           /\ SeesPublished(w, m) => publishedAt'[m] = SeesAt(w, m)
           /\ processed'[m] = IF m \in rows[w] THEN processed[m] + 1 ELSE processed[m]
           /\ status'[m] = IF m \notin batch[w] THEN status[m]
                           ELSE IF outcome[w][m] = "failed" THEN "failed" ELSE "published"
<1>1. m \in batch[w] => outcome[w][m] \in {"published", "fallback", "failed"}
  BY DEF Commit, OnceInv, RelayInOrder, HoldsRows, TypeOK, Outcomes
<1>2. status'[m] = NewStatus(w, m) /\ publishedAt'[m] = NewPublishedAt(w, m)
  BY DEF Commit
<1>3. SeesPublished(w, m) => m \notin batch[w] \/ outcome[w][m] # "failed"
  BY DEF SeesPublished
<1>. QED  BY <1>1, <1>2, <1>3 DEF Commit, NewStatus, NewPublishedAt, SeesPublished, SeesAt

LEMMA CommitOnce ==
    ASSUME OnceInv, OneWorker, NEW w \in Workers, Commit(w)
    PROVE  TablesInOrder' /\ RelayInOrder' /\ ConsumeInOrder'
<1>1. TypeOK' /\ Close(w)
  BY NextType DEF OnceInv, Next, WorkerStep, Commit
<1>2. /\ pc[w] = "commit"
      /\ checkpoint' = IF rows[w] # {} \/ inserting[w] THEN copy[w] ELSE checkpoint
      /\ clock' = IF batch[w] = {} THEN clock ELSE clock + 1
  BY DEF Commit
<1>3. SamePosition(checkpoint', copy[w]) /\ checkpoint'.exists
  BY <1>2 DEF OnceInv, ConsumeInOrder, SamePosition
<1>4. clock >= 1 /\ clock \in Nat
  BY DEF OnceInv, TablesInOrder, TypeOK
<1>5. clock' >= 1 /\ checkpoint'.at < clock'
  <2>1. copy[w].at < clock \/ (batch[w] # {} /\ copy[w].at <= clock)
    BY <1>2 DEF OnceInv, ConsumeInOrder
  <2>2. copy[w].at \in Nat
    BY OnceNumbers DEF OnceInv
  <2>. QED  BY <1>2, <1>3, <1>4, <2>1, <2>2 DEF SamePosition
<1>6. ASSUME NEW m \in Messages
      PROVE  /\ status'[m] # "published" => processed'[m] = 0
             /\ status'[m] = "published" =>
                  /\ 1 <= publishedAt'[m] /\ publishedAt'[m] < clock'
                  /\ processed'[m] = IF Beyond(checkpoint', publishedAt'[m], m) THEN 0 ELSE 1
  <2>1. m \in rows[w] => SeesPublished(w, m) /\ Beyond(checkpoint, SeesAt(w, m), m)
    BY DEF OnceInv, ConsumeInOrder
  <2>2. m \in batch[w] => status[m] = "pending" /\ processed[m] = 0
    BY DEF OnceInv, RelayInOrder, TablesInOrder, Pending
  <2>3. CASE ~SeesPublished(w, m)
    <3>1. m \notin rows[w] /\ processed[m] = 0
      BY <2>1, <2>2, <2>3 DEF OnceInv, TablesInOrder, SeesPublished
    <3>. QED  BY <2>3, <3>1, CommitRows
  <2>4. CASE SeesPublished(w, m)
    <3>1. SeesAt(w, m) \in Nat /\ checkpoint.at \in Nat
      BY OnceNumbers DEF OnceInv
    <3>2. /\ 1 <= SeesAt(w, m) /\ SeesAt(w, m) < clock'
          /\ processed[m] = IF Beyond(checkpoint, SeesAt(w, m), m) THEN 0 ELSE 1
      <4>1. CASE m \in batch[w]
        <5>1. checkpoint.at < SeesAt(w, m) /\ SeesAt(w, m) <= clock
          BY <2>4, <4>1 DEF OnceInv, RelayInOrder, SeesPublished, SeesAt, Marks
        <5>2. Beyond(checkpoint, SeesAt(w, m), m)
          BY <5>1 DEF Beyond, Precedes
        <5>. QED  BY <1>2, <1>4, <2>2, <3>1, <4>1, <5>1, <5>2
      <4>2. CASE m \notin batch[w]
        <5>1. status[m] = "published" /\ SeesAt(w, m) = publishedAt[m]
          BY <2>4, <4>2 DEF SeesPublished, SeesAt
        <5>. QED  BY <1>2, <1>4, <3>1, <5>1 DEF OnceInv, TablesInOrder
      <4>. QED  BY <4>1, <4>2
    <3>3. Beyond(checkpoint', SeesAt(w, m), m) <=>
            Beyond(checkpoint, SeesAt(w, m), m) /\ m \notin rows[w]
      <4>1. Beyond(copy[w], SeesAt(w, m), m) <=>
              Beyond(checkpoint, SeesAt(w, m), m) /\ m \notin rows[w]
        BY <1>2, <2>4 DEF OnceInv, ConsumeInOrder
      <4>. QED  BY <1>3, <4>1 DEF Beyond, SamePosition
    <3>4. publishedAt'[m] = SeesAt(w, m) /\ status'[m] = "published"
          /\ processed'[m] = IF m \in rows[w] THEN processed[m] + 1 ELSE processed[m]
      BY <2>4, CommitRows
    <3>. QED  BY <2>1, <3>2, <3>3, <3>4
  <2>. QED  BY <2>3, <2>4
<1>7. TablesInOrder'
  BY <1>3, <1>5, <1>6 DEF TablesInOrder
<1>. QED  BY <1>1, <1>7, CloseOnce

LEMMA NextOnce == ASSUME OneWorker PROVE OnceInv /\ [Next]_vars => OnceInv'
<1> SUFFICES ASSUME OnceInv, [Next]_vars
             PROVE  TablesInOrder' /\ RelayInOrder' /\ ConsumeInOrder'
  BY NextType DEF OnceInv
<1>1. TypeOK'
  BY NextType DEF OnceInv
<1>2. ASSUME NEW w \in Workers, Abort(w)
      PROVE  TablesInOrder' /\ RelayInOrder' /\ ConsumeInOrder'
  <2>1. Close(w) /\ UNCHANGED <<status, publishedAt, checkpoint, processed, clock>>
    BY <1>2 DEF Abort, tables
  <2>2. TablesInOrder'
    BY <2>1 DEF OnceInv, TablesInOrder, Beyond
  <2>. QED  BY <1>1, <2>1, <2>2, CloseOnce
<1>3. CASE UNCHANGED vars
  <2>1. UNCHANGED <<status, publishedAt, checkpoint, processed, clock, pc, batch, outcome, stamp,
                    inserting, copy, rows>>
    BY <1>3 DEF vars, tables, session
  <2>2. TablesInOrder'
    BY <2>1 DEF OnceInv, TablesInOrder, Beyond
  <2>3. RelayInOrder'
    BY <2>1 DEF OnceInv, RelayInOrder, HoldsRows, Pending
  <2>4. ConsumeInOrder'
    BY <2>1 DEF OnceInv, ConsumeInOrder, SamePosition, Beyond, SeesPublished, SeesAt
  <2>. QED  BY <2>2, <2>3, <2>4
<1>. QED
  BY <1>2, <1>3, AppendOnce, SelectOnce, RowOnce, LoadOnce, InsertOnce, ConsumeOnce, CommitOnce
     DEF Next, WorkerStep

\* With one worker the checkpoint passes no published row that was not projected, for any
\* batch sizes, ties of the clock, crashes and failing XADDs (consume_published_events).
THEOREM OneWorkerSkipsNothing == ASSUME OneWorker PROVE Spec => []NothingSkipped
<1>1. OnceInv => NothingSkipped
  BY DEF OnceInv, TablesInOrder, NothingSkipped, Beyond
<1>. QED  BY <1>1, InitOnce, NextOnce, PTL DEF Spec

\* With one worker no row is projected twice, although passes abort and are repeated.
THEOREM OneWorkerProjectsOnce == ASSUME OneWorker PROVE Spec => []ProjectedOnce
<1>1. OnceInv => ProjectedOnce
  <2> SUFFICES ASSUME OnceInv, NEW m \in Messages PROVE processed[m] <= 1
    BY DEF ProjectedOnce
  <2>1. processed[m] = 0 \/ processed[m] = 1
    BY DEF OnceInv, TablesInOrder
  <2>. QED  BY <2>1
<1>. QED  BY <1>1, InitOnce, NextOnce, PTL DEF Spec

-----------------------------------------------------------------------------
(* One worker sends a row again only after an abort.                         *)

SentInOrder ==
    /\ \A m \in Messages : status[m] = "absent" => stream[m] = 0
    /\ \A w \in Workers, m \in Messages :
         status[m] \in {"absent", "pending"} /\ outcome[w][m] = "untouched" => stream[m] <= aborts

ResentInv == OnceInv /\ SentInOrder /\ ResentOnlyAfterAbort

LEMMA InitResent == Init => ResentInv
<1> SUFFICES ASSUME Init PROVE SentInOrder /\ ResentOnlyAfterAbort
  BY InitOnce DEF ResentInv
<1>. QED  BY DEF Init, SentInOrder, ResentOnlyAfterAbort

LEMMA NextResent == ASSUME OneWorker PROVE ResentInv /\ [Next]_vars => ResentInv'
<1> SUFFICES ASSUME ResentInv, [Next]_vars PROVE SentInOrder' /\ ResentOnlyAfterAbort'
  BY NextOnce DEF ResentInv
<1>1. /\ OnceInv /\ OnceInv' /\ TypeOK /\ TypeOK' /\ SentInOrder /\ ResentOnlyAfterAbort
      /\ \A m \in Messages : stream[m] \in Nat
      /\ aborts \in Nat
  BY NextOnce DEF ResentInv, OnceInv, TypeOK
<1>2. ASSUME NEW m \in Messages, AppendEvent(m) PROVE SentInOrder' /\ ResentOnlyAfterAbort'
  BY <1>1, <1>2 DEF AppendEvent, session, TypeOK, SentInOrder, ResentOnlyAfterAbort
<1>3. ASSUME NEW w \in Workers, RelaySelect(w) PROVE SentInOrder' /\ ResentOnlyAfterAbort'
  BY <1>1, <1>3 DEF RelaySelect, tables, SentInOrder, ResentOnlyAfterAbort
<1>4. ASSUME NEW w \in Workers, NEW m \in Messages, RelayRow(w, m)
      PROVE  SentInOrder' /\ ResentOnlyAfterAbort'
  <2>1. PICK r \in RelayResults(client[w]) :
           /\ outcome' = [outcome EXCEPT ![w][m] = r[1]]
           /\ stream' = [stream EXCEPT ![m] = @ + r[2]]
    BY <1>4 DEF RelayRow
  <2>2. r[1] # "untouched" /\ r[2] \in {0, 1}
    BY <2>1 DEF RelayResults
  <2>3. /\ m \in batch[w] /\ outcome[w][m] = "untouched"
        /\ UNCHANGED <<status, aborts>>
    BY <1>4 DEF RelayRow, tables
  <2>4. status[m] = "pending" /\ stream[m] <= aborts
    BY <1>1, <2>3 DEF OnceInv, RelayInOrder, Pending, SentInOrder
  <2>5. \A n \in Messages : stream'[n] = IF n = m THEN stream[n] + r[2] ELSE stream[n]
    BY <1>1, <2>1 DEF TypeOK
  <2>6. ResentOnlyAfterAbort'
    BY <1>1, <2>2, <2>3, <2>4, <2>5 DEF ResentOnlyAfterAbort
  <2>7. \A v \in Workers : v = w
    BY DEF OneWorker
  <2>8. \A n \in Messages : outcome'[w][n] = IF n = m THEN r[1] ELSE outcome[w][n]
    BY <1>1, <2>1 DEF TypeOK
  <2>9. SentInOrder'
    BY <1>1, <2>2, <2>3, <2>4, <2>5, <2>7, <2>8 DEF SentInOrder
  <2>. QED  BY <2>6, <2>9
<1>5. ASSUME NEW w \in Workers, LoadCheckpoint(w) PROVE SentInOrder' /\ ResentOnlyAfterAbort'
  BY <1>1, <1>5 DEF LoadCheckpoint, tables, SentInOrder, ResentOnlyAfterAbort
<1>6. ASSUME NEW w \in Workers, InsertCheckpoint(w) PROVE SentInOrder' /\ ResentOnlyAfterAbort'
  <2>1. UNCHANGED <<status, outcome, stream, aborts>>
    BY <1>1, <1>6, InsertOnce DEF InsertCheckpoint, tables
  <2>. QED  BY <1>1, <2>1 DEF SentInOrder, ResentOnlyAfterAbort
<1>7. ASSUME NEW w \in Workers, ConsumeSelect(w) PROVE SentInOrder' /\ ResentOnlyAfterAbort'
  BY <1>1, <1>7 DEF ConsumeSelect, tables, SentInOrder, ResentOnlyAfterAbort
<1>8. ASSUME NEW w \in Workers, Commit(w) PROVE SentInOrder' /\ ResentOnlyAfterAbort'
  <2>1. UNCHANGED <<stream, aborts>>
    BY <1>8 DEF Commit
  <2>2. \A m \in Messages : status'[m] \in {"absent", "pending"} =>
          m \notin batch[w] /\ status'[m] = status[m]
    BY <1>1, <1>8, CommitRows
  <2>3. \A m \in Messages \ batch[w] : outcome[w][m] = "untouched"
    BY <1>1 DEF OnceInv, RelayInOrder
  <2>4. SentInOrder'
    BY <1>1, <2>1, <2>2, <2>3 DEF SentInOrder
  <2>. QED  BY <1>1, <2>1, <2>4 DEF ResentOnlyAfterAbort
<1>9. ASSUME NEW w \in Workers, Abort(w) PROVE SentInOrder' /\ ResentOnlyAfterAbort'
  <2>1. UNCHANGED <<status, stream>> /\ aborts' = aborts + 1
    BY <1>9 DEF Abort, tables
  <2>. QED  BY <1>1, <2>1 DEF SentInOrder, ResentOnlyAfterAbort
<1>10. CASE UNCHANGED vars
  BY <1>1, <1>10 DEF vars, tables, session, SentInOrder, ResentOnlyAfterAbort
<1>. QED
  BY <1>2, <1>3, <1>4, <1>5, <1>6, <1>7, <1>8, <1>9, <1>10 DEF Next, WorkerStep

\* With one worker the stream carries a row at most once more than passes were rolled back
\* (relay_outbox_batch sends before its transaction commits).
THEOREM OneWorkerResends == ASSUME OneWorker PROVE Spec => []ResentOnlyAfterAbort
<1>1. ResentInv => ResentOnlyAfterAbort  BY DEF ResentInv
<1>. QED  BY <1>1, InitResent, NextResent, PTL DEF Spec

-----------------------------------------------------------------------------
(* One worker implements EventDelivery: its commit is the abstract pass, an  *)
(* append the abstract record, and every other step a stutter.               *)

\* The instance counts as this module does.
LEMMA SameCardinality == \A S : Delivery!Cardinality(S) = Cardinality(S)
  BY DEF Delivery!Cardinality, Cardinality

LEMMA InitDelivers == Init => Delivery!Init
<1> SUFFICES ASSUME Init PROVE Delivery!Init
  OBVIOUS
<1>1. \A m \in Messages : status[m] = "absent" /\ processed[m] = 0
  BY DEF Init
<1>2. checkpoint.count = 0
  BY DEF Init, NoCheckpoint
<1>. QED  BY <1>1, <1>2 DEF Delivery!Init

LEMMA AppendDelivers ==
    ASSUME OnceInv, NEW m \in Messages, AppendEvent(m)
    PROVE  Delivery!Record(m)
<1>1. /\ status[m] = "absent" /\ status' = [status EXCEPT ![m] = "pending"]
      /\ UNCHANGED <<processed, checkpoint>>
  BY DEF AppendEvent
<1>2. \A n \in Messages : status'[n] = IF n = m THEN "pending" ELSE status[n]
  BY <1>1 DEF OnceInv, TypeOK
<1>. QED  BY <1>1, <1>2 DEF Delivery!Record

LEMMA CommitDelivers ==
    ASSUME OnceInv, OneWorker, NEW w \in Workers, Commit(w)
    PROVE  \E P, D, Q \in SUBSET Messages : Delivery!Pass(P, D, Q)
<1>1. batch[w] \subseteq Pending /\ batch[w] \subseteq Messages /\ rows[w] \subseteq Messages
  BY OnceNumbers DEF OnceInv, RelayInOrder
<1> PICK P \in SUBSET Messages : P = {m \in batch[w] : outcome[w][m] \in Marks}
  BY <1>1
<1> PICK D \in SUBSET Messages : D = {m \in batch[w] : outcome[w][m] = "failed"}
  BY <1>1
<1> PICK Q \in SUBSET Messages : Q = rows[w]
  BY <1>1
<1>2. \A m \in batch[w] : outcome[w][m] \in {"published", "fallback", "failed"}
  BY <1>1 DEF Commit, OnceInv, RelayInOrder, HoldsRows, TypeOK, Outcomes
<1>3. \A m \in Messages :
        /\ status'[m] = IF m \in P THEN "published" ELSE IF m \in D THEN "failed" ELSE status[m]
        /\ processed'[m] = IF m \in Q THEN processed[m] + 1 ELSE processed[m]
        /\ processed[m] \in Nat
  BY <1>2, CommitRows DEF Marks, OnceInv, TypeOK
<1>4. \A m \in P \cup D : status[m] = "pending"
  BY <1>1 DEF Pending
<1>5. \A m \in Q : status'[m] = "published" /\ processed[m] = 0
  <2> SUFFICES ASSUME NEW m \in Q PROVE status'[m] = "published" /\ processed[m] = 0
    OBVIOUS
  <2>1. m \in Messages /\ SeesPublished(w, m) /\ Beyond(checkpoint, SeesAt(w, m), m)
    BY <1>1 DEF OnceInv, ConsumeInOrder
  <2>2. status'[m] = "published"
    BY <2>1, CommitRows
  <2>3. CASE m \in batch[w]
    BY <1>1, <2>1, <2>2, <2>3 DEF OnceInv, TablesInOrder, Pending
  <2>4. CASE m \notin batch[w]
    BY <2>1, <2>2, <2>4 DEF OnceInv, TablesInOrder, SeesPublished, SeesAt
  <2>. QED  BY <2>3, <2>4
<1>6. checkpoint'.count = checkpoint.count + Cardinality(Q)
  <2>1. copy[w].count = checkpoint.count + Cardinality(Q)
    BY DEF Commit, OnceInv, ConsumeInOrder
  <2>2. CASE rows[w] # {} \/ inserting[w]
    BY <2>1, <2>2 DEF Commit
  <2>3. CASE ~(rows[w] # {} \/ inserting[w])
    <3>1. checkpoint' = checkpoint /\ checkpoint.count \in Nat
      BY <2>3, OnceNumbers DEF Commit, OnceInv
    <3>2. Cardinality(Q) = 0
      BY <2>3, FS_EmptySet
    <3>. QED  BY <3>1, <3>2
  <2>. QED  BY <2>2, <2>3
<1>7. P \cap D = {}
  BY DEF Marks
<1>8. P \cup D \subseteq Delivery!Unsettled
  BY <1>4 DEF Delivery!Unsettled
<1>9. /\ {m \in Messages : status'[m] = "published"} = {m \in Messages : status[m] = "published"} \cup P
       /\ {m \in Messages : status'[m] = "failed"} = {m \in Messages : status[m] = "failed"} \cup D
       /\ {m \in Messages : status'[m] # "absent"} = {m \in Messages : status[m] # "absent"}
  BY <1>3, <1>4, <1>7
<1>10. {m \in Messages : processed'[m] >= 1} = {m \in Messages : processed[m] >= 1} \cup Q
  BY <1>3
<1>11. Q \subseteq {m \in Messages : status'[m] = "published"} \ {m \in Messages : processed[m] >= 1}
  BY <1>5
<1>12. Delivery!Pass(P, D, Q)
  BY <1>6, <1>7, <1>8, <1>9, <1>10, <1>11, SameCardinality DEF Delivery!Pass
<1>. QED  BY <1>12

LEMMA NextDelivers ==
    ASSUME OneWorker PROVE OnceInv /\ [Next]_vars => [Delivery!Next]_(Delivery!vars)
<1> SUFFICES ASSUME OnceInv, [Next]_vars PROVE [Delivery!Next]_(Delivery!vars)
  OBVIOUS
<1>1. UNCHANGED <<status, processed, checkpoint>> => UNCHANGED Delivery!vars
  BY DEF Delivery!vars
<1>2. ASSUME NEW m \in Messages, AppendEvent(m) PROVE Delivery!Next
  BY <1>2, AppendDelivers DEF Delivery!Next
<1>3. ASSUME NEW w \in Workers, Commit(w) PROVE Delivery!Next
  BY <1>3, CommitDelivers DEF Delivery!Next
<1>4. ASSUME NEW w \in Workers,
             \/ RelaySelect(w) \/ (\E m \in Messages : RelayRow(w, m)) \/ LoadCheckpoint(w)
             \/ InsertCheckpoint(w) \/ ConsumeSelect(w) \/ Abort(w)
      PROVE  UNCHANGED <<status, processed, checkpoint>>
  BY <1>4 DEF RelaySelect, RelayRow, LoadCheckpoint, InsertCheckpoint, ConsumeSelect, Abort, tables
<1>5. CASE UNCHANGED vars
  BY <1>1, <1>5 DEF vars, tables
<1>. QED  BY <1>1, <1>2, <1>3, <1>4, <1>5 DEF Next, WorkerStep

\* One worker delivers every event as EventDelivery promises: settled once, projected only
\* when published and then once, and counted.
THEOREM OneWorkerDelivers == ASSUME OneWorker PROVE Spec => DeliveredExactlyOnce
<1>. QED  BY InitDelivers, InitOnce, NextOnce, NextDelivers, PTL
          DEF Spec, DeliveredExactlyOnce, Delivery!Spec
=============================================================================
