--------------------------- MODULE StreamProcessor ---------------------------
(***************************************************************************)
(* StreamProcessor of packages/core/src/monitor, without parallel workers: *)
(* data points queue, batches of them are compressed and sent, a batch     *)
(* that fails is tried again and put back in front of the queue.           *)
(*                                                                         *)
(* Points are numbered in the order of addDataPoint.  One batch is in      *)
(* progress at a time (processing); points arrive and are dropped while it *)
(* awaits its compression or the delay of a retry.                         *)
(***************************************************************************)
EXTENDS Integers, Sequences, FiniteSets, SequencesExt

CONSTANTS StreamBatch, StreamQueue, StreamRetries,   \* batchSize, maxQueueSize, retryAttempts
          MaxPoints     \* bound: points added

ASSUME StreamAssumption ==
    /\ StreamBatch \in Nat \ {0} /\ StreamQueue \in Nat \ {0} /\ StreamRetries \in Nat
    /\ MaxPoints \in Nat

VARIABLES added,      \* history: points added
          waiting,    \* the queue
          batch,      \* the points in progress; none when not processing
          failures,   \* attempts of the batch that have failed
          sent,       \* history: the points sent, in order
          dropped,    \* history: the points dropped by a full queue
          flushing,   \* is the flush timer running?
          errorHeard  \* is there a listener for 'error' events?

streamVars == <<added, waiting, batch, failures, sent, dropped, flushing, errorHeard>>

Points == 1..MaxPoints

Gone == ToSet(sent) \cup dropped
Underway == ToSet(waiting) \cup ToSet(batch)

StreamInit ==
    /\ added = 0 /\ waiting = <<>> /\ batch = <<>> /\ failures = 0
    /\ sent = <<>> /\ dropped = {} /\ flushing = TRUE
    /\ errorHeard \in BOOLEAN

First(q, n) == SubSeq(q, 1, IF Len(q) < n THEN Len(q) ELSE n)
Rest(q, n) == SubSeq(q, n + 1, Len(q))

\* processBatch, up to its first await.
ProcessBatch(q) ==
    IF batch # <<>> THEN waiting' = q /\ UNCHANGED <<batch, failures>>
    ELSE waiting' = Rest(q, StreamBatch) /\ batch' = First(q, StreamBatch) /\ failures' = 0

\* A full queue drops its oldest point, even for one that is processed at once.
AddDataPoint ==
    /\ added < MaxPoints /\ added' = added + 1
    /\ LET full == Len(waiting) >= StreamQueue
           kept == IF full THEN Tail(waiting) ELSE waiting
           q == Append(kept, added + 1)
       IN  /\ dropped' = IF full THEN dropped \cup {Head(waiting)} ELSE dropped
           /\ IF Len(q) >= StreamBatch THEN ProcessBatch(q)
              ELSE waiting' = q /\ UNCHANGED <<batch, failures>>
    /\ UNCHANGED <<sent, flushing>>

Flush ==
    /\ flushing /\ waiting # <<>> /\ batch = <<>>
    /\ ProcessBatch(waiting)
    /\ UNCHANGED <<added, sent, dropped, flushing>>

\* Compressed and sent, in the first attempt or in a later one.
BatchSent ==
    /\ batch # <<>>
    /\ sent' = sent \o batch /\ batch' = <<>>
    /\ UNCHANGED <<added, waiting, failures, dropped, flushing>>

\* Mutation: the batch is put back at the end of the queue.
PutBackLast == waiting \o batch

PutBack == batch \o waiting

\* The compression fails, or a listener throws before it took the batch.  The
\* first failure is announced by an 'error' event, which throws when nobody
\* listens: then the batch is lost.  A retry that fails is only counted.
BatchFails ==
    /\ batch # <<>>
    /\ IF failures = 0 /\ ~errorHeard
       THEN batch' = <<>> /\ UNCHANGED <<waiting, failures>>
       ELSE IF failures < StreamRetries
       THEN failures' = failures + 1 /\ UNCHANGED <<waiting, batch>>
       ELSE waiting' = PutBack /\ batch' = <<>> /\ UNCHANGED failures
    /\ UNCHANGED <<added, sent, dropped, flushing>>

\* The timer stops; the batch in progress and its retries go on.
StopStream ==
    /\ flushing /\ flushing' = FALSE
    /\ UNCHANGED <<added, waiting, batch, failures, sent, dropped>>

StreamNext ==
    /\ AddDataPoint \/ Flush \/ BatchSent \/ BatchFails \/ StopStream
    /\ UNCHANGED errorHeard

StreamSpec == StreamInit /\ [][StreamNext]_streamVars
-----------------------------------------------------------------------------
StreamTypeOK ==
    /\ added \in 0..MaxPoints /\ waiting \in Seq(Points) /\ batch \in Seq(Points) /\ sent \in Seq(Points)
    /\ failures \in 0..StreamRetries /\ dropped \in SUBSET Points /\ flushing \in BOOLEAN
    /\ errorHeard \in BOOLEAN

\* Points are sent once and in the order in which they came, and one that was not
\* dropped is still on its way, behind those sent: retries and batches that are
\* put back neither repeat, reorder nor lose any, as long as errors are heard.
SentInOrder ==
    LET line == sent \o batch \o waiting
    IN  /\ \A i, j \in DOMAIN line : i < j => line[i] < line[j]
        /\ errorHeard => Gone \cup Underway = 1..added

\* A batch that is put back takes the queue beyond maxQueueSize by its own
\* length, and never further.
QueueWithinLimit == Len(waiting) <= StreamQueue + StreamBatch
=============================================================================
