------------------------------ MODULE LogBatch ------------------------------
(***************************************************************************)
(* The output batch of the Logger of core_log.h: the thread that drains    *)
(* puts lines into it and hands it to write(2), which may be interrupted,  *)
(* take only a part, or fail.                                              *)
(*                                                                         *)
(* A character is its number in the order the lines were made, from 1, so  *)
(* that the characters in the batch and in the file say by themselves      *)
(* whether one was skipped, repeated or overtaken.  What a line says is    *)
(* left out; how long it would like to be is an input.                     *)
(***************************************************************************)
EXTENDS Integers, Sequences, FiniteSets, SequencesExt

CONSTANTS
    k_BATCH_SIZE,
    k_FLUSH_THRESHOLD,
    k_MAX_LINE_SIZE,    \* the longest line LogFormat makes
    RecordSizes,        \* characters that the line of a record needs
    LossSizes,          \* characters that the line about lost records needs
    MaxLines            \* bound: lines made

\* The static_asserts of the class (:230-231).  A loss line holds a name cut to
\* 16 characters and two numbers, so it is far shorter than the threshold.  No
\* limit is set to the line of a record, whose writer cuts it.
ASSUME BatchAssumption ==
    /\ {k_BATCH_SIZE, k_FLUSH_THRESHOLD, k_MAX_LINE_SIZE, MaxLines} \subseteq Nat
    /\ k_FLUSH_THRESHOLD > k_MAX_LINE_SIZE + 2
    /\ k_BATCH_SIZE >= 2 * k_FLUSH_THRESHOLD
    /\ RecordSizes \subseteq Nat \ {0}
    /\ LossSizes \subseteq 1..k_MAX_LINE_SIZE

VARIABLES
    d_batch,        \* the array, with what earlier batches left in it
    d_batch_size,
    written,        \* flush: characters of the batch already written
    result,         \* flush: what write(2) has just returned
    errno,
    logger_at,      \* "draining", "writing" (in flush) or "appending"
    line,           \* the line that waits for the flush to end
    file,           \* the characters the file has taken
    \* History.
    made,           \* number of characters put into the batch
    line_ends,      \* those that end a line
    cut,            \* whether a line that LogFormat makes was cut
    lost            \* characters given up when write(2) failed

vars == <<d_batch, d_batch_size, written, result, errno, logger_at, line, file,
          made, line_ends, cut, lost>>

NoLine == [kind |-> "none", size |-> 0]
Lines == [kind : {"record"}, size : RecordSizes] \union [kind : {"loss"}, size : LossSizes]
NoResult == -2

Init ==
    /\ d_batch = [i \in 1..k_BATCH_SIZE |-> 0] /\ d_batch_size = 0
    /\ written = 0 /\ result = NoResult /\ errno = "none"
    /\ logger_at = "draining" /\ line = NoLine
    /\ file = <<>>
    /\ made = 0 /\ line_ends = {} /\ cut = FALSE /\ lost = {}

-----------------------------------------------------------------------------
(* Lines.  (An operator named X_Fault is X with a bug, for showing that a  *)
(* property detects it; nothing else uses it.)                             *)

\* What is left of the batch.
Free == k_BATCH_SIZE - d_batch_size

MustFlush_Never == Free < 0
MustFlush_Full == Free < 3
MustFlush == Free < k_FLUSH_THRESHOLD

\* The line of a record leaves room for the mark of a cut, and gets it when it is
\* cut; a line about lost records gets no mark.  Both count what they wrote.
TakesWithMark_NoRoom(size) == IF size > Free THEN Free + 2 ELSE size
TakesWithMark(size) == IF size > Free - 2 THEN (Free - 2) + 2 ELSE size
Takes(l) ==
    IF l.kind = "record" THEN TakesWithMark(l.size)
    ELSE IF l.size > Free THEN Free ELSE l.size

\* Whether the line ends with its newline, and whether it lacks something.
HasNewline(l) == l.kind = "record" \/ l.size <= Free
IsCut(l) == IF l.kind = "record" THEN l.size > Free - 2 ELSE l.size > Free

Put(l) ==
    LET n == Takes(l) IN
    /\ d_batch' = [i \in 1..k_BATCH_SIZE |->
                      IF i \in (d_batch_size + 1)..(d_batch_size + n)
                      THEN made + (i - d_batch_size)
                      ELSE d_batch[i]]
    /\ d_batch_size' = d_batch_size + n
    /\ made' = made + n
    /\ line_ends' = IF HasNewline(l) THEN line_ends \union {made + n} ELSE line_ends
    /\ cut' = (cut \/ (IsCut(l) /\ l.size <= k_MAX_LINE_SIZE))
    /\ logger_at' = "draining" /\ line' = NoLine
    /\ UNCHANGED <<written, result, errno, file, lost>>

EnterFlush(l) ==
    /\ logger_at' = "writing" /\ written' = 0 /\ line' = l
    /\ UNCHANGED <<d_batch, d_batch_size, result, errno, file,
                   made, line_ends, cut, lost>>

\* write_record and write_loss: flush first if little is free.
MakeLine(l) ==
    /\ logger_at = "draining" /\ Cardinality(line_ends) < MaxLines
    /\ IF MustFlush THEN EnterFlush(l) ELSE Put(l)

\* The line, once the flush is over.
AppendLine == logger_at = "appending" /\ Put(line)

\* consume flushes after each pass, and so does the destructor.
EndPass == logger_at = "draining" /\ EnterFlush(NoLine)

-----------------------------------------------------------------------------
(* flush, and write(2).                                                    *)

\* The characters that a call of write(2) is given: from where the last one
\* stopped.
Offer_FromStart == SubSeq(d_batch, 1, d_batch_size)
Offer == SubSeq(d_batch, written + 1, d_batch_size)

\* One call of write(2) takes a part of the offer from its start, at least one
\* character, or nothing; or it fails, and says why in errno.  A call that does
\* not fail leaves errno as it was.
Write ==
    /\ logger_at = "writing" /\ written < d_batch_size /\ result = NoResult
    /\ \/ \E n \in 0..Len(Offer) :
             /\ result' = n
             /\ file' = file \o SubSeq(Offer, 1, n)
             /\ UNCHANGED errno
       \/ \E why \in {"EINTR", "EIO"} :
             /\ result' = -1 /\ errno' = why
             /\ UNCHANGED file
    /\ UNCHANGED <<d_batch, d_batch_size, written, logger_at, line,
                   made, line_ends, cut, lost>>

\* The batch is empty again, and the caller of flush goes on.
LeaveFlush ==
    /\ d_batch_size' = 0
    /\ logger_at' = IF line = NoLine THEN "draining" ELSE "appending"
    /\ written' = 0 /\ result' = NoResult
    /\ UNCHANGED <<d_batch, errno, line, file, made, line_ends, cut>>

MustRetry_AnyErrno == result <= 0 /\ errno = "EINTR"
MustRetry == result < 0 /\ errno = "EINTR"

\* write(2) took something: what remains is offered next.
GoOn ==
    /\ logger_at = "writing" /\ result > 0
    /\ written' = written + result /\ result' = NoResult
    /\ UNCHANGED <<d_batch, d_batch_size, errno, logger_at, line, file,
                   made, line_ends, cut, lost>>

\* A signal interrupted it.
Retry ==
    /\ logger_at = "writing" /\ result \in {-1, 0} /\ MustRetry
    /\ result' = NoResult
    /\ UNCHANGED <<d_batch, d_batch_size, written, errno, logger_at, line, file,
                   made, line_ends, cut, lost>>

\* It failed: the rest of the batch is lost.
GiveUp ==
    /\ logger_at = "writing" /\ result \in {-1, 0} /\ ~MustRetry
    /\ lost' = lost \union ToSet(Offer)
    /\ LeaveFlush

Written_KeepsSize ==
    /\ logger_at = "writing" /\ result = NoResult /\ written >= d_batch_size
    /\ logger_at' = IF line = NoLine THEN "draining" ELSE "appending"
    /\ UNCHANGED <<d_batch, d_batch_size, written, result, errno, line, file,
                   made, line_ends, cut, lost>>
Written ==
    /\ logger_at = "writing" /\ result = NoResult /\ written >= d_batch_size
    /\ LeaveFlush /\ UNCHANGED lost

-----------------------------------------------------------------------------

Flush == Write \/ GoOn \/ Retry \/ GiveUp \/ Written
Next == (\E l \in Lines : MakeLine(l)) \/ AppendLine \/ EndPass \/ Flush
Spec == Init /\ [][Next]_vars

-----------------------------------------------------------------------------
(* Properties.                                                             *)

\* The characters of the batch that are still to be written.
Waiting ==
    {d_batch[i] : i \in (written + 1 + (IF result > 0 THEN result ELSE 0))..d_batch_size}

\* Every variable has its type.  The size of the batch says that no line was
\* written past its end.
TypeOK ==
    /\ d_batch_size \in 0..k_BATCH_SIZE
    /\ d_batch \in [1..k_BATCH_SIZE -> 0..made]
    /\ written \in 0..d_batch_size
    /\ result \in {NoResult, -1} \union 0..k_BATCH_SIZE
    /\ errno \in {"none", "EINTR", "EIO"}
    /\ logger_at \in {"draining", "writing", "appending"}
    /\ line \in Lines \union {NoLine}
    /\ file \in Seq(1..made) /\ made \in Nat
    /\ line_ends \subseteq 1..made /\ lost \subseteq 1..made /\ cut \in BOOLEAN

\* However write(2) cuts and interrupts a batch, each character of each line is in
\* one place: in the file, in the order the lines were made, or waiting, or lost to
\* a failure (:690-705).
EachCharacterIsOnce ==
    /\ \A i \in 2..Len(file) : file[i - 1] < file[i]
    /\ ToSet(file) \union Waiting \union lost = 1..made
    /\ Len(file) + Cardinality(Waiting) + Cardinality(lost) = made

\* Where something is missing from the file, because a write failed, the file goes
\* on with the start of a line: a batch holds whole lines, and one failure tears at
\* most one (:650-652, :670-672, :701-707).
ResumesAtALine ==
    \A i \in DOMAIN file :
        LET before == IF i = 1 THEN 0 ELSE file[i - 1]
        IN  file[i] # before + 1 => file[i] - 1 \in line_ends

\* No line that LogFormat makes is cut for want of room, and every line in the
\* batch, cut or not, ends with a newline (:217, :227-231, :659-662).
LinesAreWhole ==
    /\ ~cut
    /\ d_batch_size > 0 => d_batch[d_batch_size] \in line_ends

\* Liveness: the logger thread goes on, its passes end, and write(2) is not
\* interrupted for ever.
Answered == Write /\ (result' # -1 \/ errno' # "EINTR")
Fairness == WF_vars(AppendLine) /\ WF_vars(EndPass) /\ WF_vars(Flush) /\ SF_vars(Answered)

\* What was put into the batch does not stay there: again and again everything is
\* written or given up, whatever write(2) answers and whatever an earlier call
\* left in errno (:593-599, :690-707).
MadeIsSettled == Fairness => []<>(ToSet(file) \union lost = 1..made)
=============================================================================
