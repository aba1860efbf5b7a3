--------------------------- MODULE LogBatchProofs ---------------------------
(***************************************************************************)
(* The batch keeps its lines whole and loses no character but to a failed  *)
(* write, for every size of the batch, every threshold above the longest   *)
(* line, every size of the lines and any number of them.                   *)
(***************************************************************************)
EXTENDS LogBatch, FiniteSetTheorems, SequenceTheorems, TLAPS

-----------------------------------------------------------------------------
(* The inductive invariant.                                                *)

\* The characters made before those of the batch, and those that write(2) has been
\* given and has taken, or that were given up.
Base == made - d_batch_size
Sent == Base + written + (IF result > 0 THEN result ELSE 0)

\* Where the calls stand.
FlushState ==
    /\ d_batch_size <= made
    /\ result > 0 => written + result <= d_batch_size
    /\ logger_at # "writing" => written = 0 /\ result = NoResult
    /\ logger_at = "appending" => d_batch_size = 0 /\ line # NoLine
    /\ result # NoResult => written < d_batch_size

\* The batch holds the last characters made, and whole lines.
BatchHolds ==
    /\ \A i \in 1..d_batch_size : d_batch[i] = Base + i
    /\ Base = 0 \/ Base \in line_ends
    /\ d_batch_size > 0 => made \in line_ends
    /\ ~cut

\* What was sent is in the file, in order, or lost.
FileHolds ==
    /\ \A i \in 2..Len(file) : file[i - 1] < file[i]
    /\ Sent > Base => file # <<>> /\ file[Len(file)] = Sent
    /\ ToSet(file) \union lost = 1..Sent
    /\ Len(file) + Cardinality(lost) = Sent

BatchInvariant == TypeOK /\ FlushState /\ BatchHolds /\ FileHolds /\ ResumesAtALine

-----------------------------------------------------------------------------
(* The sizes.                                                              *)

LEMMA Sizes ==
    /\ k_BATCH_SIZE \in Nat \ {0} /\ k_FLUSH_THRESHOLD \in Nat /\ k_MAX_LINE_SIZE \in Nat
    /\ k_FLUSH_THRESHOLD > k_MAX_LINE_SIZE + 2 /\ k_BATCH_SIZE > k_FLUSH_THRESHOLD
    /\ \A l \in Lines :
          \/ l.kind = "record" /\ l.size \in Nat \ {0}
          \/ l.kind = "loss" /\ l.size \in 1..k_MAX_LINE_SIZE
    /\ NoLine \notin Lines
<1>1. \A l \in Lines :
          \/ l.kind = "record" /\ l.size \in Nat \ {0}
          \/ l.kind = "loss" /\ l.size \in 1..k_MAX_LINE_SIZE
    BY BatchAssumption DEF Lines
<1>2. NoLine.kind = "none"
    BY DEF NoLine
<1>3. NoLine \notin Lines
    BY <1>1, <1>2
<1>4. QED BY <1>1, <1>3, BatchAssumption

\* A line for which enough is free fits with its newline, and is not cut if LogFormat
\* made it.
LEMMA LineFits ==
    ASSUME NEW l \in Lines, d_batch_size \in 0..k_BATCH_SIZE, Free >= k_FLUSH_THRESHOLD
    PROVE  /\ Takes(l) \in 1..Free /\ HasNewline(l)
           /\ ~(IsCut(l) /\ l.size <= k_MAX_LINE_SIZE)
<1>1. Free \in Nat /\ Free > k_MAX_LINE_SIZE + 2
    BY Sizes DEF Free
<1>2. CASE l.kind = "record" /\ l.size \in Nat \ {0}
    BY <1>1, <1>2, Sizes DEF Takes, TakesWithMark, HasNewline, IsCut
<1>3. CASE l.kind = "loss" /\ l.size \in 1..k_MAX_LINE_SIZE
    BY <1>1, <1>3, Sizes DEF Takes, HasNewline, IsCut
<1>4. QED BY <1>2, <1>3, Sizes

LEMMA Counts ==
    ASSUME TypeOK, FlushState
    PROVE  /\ made \in Nat /\ d_batch_size \in Nat /\ written \in Nat /\ result \in Int
           /\ Base \in Nat /\ Sent \in Base..made
           /\ made = Base + d_batch_size
<1>1. /\ made \in Nat /\ d_batch_size \in Nat /\ written \in 0..d_batch_size /\ result \in Int
      /\ d_batch_size <= made
    BY Sizes DEF TypeOK, FlushState, NoResult
<1>2. Base \in Nat /\ made = Base + d_batch_size
    BY <1>1 DEF Base
<1>3. CASE result > 0
    BY <1>1, <1>2, <1>3 DEF FlushState, Sent
<1>4. CASE ~(result > 0)
    BY <1>1, <1>2, <1>4 DEF Sent
<1>5. QED BY <1>1, <1>2, <1>3, <1>4

LEMMA LostIsFinite ==
    ASSUME TypeOK
    PROVE  IsFiniteSet(lost) /\ Cardinality(lost) \in Nat /\ Len(file) \in Nat
<1>1. lost \subseteq 1..made /\ made \in Nat /\ file \in Seq(1..made)
    BY DEF TypeOK
<1>2. IsFiniteSet(1..made)
    BY <1>1, FS_Interval
<1>3. IsFiniteSet(lost)
    BY <1>1, <1>2, FS_Subset
<1>4. QED BY <1>1, <1>3, FS_CardinalityType, LenProperties

LEMMA SizeOfRest ==
    ASSUME NEW sent \in Nat, NEW all \in Nat, sent <= all
    PROVE  /\ IsFiniteSet((sent + 1)..all)
           /\ Cardinality((sent + 1)..all) = all - sent
<1>1. sent + 1 \in Int /\ all \in Int
    OBVIOUS
<1>2. /\ IsFiniteSet((sent + 1)..all)
      /\ Cardinality((sent + 1)..all) = IF sent + 1 > all THEN 0 ELSE all - (sent + 1) + 1
    BY <1>1, FS_Interval
<1>3. (IF sent + 1 > all THEN 0 ELSE all - (sent + 1) + 1) = all - sent
    OBVIOUS
<1>4. QED BY <1>2, <1>3

LEMMA InitIsWhole == Init => BatchInvariant
<1> SUFFICES ASSUME Init PROVE BatchInvariant
    OBVIOUS
<1>1. /\ d_batch = [i \in 1..k_BATCH_SIZE |-> 0] /\ d_batch_size = 0
      /\ written = 0 /\ result = -2 /\ errno = "none"
      /\ logger_at = "draining" /\ line = NoLine
      /\ file = <<>> /\ made = 0 /\ line_ends = {} /\ cut = FALSE /\ lost = {}
    BY DEF Init, NoResult
<1>2. Base = 0 /\ Sent = 0
    BY <1>1 DEF Base, Sent
<1>3. TypeOK
    <2>1. d_batch \in [1..k_BATCH_SIZE -> 0..made]
        BY <1>1
    <2>2. file \in Seq(1..made) /\ made \in Nat
        BY <1>1
    <2>3. d_batch_size \in 0..k_BATCH_SIZE /\ written \in 0..d_batch_size
        BY <1>1, Sizes
    <2>4. result \in {NoResult, -1} \union 0..k_BATCH_SIZE
        BY <1>1 DEF NoResult
    <2>5. line_ends \subseteq 1..made /\ lost \subseteq 1..made /\ cut \in BOOLEAN
        BY <1>1
    <2>6. QED BY <1>1, <2>1, <2>2, <2>3, <2>4, <2>5 DEF TypeOK
<1>4. FlushState
    BY <1>1 DEF FlushState, NoResult
<1>5. BatchHolds
    BY <1>1, <1>2 DEF BatchHolds
<1>6. FileHolds
    <2>1. Len(file) = 0 /\ DOMAIN file = {} /\ Cardinality(lost) = 0
        BY <1>1, FS_EmptySet
    <2>2. QED BY <1>1, <1>2, <2>1 DEF FileHolds, ToSet
<1>7. ResumesAtALine
    BY <1>1 DEF ResumesAtALine
<1>8. QED BY <1>3, <1>4, <1>5, <1>6, <1>7 DEF BatchInvariant

\* A step that leaves the file alone, and what was sent of it.
LEMMA FileUnchanged ==
    ASSUME BatchInvariant, UNCHANGED <<file, lost>>, Sent' = Sent, Base' = Base,
           line_ends \subseteq line_ends'
    PROVE  FileHolds' /\ ResumesAtALine'
<1>1. FileHolds'
    BY DEF BatchInvariant, FileHolds
<1>2. ResumesAtALine'
    BY DEF BatchInvariant, ResumesAtALine
<1>3. QED BY <1>1, <1>2

-----------------------------------------------------------------------------
(* Lines.                                                                  *)

LEMMA PutKeeps ==
    ASSUME BatchInvariant, NEW l \in Lines, logger_at # "writing",
           Free >= k_FLUSH_THRESHOLD, Put(l)
    PROVE  BatchInvariant'
<1> DEFINE n == Takes(l)
<1>1. TypeOK /\ FlushState /\ BatchHolds
    BY DEF BatchInvariant
<1>2. n \in 1..Free /\ HasNewline(l) /\ ~(IsCut(l) /\ l.size <= k_MAX_LINE_SIZE)
    BY <1>1, LineFits DEF TypeOK
<1>3. /\ d_batch' = [i \in 1..k_BATCH_SIZE |->
                        IF i \in (d_batch_size + 1)..(d_batch_size + n)
                        THEN made + (i - d_batch_size) ELSE d_batch[i]]
      /\ d_batch_size' = d_batch_size + n /\ made' = made + n
      /\ line_ends' = line_ends \union {made + n}
      /\ cut' = cut /\ logger_at' = "draining" /\ line' = NoLine
      /\ UNCHANGED <<written, result, errno, file, lost>>
    BY <1>1, <1>2 DEF Put, TypeOK
<1>4. /\ made \in Nat /\ d_batch_size \in Nat /\ Base \in Nat /\ made = Base + d_batch_size
      /\ d_batch_size + n \in 1..k_BATCH_SIZE /\ n \in Nat \ {0}
      /\ written = 0 /\ result = NoResult
    <2>1. n \in Nat \ {0} /\ d_batch_size + n \in 1..k_BATCH_SIZE
        <3>1. k_BATCH_SIZE \in Nat /\ d_batch_size \in 0..k_BATCH_SIZE
            BY <1>1, Sizes DEF TypeOK
        <3>2. n \in 1..(k_BATCH_SIZE - d_batch_size)
            BY <1>2 DEF Free
        <3> HIDE DEF n
        <3>3. QED BY <3>1, <3>2
    <2>2. written = 0 /\ result = NoResult
        BY <1>1 DEF FlushState
    <2>3. /\ made \in Nat /\ d_batch_size \in Nat /\ Base \in Nat
          /\ made = Base + d_batch_size
        BY <1>1, Counts
    <2>4. QED BY <2>1, <2>2, <2>3
<1> HIDE DEF n
<1>5. Base' = Base /\ Sent' = Sent
    <2>1. Base' = Base
        BY <1>3, <1>4 DEF Base
    <2>2. QED BY <2>1, <1>3 DEF Sent
<1>6. TypeOK'
    <2>1. \A i \in 1..k_BATCH_SIZE : d_batch[i] \in 0..(made + n)
        BY <1>1, <1>4 DEF TypeOK
    <2>2. \A i \in (d_batch_size + 1)..(d_batch_size + n) :
              made + (i - d_batch_size) \in 0..(made + n)
        BY <1>4
    <2>3. d_batch' \in [1..k_BATCH_SIZE -> 0..made']
        BY <1>3, <2>1, <2>2
    <2>4. 1..made \subseteq 1..made' /\ made + n \in 1..made' /\ made' \in Nat
        BY <1>3, <1>4
    <2>5. file' \in Seq(1..made')
        BY <1>1, <1>3, <2>4 DEF TypeOK
    <2>6. line_ends' \subseteq 1..made' /\ lost' \subseteq 1..made'
        BY <1>1, <1>3, <2>4 DEF TypeOK
    <2>7. d_batch_size' \in 0..k_BATCH_SIZE /\ written' \in 0..d_batch_size'
        BY <1>3, <1>4
    <2>8. QED BY <1>1, <1>3, <2>3, <2>4, <2>5, <2>6, <2>7 DEF TypeOK
<1>7. FlushState'
    BY <1>1, <1>3, <1>4 DEF FlushState, NoResult
<1>8. BatchHolds'
    <2>1. \A i \in 1..(d_batch_size + n) : d_batch'[i] = Base + i
        <3> TAKE i \in 1..(d_batch_size + n)
        <3>1. i \in 1..k_BATCH_SIZE
            BY <1>4, Sizes
        <3>2. CASE i \in (d_batch_size + 1)..(d_batch_size + n)
            BY <3>1, <3>2, <1>3, <1>4
        <3>3. CASE i \notin (d_batch_size + 1)..(d_batch_size + n)
            <4>1. i \in 1..d_batch_size
                BY <3>3, <1>4
            <4>2. d_batch'[i] = d_batch[i]
                BY <3>1, <3>3, <1>3
            <4>3. QED BY <4>1, <4>2, <1>1 DEF BatchHolds
        <3>4. QED BY <3>2, <3>3
    <2>2. QED BY <2>1, <1>1, <1>3, <1>5 DEF BatchHolds
<1>9. FileHolds' /\ ResumesAtALine'
    BY <1>3, <1>5, FileUnchanged
<1>10. QED BY <1>6, <1>7, <1>8, <1>9 DEF BatchInvariant

LEMMA EnterFlushKeeps ==
    ASSUME BatchInvariant, NEW l \in Lines \union {NoLine}, logger_at = "draining",
           EnterFlush(l)
    PROVE  BatchInvariant'
<1>1. TypeOK /\ FlushState /\ BatchHolds
    BY DEF BatchInvariant
<1>2. /\ logger_at' = "writing" /\ written' = 0 /\ line' = l
      /\ UNCHANGED <<d_batch, d_batch_size, result, errno, file, made, line_ends, cut, lost>>
    BY DEF EnterFlush
<1>3. written = 0 /\ result = NoResult
    BY <1>1 DEF FlushState
<1>4. Base' = Base /\ Sent' = Sent
    BY <1>2, <1>3 DEF Base, Sent
<1>5. TypeOK' /\ FlushState' /\ BatchHolds'
    BY <1>1, <1>2, <1>3, <1>4 DEF TypeOK, FlushState, BatchHolds, NoResult
<1>6. QED BY <1>2, <1>4, <1>5, FileUnchanged DEF BatchInvariant

LEMMA MakeLineKeeps ==
    ASSUME BatchInvariant, NEW l \in Lines, MakeLine(l)
    PROVE  BatchInvariant'
<1>1. CASE MustFlush
    BY <1>1, EnterFlushKeeps DEF MakeLine
<1>2. CASE ~MustFlush
    <2>1. Free \in Int
        BY Sizes DEF BatchInvariant, TypeOK, Free
    <2>2. Free >= k_FLUSH_THRESHOLD
        BY <1>2, <2>1, Sizes DEF MustFlush
    <2>3. QED BY <1>2, <2>2, PutKeeps DEF MakeLine
<1>3. QED BY <1>1, <1>2

LEMMA AppendLineKeeps ==
    ASSUME BatchInvariant, AppendLine
    PROVE  BatchInvariant'
<1>1. logger_at = "appending" /\ Put(line) /\ d_batch_size = 0 /\ line \in Lines
    BY DEF AppendLine, BatchInvariant, FlushState, TypeOK
<1>2. Free >= k_FLUSH_THRESHOLD
    BY <1>1, Sizes DEF Free
<1>3. QED BY <1>1, <1>2, PutKeeps

-----------------------------------------------------------------------------
(* Flushing.                                                               *)

\* What write(2) is offered: the characters of the batch after those already sent.
LEMMA OfferIs ==
    ASSUME BatchInvariant, written < d_batch_size
    PROVE  /\ Offer \in Seq(1..made) /\ Len(Offer) = d_batch_size - written
           /\ \A k \in 1..Len(Offer) : Offer[k] = Base + written + k
<1>1. /\ written \in Nat /\ d_batch_size \in Nat /\ k_BATCH_SIZE \in Nat /\ made \in Nat
      /\ written < d_batch_size /\ d_batch_size <= k_BATCH_SIZE
      /\ Base \in Nat /\ made = Base + d_batch_size
    BY Sizes, Counts DEF BatchInvariant, TypeOK
<1>2. \A i \in (written + 1)..d_batch_size : d_batch[i] = Base + i /\ d_batch[i] \in 1..made
    <2>1. \A i \in (written + 1)..d_batch_size : i \in 1..d_batch_size /\ Base + i \in 1..made
        BY <1>1
    <2>2. QED BY <2>1 DEF BatchInvariant, BatchHolds
<1>3. /\ Offer \in Seq(1..made)
      /\ Len(Offer) = IF written + 1 <= d_batch_size THEN d_batch_size - (written + 1) + 1 ELSE 0
      /\ \A k \in 1..(d_batch_size - (written + 1) + 1) : Offer[k] = d_batch[written + 1 + k - 1]
    BY <1>1, <1>2, SubSeqProperties DEF Offer
<1>4. Len(Offer) = d_batch_size - written
    BY <1>1, <1>3
<1>5. \A k \in 1..(d_batch_size - written) :
          /\ k \in 1..(d_batch_size - (written + 1) + 1)
          /\ written + 1 + k - 1 = written + k /\ written + k \in (written + 1)..d_batch_size
          /\ Base + (written + k) = Base + written + k
    BY <1>1
<1>6. \A k \in 1..(d_batch_size - written) : Offer[k] = Base + written + k
    BY <1>2, <1>3, <1>5
<1>7. QED BY <1>3, <1>4, <1>6

\* A call that fails changes only what it returned.
LEMMA FailedWriteKeeps ==
    ASSUME BatchInvariant, logger_at = "writing", result = NoResult, result' = -1,
           written < d_batch_size,
           errno' \in {"EINTR", "EIO"},
           UNCHANGED <<d_batch, d_batch_size, written, logger_at, line, made, line_ends, cut,
                       lost, file>>
    PROVE  BatchInvariant'
<1>1. TypeOK /\ FlushState /\ BatchHolds
    BY DEF BatchInvariant
<1>2. ~(result > 0) /\ ~(result' > 0)
    BY DEF NoResult
<1>3. Base' = Base /\ Sent' = Sent
    BY <1>2 DEF Base, Sent
<1>4. TypeOK' /\ FlushState' /\ BatchHolds'
    BY <1>1, <1>2, <1>3 DEF TypeOK, FlushState, BatchHolds
<1>5. QED BY <1>3, <1>4, FileUnchanged DEF BatchInvariant

\* The characters that a call takes are the next ones, and go to the end of the file.
LEMMA TakenWriteKeeps ==
    ASSUME BatchInvariant, logger_at = "writing", result = NoResult, written < d_batch_size,
           NEW n \in 0..Len(Offer), result' = n, file' = file \o SubSeq(Offer, 1, n),
           UNCHANGED <<errno, d_batch, d_batch_size, written, logger_at, line, made, line_ends,
                       cut, lost>>
    PROVE  BatchInvariant'
<1> DEFINE part == SubSeq(Offer, 1, n)
           len == Len(file)
<1>1. TypeOK /\ FlushState /\ BatchHolds /\ FileHolds /\ ResumesAtALine
    BY DEF BatchInvariant
<1>2. /\ made \in Nat /\ d_batch_size \in Nat /\ written \in Nat /\ Base \in Nat
      /\ Sent \in Base..made /\ made = Base + d_batch_size /\ k_BATCH_SIZE \in Nat
      /\ d_batch_size <= k_BATCH_SIZE
    BY <1>1, Counts, Sizes DEF TypeOK
<1>3. /\ Offer \in Seq(1..made) /\ Len(Offer) = d_batch_size - written
      /\ \A k \in 1..Len(Offer) : Offer[k] = Base + written + k
    BY OfferIs
<1>4. n \in Nat /\ n <= d_batch_size - written
    BY <1>2, <1>3
<1>5. Sent = Base + written
    BY <1>2 DEF Sent, NoResult
<1>6. Base' = Base /\ Sent' = Sent + n
    <2>1. Base' = Base
        BY DEF Base
    <2>2. Sent' = Base + written + (IF n > 0 THEN n ELSE 0)
        BY <2>1 DEF Sent
    <2>3. QED BY <2>1, <2>2, <1>2, <1>4, <1>5
<1>7. /\ part \in Seq(1..made) /\ Len(part) = n
      /\ \A k \in 1..n : part[k] = Sent + k
    <2>1. part \in Seq(1..made) /\ Len(part) = n /\ \A k \in 1..n : part[k] = Offer[k]
        <3>1. \A i \in 1..n : i \in 1..Len(Offer)
            BY <1>2, <1>3, <1>4
        <3>2. \A i \in 1..n : Offer[i] \in 1..made
            BY <3>1, <1>3, ElementOfSeq
        <3>3. /\ part \in Seq(1..made) /\ Len(part) = IF 1 <= n THEN n - 1 + 1 ELSE 0
              /\ \A k \in 1..(n - 1 + 1) : part[k] = Offer[1 + k - 1]
            BY <1>4, <3>2, SubSeqProperties
        <3>4. n - 1 + 1 = n /\ \A k \in 1..n : 1 + k - 1 = k
            BY <1>4
        <3>5. (IF 1 <= n THEN n ELSE 0) = n
            BY <1>4
        <3>6. QED BY <3>3, <3>4, <3>5
    <2>2. \A k \in 1..n : k \in 1..Len(Offer)
        BY <1>2, <1>3, <1>4
    <2>3. QED BY <2>1, <2>2, <1>3, <1>5
<1> HIDE DEF part
<1>8. file \in Seq(1..made) /\ len \in Nat /\ file' = file \o part
    BY <1>1 DEF TypeOK, part
<1>9. /\ file' \in Seq(1..made) /\ Len(file') = len + n
      /\ \A i \in 1..len : file'[i] = file[i]
      /\ \A k \in 1..n : file'[len + k] = part[k]
    <2>1. /\ file' \in Seq(1..made) /\ Len(file') = len + n
          /\ \A i \in 1..(len + n) : file'[i] = IF i <= len THEN file[i] ELSE part[i - len]
        <3>1. part \in Seq(1..made) /\ file \in Seq(1..made)
            BY <1>7, <1>8
        <3>2. /\ file \o part \in Seq(1..made)
              /\ Len(file \o part) = Len(file) + Len(part)
              /\ \A i \in 1..(Len(file) + Len(part)) :
                    (file \o part)[i] = IF i <= Len(file) THEN file[i] ELSE part[i - Len(file)]
            BY <3>1, ConcatProperties
        <3>3. file' = file \o part /\ Len(part) = n
            BY <1>7, <1>8
        <3>4. QED BY <3>2, <3>3
    <2>2. \A i \in 1..len : i \in 1..(len + n) /\ i <= len
        BY <1>4, <1>8
    <2>3. \A k \in 1..n : len + k \in 1..(len + n) /\ ~(len + k <= len) /\ (len + k) - len = k
        BY <1>4, <1>8
    <2>4. QED BY <2>1, <2>2, <2>3
<1>10. \A k \in 1..n : file'[len + k] = Sent + k
    BY <1>7, <1>9
<1>11. \A i \in 1..(len + n) : i \in 1..len \/ \E k \in 1..n : i = len + k
    <2> TAKE i \in 1..(len + n)
    <2>1. CASE i <= len
        BY <2>1, <1>4, <1>8
    <2>2. CASE i > len
        <3>1. i - len \in 1..n /\ i = len + (i - len)
            BY <2>2, <1>4, <1>8
        <3>2. QED BY <3>1
    <2>3. QED BY <2>1, <2>2, <1>4, <1>8
<1>12. \A i \in 1..len : file[i] \in 1..Sent
    <2>1. \A i \in 1..len : file[i] \in ToSet(file)
        BY <1>8 DEF ToSet
    <2>2. QED BY <2>1, <1>1 DEF FileHolds
<1>13. TypeOK'
    <2>1. result' \in {NoResult, -1} \union 0..k_BATCH_SIZE
        BY <1>2, <1>4
    <2>2. QED BY <1>1, <1>9, <2>1 DEF TypeOK
<1>14. FlushState'
    BY <1>1, <1>2, <1>4 DEF FlushState
<1>15. BatchHolds'
    BY <1>1, <1>6 DEF BatchHolds
<1>16. \A i \in 2..(len + n) : file'[i - 1] < file'[i]
    <2> TAKE i \in 2..(len + n)
    <2>1. i - 1 \in 1..(len + n) /\ i \in 1..(len + n)
        BY <1>4, <1>8
    <2>2. CASE i \in 1..len
        <3>1. i \in 2..len /\ i - 1 \in 1..len
            BY <2>2, <1>8
        <3>2. QED BY <3>1, <2>2, <1>1, <1>9 DEF FileHolds
    <2>3. ASSUME NEW k \in 1..n, i = len + k PROVE file'[i - 1] < file'[i]
        <3>1. file'[i] = Sent + k
            BY <2>3, <1>10
        <3>2. CASE k = 1
            <4>1. i - 1 \in 1..len
                BY <2>1, <2>3, <3>2, <1>8
            <4>2. file'[i - 1] \in 1..Sent
                BY <4>1, <1>9, <1>12
            <4>3. \A c \in 1..Sent : c < Sent + 1
                BY <1>2
            <4>4. QED BY <3>1, <3>2, <4>2, <4>3
        <3>3. CASE k # 1
            <4>1. k - 1 \in 1..n /\ i - 1 = len + (k - 1)
                BY <2>3, <3>3, <1>4, <1>8
            <4>2. file'[i - 1] = Sent + (k - 1)
                BY <4>1, <1>10
            <4>3. QED BY <3>1, <4>1, <4>2, <1>2
        <3>4. QED BY <3>2, <3>3
    <2>4. QED BY <2>1, <2>2, <2>3, <1>11
<1>17. ToSet(file') = ToSet(file) \union (Sent + 1)..(Sent + n)
    <2>1. DOMAIN file' = 1..(len + n) /\ DOMAIN file = 1..len
        BY <1>8, <1>9
    <2>2. \A i \in 1..(len + n) : file'[i] \in ToSet(file) \union (Sent + 1)..(Sent + n)
        <3> TAKE i \in 1..(len + n)
        <3>1. CASE i \in 1..len
            BY <3>1, <2>1, <1>9 DEF ToSet
        <3>2. ASSUME NEW k \in 1..n, i = len + k PROVE file'[i] \in (Sent + 1)..(Sent + n)
            BY <3>2, <1>2, <1>4, <1>10
        <3>3. QED BY <3>1, <3>2, <1>11
    <2>3. \A i \in 1..len : i \in 1..(len + n) /\ file[i] = file'[i]
        BY <1>4, <1>8, <1>9
    <2>4. \A c \in (Sent + 1)..(Sent + n) :
              len + (c - Sent) \in 1..(len + n) /\ file'[len + (c - Sent)] = c
        <3> TAKE c \in (Sent + 1)..(Sent + n)
        <3>1. c - Sent \in 1..n /\ Sent + (c - Sent) = c
            BY <1>2, <1>4
        <3>2. file'[len + (c - Sent)] = c
            BY <3>1, <1>10
        <3>3. len + (c - Sent) \in 1..(len + n)
            BY <3>1, <1>4, <1>8
        <3>4. QED BY <3>2, <3>3
    <2>5. /\ ToSet(file') = {file'[i] : i \in 1..(len + n)}
          /\ ToSet(file) = {file[i] : i \in 1..len}
        BY <2>1 DEF ToSet
    <2> DEFINE taken == (Sent + 1)..(Sent + n)
    <2> HIDE DEF taken, len
    <2>6. /\ \A i \in 1..(len + n) : file'[i] \in ToSet(file) \union taken
          /\ \A c \in taken : \E i \in 1..(len + n) : file'[i] = c
          /\ \A i \in 1..len : \E j \in 1..(len + n) : file[i] = file'[j]
        BY <2>2, <2>3, <2>4 DEF taken
    <2>7. ToSet(file') = ToSet(file) \union taken
        <3>1. ToSet(file') \subseteq ToSet(file) \union taken
            <4>1. \A c \in ToSet(file') : c \in ToSet(file) \union taken
                <5> TAKE c \in ToSet(file')
                <5>1. PICK i \in 1..(len + n) : file'[i] = c
                    BY <2>5
                <5>2. QED BY <5>1, <2>6
            <4>2. QED BY <4>1
        <3>2. ToSet(file) \subseteq ToSet(file')
            BY <2>5, <2>6
        <3>3. taken \subseteq ToSet(file')
            <4>1. \A c \in taken : c \in ToSet(file')
                <5> TAKE c \in taken
                <5>1. PICK i \in 1..(len + n) : file'[i] = c
                    BY <2>6
                <5>2. QED BY <5>1, <2>5
            <4>2. QED BY <4>1
        <3>4. QED BY <3>1, <3>2, <3>3
    <2>8. QED BY <2>7 DEF taken
<1>18. FileHolds'
    <2>1. Sent' > Base' => file' # <<>> /\ file'[Len(file')] = Sent'
        <3>1. CASE n = 0
            <4>1. Sent' = Sent /\ Len(file') = len
                BY <3>1, <1>2, <1>6, <1>8, <1>9
            <4>2. Sent > Base => len # 0 /\ file[len] = Sent
                BY <1>1, <1>8 DEF FileHolds
            <4>3. Sent > Base => len \in 1..len
                BY <4>2, <1>8
            <4>4. QED BY <4>1, <4>2, <4>3, <1>6, <1>9
        <3>2. CASE n # 0
            <4>1. n \in 1..n /\ len + n # 0
                BY <3>2, <1>4, <1>8
            <4>2. QED BY <4>1, <1>6, <1>9, <1>10
        <3>3. QED BY <3>1, <3>2
    <2>2. ToSet(file') \union lost = 1..(Sent + n)
        <3>1. (1..Sent) \union (Sent + 1)..(Sent + n) = 1..(Sent + n)
            BY <1>2, <1>4
        <3>2. QED BY <3>1, <1>1, <1>17 DEF FileHolds
    <2>3. Len(file') + Cardinality(lost) = Sent + n
        <3>1. len + Cardinality(lost) = Sent
            BY <1>1 DEF FileHolds
        <3> DEFINE gone == Cardinality(lost)
        <3>2. /\ gone \in Nat /\ len \in Nat /\ n \in Nat
              /\ len + gone = Sent /\ Len(file') = len + n
            BY <3>1, <1>1, <1>4, <1>8, <1>9, LostIsFinite
        <3> HIDE DEF len, gone
        <3>3. (len + n) + gone = (len + gone) + n
            BY <3>2
        <3>4. Len(file') + gone = Sent + n
            BY <3>2, <3>3
        <3>5. QED BY <3>4 DEF gone
    <2>4. QED BY <1>6, <1>9, <1>16, <2>1, <2>2, <2>3 DEF FileHolds
<1>19. ResumesAtALine'
    <2> SUFFICES ASSUME NEW i \in 1..(len + n)
                 PROVE  LET before == IF i = 1 THEN 0 ELSE file'[i - 1]
                        IN  file'[i] # before + 1 => file'[i] - 1 \in line_ends
        <3>1. DOMAIN file' = 1..(len + n)
            BY <1>9, LenProperties
        <3>2. QED BY <3>1 DEF ResumesAtALine
    <2>1. CASE i \in 1..len
        <3>1. i # 1 => i - 1 \in 1..len
            BY <2>1, <1>8
        <3>2. DOMAIN file = 1..len
            BY <1>8
        <3>3. QED BY <2>1, <3>1, <3>2, <1>1, <1>9 DEF ResumesAtALine
    <2>2. ASSUME NEW k \in 1..n, i = len + k
          PROVE  LET before == IF i = 1 THEN 0 ELSE file'[i - 1]
                 IN  file'[i] # before + 1 => file'[i] - 1 \in line_ends
        <3>1. file'[i] = Sent + k
            BY <2>2, <1>10
        <3>2. CASE k # 1
            <4>1. k - 1 \in 1..n /\ i - 1 = len + (k - 1) /\ i # 1
                BY <2>2, <3>2, <1>4, <1>8
            <4>2. file'[i - 1] = Sent + (k - 1)
                BY <4>1, <1>10
            <4>3. QED BY <3>1, <4>1, <4>2, <1>2
        <3>3. CASE k = 1 /\ Sent > Base
            <4>1. len \in 1..len /\ file[len] = Sent
                BY <3>3, <1>1, <1>8 DEF FileHolds
            <4>2. i - 1 = len /\ i # 1 /\ file'[len] = Sent
                BY <2>2, <3>3, <4>1, <1>8, <1>9
            <4>3. file'[i - 1] = Sent /\ file'[i] = Sent + 1
                BY <3>1, <3>3, <4>2
            <4>4. QED BY <4>2, <4>3
        <3>4. CASE k = 1 /\ Sent = Base /\ Base \in line_ends
            <4>1. file'[i] = Base + 1
                BY <3>1, <3>4
            <4>2. (Base + 1) - 1 = Base
                BY <1>2
            <4>3. QED BY <4>1, <4>2, <3>4
        <3>5. CASE k = 1 /\ Sent = Base /\ Base = 0
            <4>1. len = 0
                <5>1. SUFFICES ASSUME len # 0 PROVE FALSE
                    OBVIOUS
                <5>2. 1 \in 1..len
                    BY <5>1, <1>8
                <5>3. file[1] \in 1..Sent
                    BY <5>2, <1>12
                <5>4. QED BY <5>3, <3>5
            <4>2. QED BY <2>2, <3>1, <3>5, <4>1
        <3>6. QED BY <3>2, <3>3, <3>4, <3>5, <1>1, <1>2 DEF BatchHolds
    <2>3. QED BY <2>1, <2>2, <1>11
<1>20. QED BY <1>13, <1>14, <1>15, <1>18, <1>19 DEF BatchInvariant

LEMMA WriteKeeps == ASSUME BatchInvariant, Write PROVE BatchInvariant'
<1>1. ASSUME NEW n \in 0..Len(Offer), result' = n, file' = file \o SubSeq(Offer, 1, n),
             UNCHANGED errno
      PROVE  BatchInvariant'
    BY <1>1, TakenWriteKeeps DEF Write
<1>2. ASSUME NEW why \in {"EINTR", "EIO"}, result' = -1, errno' = why, UNCHANGED file
      PROVE  BatchInvariant'
    BY <1>2, FailedWriteKeeps DEF Write
<1>3. QED BY <1>1, <1>2 DEF Write

\* Taking note of what a call returned sends nothing.
LEMMA NotedKeeps ==
    ASSUME BatchInvariant, GoOn \/ Retry
    PROVE  BatchInvariant'
<1>1. TypeOK /\ FlushState /\ BatchHolds
    BY DEF BatchInvariant
<1>2. /\ written \in Nat /\ d_batch_size \in Nat /\ result \in Int /\ Base \in Nat
    BY <1>1, Counts
<1>3. /\ result' = NoResult /\ logger_at = "writing"
      /\ written' = written + (IF result > 0 THEN result ELSE 0)
      /\ UNCHANGED <<d_batch, d_batch_size, errno, logger_at, line, file,
                     made, line_ends, cut, lost>>
    <2>1. CASE GoOn
        BY <2>1 DEF GoOn
    <2>2. CASE Retry
        BY <2>2, <1>2 DEF Retry
    <2>3. QED BY <2>1, <2>2
<1>4. ~(result' > 0)
    BY <1>3 DEF NoResult
<1>5. Base' = Base /\ Sent' = Sent
    <2>1. Base' = Base
        BY <1>3 DEF Base
    <2>2. CASE result > 0
        BY <2>1, <2>2, <1>2, <1>3, <1>4 DEF Sent
    <2>3. CASE ~(result > 0)
        BY <2>1, <2>3, <1>2, <1>3, <1>4 DEF Sent
    <2>4. QED BY <2>2, <2>3
<1>6. written' \in 0..d_batch_size
    BY <1>1, <1>2, <1>3 DEF TypeOK, FlushState
<1>7. TypeOK' /\ FlushState' /\ BatchHolds'
    BY <1>1, <1>3, <1>4, <1>5, <1>6 DEF TypeOK, FlushState, BatchHolds
<1>8. QED BY <1>3, <1>5, <1>7, FileUnchanged DEF BatchInvariant

\* The end of a flush: what was not sent is lost, and the next batch starts after it.
LEMMA LeaveFlushKeeps ==
    ASSUME BatchInvariant, logger_at = "writing", ~(result > 0), LeaveFlush,
           lost' = lost \union (Sent + 1)..made
    PROVE  BatchInvariant'
<1> DEFINE rest == (Sent + 1)..made
<1>1. TypeOK /\ FlushState /\ BatchHolds /\ FileHolds /\ ResumesAtALine
    BY DEF BatchInvariant
<1>2. /\ made \in Nat /\ d_batch_size \in Nat /\ Base \in Nat /\ Sent \in Nat
      /\ Sent <= made /\ made = Base + d_batch_size
    BY <1>1, Counts
<1>3. /\ d_batch_size' = 0 /\ written' = 0 /\ result' = NoResult
      /\ logger_at' \in {"draining", "appending"}
      /\ logger_at' = "appending" => line' # NoLine
      /\ UNCHANGED <<d_batch, errno, line, file, made, line_ends, cut>>
    BY DEF LeaveFlush
<1>4. Base' = made /\ Sent' = made
    BY <1>2, <1>3 DEF Base, Sent, NoResult
<1>5. lost' \subseteq 1..made
    BY <1>1, <1>2 DEF TypeOK
<1>6. TypeOK'
    BY <1>1, <1>3, <1>5, Sizes DEF TypeOK
<1>7. FlushState'
    BY <1>2, <1>3 DEF FlushState, NoResult
<1>8. BatchHolds'
    <2>1. made = 0 \/ made \in line_ends
        BY <1>1, <1>2 DEF BatchHolds
    <2>2. QED BY <2>1, <1>1, <1>3, <1>4 DEF BatchHolds
<1>9. FileHolds'
    <2>1. ToSet(file) \union lost' = 1..made
        <3>1. (1..Sent) \union rest = 1..made
            BY <1>2
        <3>2. QED BY <3>1, <1>1 DEF FileHolds
    <2>2. Cardinality(lost') = Cardinality(lost) + (made - Sent)
        <3>1. IsFiniteSet(lost) /\ IsFiniteSet(rest)
            BY <1>1, <1>2, LostIsFinite, SizeOfRest
        <3>2. lost \intersect rest = {}
            BY <1>1, <1>2 DEF FileHolds
        <3>3. Cardinality(rest) = made - Sent
            BY <1>2, SizeOfRest
        <3>4. Cardinality(lost') = Cardinality(lost) + Cardinality(rest)
                                     - Cardinality(lost \intersect rest)
            BY <3>1, FS_Union
        <3>5. Cardinality(lost) \in Nat /\ Cardinality(lost \intersect rest) = 0
            BY <3>1, <3>2, FS_CardinalityType, FS_EmptySet
        <3> HIDE DEF rest
        <3>6. QED BY <3>3, <3>4, <3>5, <1>2
    <2>3. Len(file) + Cardinality(lost) = Sent
        BY <1>1 DEF FileHolds
    <2>4. Len(file) \in Nat /\ Cardinality(lost) \in Nat
        BY <1>1, LostIsFinite
    <2>5. Len(file) + Cardinality(lost') = made
        BY <2>2, <2>3, <2>4, <1>2
    <2>6. QED BY <2>1, <2>5, <1>1, <1>2, <1>3, <1>4 DEF FileHolds
<1>10. ResumesAtALine'
    BY <1>1, <1>3 DEF ResumesAtALine
<1>11. QED BY <1>6, <1>7, <1>8, <1>9, <1>10 DEF BatchInvariant

LEMMA GiveUpKeeps == ASSUME BatchInvariant, GiveUp PROVE BatchInvariant'
<1>1. /\ result \in {-1, 0} /\ logger_at = "writing" /\ LeaveFlush
      /\ lost' = lost \union ToSet(Offer)
    BY DEF GiveUp
<1>2. written < d_batch_size
    BY <1>1 DEF BatchInvariant, FlushState, NoResult
<1>3. /\ made \in Nat /\ d_batch_size \in Nat /\ written \in Nat /\ Base \in Nat
      /\ made = Base + d_batch_size
    BY Counts DEF BatchInvariant
<1>4. Sent = Base + written
    BY <1>1, <1>3 DEF Sent
<1>5. /\ Offer \in Seq(1..made) /\ Len(Offer) = d_batch_size - written
      /\ \A k \in 1..Len(Offer) : Offer[k] = Sent + k
    BY <1>2, <1>4, OfferIs
<1>6. ToSet(Offer) = (Sent + 1)..made
    <2>1. DOMAIN Offer = 1..Len(Offer)
        BY <1>5, LenProperties
    <2>2. \A k \in 1..Len(Offer) : Offer[k] \in (Sent + 1)..made
        BY <1>3, <1>4, <1>5
    <2>3. \A c \in (Sent + 1)..made : c - Sent \in 1..Len(Offer) /\ Offer[c - Sent] = c
        <3> TAKE c \in (Sent + 1)..made
        <3>1. c - Sent \in 1..Len(Offer) /\ Sent + (c - Sent) = c
            BY <1>2, <1>3, <1>4, <1>5
        <3>2. QED BY <3>1, <1>5
    <2>4. QED BY <2>1, <2>2, <2>3 DEF ToSet
<1>7. ~(result > 0)
    BY <1>1
<1>8. QED BY <1>1, <1>6, <1>7, LeaveFlushKeeps

LEMMA WrittenKeeps == ASSUME BatchInvariant, Written PROVE BatchInvariant'
<1>1. /\ result = NoResult /\ logger_at = "writing" /\ LeaveFlush /\ lost' = lost
      /\ written >= d_batch_size
    BY DEF Written
<1>2. ~(result > 0)
    BY <1>1 DEF NoResult
<1>3. written = d_batch_size
    BY <1>1, Sizes DEF BatchInvariant, TypeOK
<1>4. Sent = made /\ made \in Nat
    BY <1>2, <1>3, Counts DEF BatchInvariant, Sent
<1>5. (Sent + 1)..made = {}
    BY <1>4
<1>6. QED BY <1>1, <1>2, <1>5, LeaveFlushKeeps

-----------------------------------------------------------------------------
(* The theorems.                                                           *)

LEMMA StepKeeps == BatchInvariant /\ [Next]_vars => BatchInvariant'
<1> SUFFICES ASSUME BatchInvariant, [Next]_vars PROVE BatchInvariant'
    OBVIOUS
<1>1. ASSUME NEW l \in Lines, MakeLine(l) PROVE BatchInvariant'
    BY <1>1, MakeLineKeeps
<1>2. CASE AppendLine
    BY <1>2, AppendLineKeeps
<1>3. CASE EndPass
    BY <1>3, EnterFlushKeeps DEF EndPass
<1>4. CASE Write
    BY <1>4, WriteKeeps
<1>5. CASE GoOn \/ Retry
    BY <1>5, NotedKeeps
<1>6. CASE GiveUp
    BY <1>6, GiveUpKeeps
<1>7. CASE Written
    BY <1>7, WrittenKeeps
<1>8. CASE UNCHANGED vars
    <2>1. UNCHANGED <<d_batch, d_batch_size, written, result, errno, logger_at, line, file,
                      made, line_ends, cut, lost>>
        BY <1>8 DEF vars
    <2>2. Base' = Base /\ Sent' = Sent
        BY <2>1 DEF Base, Sent
    <2>3. TypeOK' /\ FlushState' /\ BatchHolds'
        BY <2>1, <2>2 DEF BatchInvariant, TypeOK, FlushState, BatchHolds
    <2>4. QED BY <2>1, <2>2, <2>3, FileUnchanged DEF BatchInvariant
<1>9. QED BY <1>1, <1>2, <1>3, <1>4, <1>5, <1>6, <1>7, <1>8 DEF Next, Flush

LEMMA BatchIsWhole == Spec => []BatchInvariant
<1> QED BY InitIsWhole, StepKeeps, PTL DEF Spec

\* Every variable keeps its type; so no line is written past the end of the batch, and
\* a call of write(2) is never counted past what it was given (:650-683, :690-705).
THEOREM BatchStaysInBounds == Spec => []TypeOK
<1>1. BatchInvariant => TypeOK
    BY DEF BatchInvariant
<1>2. QED BY <1>1, BatchIsWhole, PTL

\* A character is in the file, waiting, or lost, and in only one of them; the file has
\* its characters in the order of the lines (:690-705).
THEOREM NoCharacterTwice == Spec => []EachCharacterIsOnce
<1>1. BatchInvariant => EachCharacterIsOnce
    <2> SUFFICES ASSUME BatchInvariant PROVE EachCharacterIsOnce
        OBVIOUS
    <2>1. TypeOK /\ FlushState /\ BatchHolds /\ FileHolds
        BY DEF BatchInvariant
    <2> DEFINE first == written + 1 + (IF result > 0 THEN result ELSE 0)
    <2>2. /\ made \in Nat /\ d_batch_size \in Nat /\ Base \in Nat /\ Sent \in Nat
          /\ Sent <= made /\ made = Base + d_batch_size
          /\ first \in Nat \ {0} /\ Base + first = Sent + 1
        <3>1. /\ made \in Nat /\ d_batch_size \in Nat /\ Base \in Nat /\ Sent \in Nat
              /\ Sent <= made /\ made = Base + d_batch_size /\ written \in Nat /\ result \in Int
            BY <2>1, Counts
        <3>2. CASE result > 0
            BY <3>1, <3>2 DEF Sent
        <3>3. CASE ~(result > 0)
            BY <3>1, <3>3 DEF Sent
        <3>4. QED BY <3>1, <3>2, <3>3
    <2>3. Waiting = {d_batch[i] : i \in first..d_batch_size}
        BY DEF Waiting
    <2> HIDE DEF first
    <2>4. Waiting = (Sent + 1)..made
        <3>1. \A i \in first..d_batch_size : d_batch[i] = Base + i /\ Base + i \in (Sent + 1)..made
            BY <2>1, <2>2 DEF BatchHolds
        <3>2. \A c \in (Sent + 1)..made : c - Base \in first..d_batch_size /\ Base + (c - Base) = c
            BY <2>2
        <3>3. QED BY <2>3, <3>1, <3>2
    <2>5. ToSet(file) \union Waiting \union lost = 1..made
        <3>1. (1..Sent) \union (Sent + 1)..made = 1..made
            BY <2>2
        <3>2. QED BY <3>1, <2>1, <2>4 DEF FileHolds
    <2>6. Len(file) + Cardinality(Waiting) + Cardinality(lost) = made
        <3>1. Cardinality(Waiting) = made - Sent
            BY <2>2, <2>4, SizeOfRest
        <3>2. Len(file) + Cardinality(lost) = Sent
            BY <2>1 DEF FileHolds
        <3>3. Len(file) \in Nat /\ Cardinality(lost) \in Nat
            BY <2>1, LostIsFinite
        <3>4. QED BY <3>1, <3>2, <3>3, <2>2
    <2>7. QED BY <2>1, <2>5, <2>6 DEF EachCharacterIsOnce, FileHolds
<1>2. QED BY <1>1, BatchIsWhole, PTL

\* After a failed write the file goes on with the start of a line (:650-652, :701-707).
THEOREM FileResumesAtALine == Spec => []ResumesAtALine
<1>1. BatchInvariant => ResumesAtALine
    BY DEF BatchInvariant
<1>2. QED BY <1>1, BatchIsWhole, PTL

\* No line is cut for want of room, and the batch ends with a newline (:227-231, :659-662).
THEOREM BatchHoldsWholeLines == Spec => []LinesAreWhole
<1>1. BatchInvariant => LinesAreWhole
    <2> SUFFICES ASSUME BatchInvariant PROVE LinesAreWhole
        OBVIOUS
    <2>1. BatchHolds /\ made \in Nat /\ d_batch_size \in Nat /\ made = Base + d_batch_size
        BY Counts DEF BatchInvariant
    <2>2. d_batch_size > 0 => d_batch[d_batch_size] = made
        BY <2>1 DEF BatchHolds
    <2>3. QED BY <2>1, <2>2 DEF LinesAreWhole, BatchHolds
<1>2. QED BY <1>1, BatchIsWhole, PTL
=============================================================================
