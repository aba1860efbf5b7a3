------------------------------ MODULE SpscFifo ------------------------------
(***************************************************************************)
(* What SpscRing (core_spsc_ring.h) promises its two threads: a bounded    *)
(* first-in first-out queue between one producer and one consumer, whose   *)
(* two ends may lag behind each other.                                     *)
(*                                                                         *)
(* The lag is part of the promise.  The producer may not have learnt yet   *)
(* of the latest pops ([unseen_pops]), so it may find a ring full that is  *)
(* not; the consumer may not have learnt yet of the latest pushes          *)
(* ([views]), so it may find a ring empty that is not.  Neither may ever   *)
(* be wrong the other way, and neither forgets what it has learnt.         *)
(***************************************************************************)
EXTENDS Integers, Sequences

CONSTANTS
    Capacity,   \* number of values a full ring holds
    Values,     \* the values threads push
    Batches     \* the sequences of values a push is asked to take

VARIABLES
    queue,        \* the values pushed and not popped yet, oldest first
    views,        \* the lengths at which the consumer may still see [queue]
    unseen_pops,  \* number of pops the producer has not learnt of yet
    offered,      \* the values of the push in progress, <<>> if none is
    push_answer,  \* what the last push answered
    pop_answer    \* what the last pop answered: <<value>>, or <<>> for nothing

fifo_vars == <<queue, views, unseen_pops, offered, push_answer, pop_answer>>

Init ==
    /\ queue = <<>>
    /\ views = {0}
    /\ unseen_pops = 0
    /\ offered = <<>>
    /\ push_answer = FALSE
    /\ pop_answer = <<>>

-----------------------------------------------------------------------------
(* The producer.                                                           *)

\* A push that could fit begins.
Offer(batch) ==
    /\ offered = <<>>
    /\ Len(batch) \in 1..Capacity
    /\ offered' = batch
    /\ UNCHANGED <<queue, views, unseen_pops, push_answer, pop_answer>>

\* A push answered at once: no values are always taken, and more values than
\* the ring holds never are.
OfferNeedsNoRoom(batch) ==
    /\ offered = <<>>
    /\ Len(batch) \notin 1..Capacity
    /\ push_answer' = (batch = <<>>)
    /\ UNCHANGED <<queue, views, unseen_pops, offered, pop_answer>>

\* The whole batch enters the queue, in order and at once.
Accept ==
    /\ offered # <<>>
    /\ Len(queue) + unseen_pops + Len(offered) <= Capacity
    /\ queue' = queue \o offered
    /\ views' = views \union {Len(queue) + Len(offered)}
    /\ offered' = <<>>
    /\ push_answer' = TRUE
    /\ UNCHANGED <<unseen_pops, pop_answer>>

\* The push changes nothing: as far as the producer can tell, after it has
\* looked once more, the ring has no room for it.
Refuse ==
    /\ offered # <<>>
    /\ unseen_pops' \in 0..unseen_pops
    /\ Len(queue) + unseen_pops' + Len(offered) > Capacity
    /\ offered' = <<>>
    /\ push_answer' = FALSE
    /\ UNCHANGED <<queue, views, pop_answer>>

LearnPops ==
    /\ unseen_pops' \in 0..unseen_pops
    /\ UNCHANGED <<queue, views, offered, push_answer, pop_answer>>

-----------------------------------------------------------------------------
(* The consumer.                                                           *)

\* The oldest value leaves the queue; the consumer must know it is there.
Pop ==
    /\ 0 \notin views
    /\ pop_answer' = <<Head(queue)>>
    /\ queue' = Tail(queue)
    /\ views' = {length - 1 : length \in views}
    /\ unseen_pops' = unseen_pops + 1
    /\ UNCHANGED <<offered, push_answer>>

\* Nothing to pop, as far as the consumer can tell.
PopNothing ==
    /\ 0 \in views
    /\ pop_answer' = <<>>
    /\ UNCHANGED <<queue, views, unseen_pops, offered, push_answer>>

LearnPushes ==
    /\ \E seen \in views : views' = {length \in views : length >= seen}
    /\ UNCHANGED <<queue, unseen_pops, offered, push_answer, pop_answer>>

-----------------------------------------------------------------------------
Next ==
    \/ \E batch \in Batches : Offer(batch) \/ OfferNeedsNoRoom(batch)
    \/ Accept \/ Refuse \/ LearnPops
    \/ Pop \/ PopNothing \/ LearnPushes

Spec == Init /\ [][Next]_fifo_vars
=============================================================================
