------------------------------ MODULE Handles -------------------------------
(***************************************************************************)
(* The callers of a Logger: threads that register in some function, keep,  *)
(* move, return and lose the Logger::Handle they got (core_log.h), and     *)
(* functions that fail, whose error the macros of core_error.h return from *)
(* one caller to the next while the locals on the way are destroyed.       *)
(*                                                                         *)
(* A thread is the stack of the functions it is in; a function is its      *)
(* locals in the order they were constructed.  What functions do otherwise *)
(* is left out, and so is what Logger models: which slot a producer is in, *)
(* and its ring.  The macros return a Result, so they compile in every     *)
(* function but the outermost, whose caller takes none.                    *)
(***************************************************************************)
EXTENDS Naturals, Sequences, FiniteSets, SequencesExt

CONSTANTS
    Threads,
    Errors,             \* what functions fail with, other than to register
    Null,
    k_MAX_THREADS,
    MaxRegistrations,   \* bound: registrations tried by one thread
    MaxRecords,         \* bound: records logged through one producer
    MaxDepth,           \* bound: functions a thread is in
    MaxLocals           \* bound: locals of a function

ASSUME HandlesAssumption ==
    /\ {k_MAX_THREADS, MaxRegistrations, MaxRecords, MaxDepth, MaxLocals} \subseteq Nat
    /\ k_MAX_THREADS > 0 /\ MaxDepth > 0 /\ MaxLocals > 1

VARIABLES
    frames,         \* the functions each thread is in, the outermost first
    returning,      \* what a function returns, while its locals are destroyed
    returned,       \* what a call has returned to the statement that made it
    life,           \* "none", "live", "closed" or "freed": of each producer
    registrations,  \* number of times each thread has tried to register
    logged,         \* history: the records logged through each producer
    unseen          \* history: the error that no caller of a thread's has seen yet

vars == <<frames, returning, returned, life, registrations, logged, unseen>>

Producers == Threads \X (1..MaxRegistrations)
InSlots == {p \in Producers : life[p] \in {"live", "closed"}}

-----------------------------------------------------------------------------
(* Objects.  A Result holds a handle or an error, and a Status an error or *)
(* nothing.  (An operator named X_Fault is X with a bug, for showing that  *)
(* a property detects it; nothing else uses it.)                           *)

NoError == <<>>
TooManyThreads == <<"e_EXHAUSTED", "e_LOG_TOO_MANY_THREADS", k_MAX_THREADS>>

ASSUME NullAssumption ==
    /\ Null \notin Threads \union Producers \union Errors \union {NoError, TooManyThreads}
    /\ NoError \notin Errors

Handle(p, t) == [d_producer_p |-> p, d_owner |-> t, error |-> NoError]
Success == [d_producer_p |-> Null, d_owner |-> Null, error |-> NoError]
Failure(error) == [Success EXCEPT !.error = error]

Nothing == [Success EXCEPT !.error = Null]

HasHandle(object) == object.d_owner # Null
HoldsProducer(object) == object.d_producer_p # Null
Failed(object) == object.error # NoError

\* What a move constructor makes, and what it leaves behind.
Moved_OwnedByMover(object, t) == [object EXCEPT !.d_owner = t]
Moved(object, t) == object
MovedFrom_KeepsPointer(object) == object
MovedFrom(object) == [object EXCEPT !.d_producer_p = Null]

\* The producers once an object has been destroyed.
Destroyed(object) ==
    IF HoldsProducer(object) THEN [life EXCEPT ![object.d_producer_p] = "closed"] ELSE life

Object ==
    [d_producer_p : Producers \union {Null}, d_owner : Threads \union {Null},
     error : Errors \union {NoError, TooManyThreads, Null}]

Init ==
    /\ frames = [t \in Threads |-> <<<<>>>>]
    /\ returning = [t \in Threads |-> Nothing]
    /\ returned = [t \in Threads |-> Nothing]
    /\ life = [p \in Producers |-> "none"]
    /\ registrations = [t \in Threads |-> 0]
    /\ logged = [p \in Producers |-> 0]
    /\ unseen = [t \in Threads |-> NoError]

-----------------------------------------------------------------------------
(* Where a thread is.                                                      *)

Depth(t) == Len(frames[t])
locals(t) == Last(frames[t])

\* Between two statements, and inside the statement around a call.
Running(t) == Depth(t) > 0 /\ returning[t] = Nothing /\ returned[t] = Nothing
HasResult(t) == returned[t] # Nothing
ReturnsResult(t) == Depth(t) > 1

\* Room for what a statement constructs.
HasRoom(t, n) == Len(locals(t)) + n <= MaxLocals

LocalsBecome(t, objects) == frames' = [frames EXCEPT ![t][Depth(t)] = objects]

-----------------------------------------------------------------------------
(* Calls.                                                                  *)

Call(t) ==
    /\ Running(t) /\ HasRoom(t, 1) /\ Depth(t) < MaxDepth
    /\ frames' = [frames EXCEPT ![t] = Append(@, <<>>)]
    /\ UNCHANGED <<returning, returned, life, registrations, logged, unseen>>

\* register_current_thread: a handle is made, moved into the Result, and what is
\* left of it destroyed.
RoomForThread_OneTooMany == Cardinality(InSlots) <= k_MAX_THREADS
RoomForThread == Cardinality(InSlots) < k_MAX_THREADS

Register(t) ==
    LET p == <<t, registrations'[t]>> IN
    /\ Running(t) /\ HasRoom(t, 1)
    /\ registrations[t] < MaxRegistrations /\ RoomForThread
    /\ registrations' = [registrations EXCEPT ![t] = @ + 1]
    /\ returned' = [returned EXCEPT ![t] = Moved(Handle(p, t), t)]
    /\ life' = [life EXCEPT ![p] =
                   IF MovedFrom(Handle(p, t)).d_producer_p = Null THEN "live" ELSE "closed"]
    /\ UNCHANGED <<frames, returning, logged, unseen>>

\* It may fail while a slot is free, which had been taken when it was tried.
RegisterFails(t) ==
    /\ Running(t) /\ HasRoom(t, 1)
    /\ registrations[t] < MaxRegistrations /\ InSlots # {}
    /\ registrations' = [registrations EXCEPT ![t] = @ + 1]
    /\ returned' = [returned EXCEPT ![t] = Failure(TooManyThreads)]
    /\ unseen' = [unseen EXCEPT ![t] = TooManyThreads]
    /\ UNCHANGED <<frames, returning, life, logged>>

\* return make_unexpected(error).
Fail(t) ==
    /\ Running(t) /\ ReturnsResult(t)
    /\ \E error \in Errors :
          /\ returning' = [returning EXCEPT ![t] = Failure(error)]
          /\ unseen' = [unseen EXCEPT ![t] = error]
    /\ UNCHANGED <<frames, returned, life, registrations, logged>>

-----------------------------------------------------------------------------
(* The statement around a call.                                            *)

\* auto result = call();  Once looked at, a result without a handle holds nothing
\* whose destruction matters.
Keep(t) ==
    /\ HasResult(t)
    /\ LocalsBecome(t, IF HasHandle(returned[t]) THEN Append(locals(t), returned[t]) ELSE locals(t))
    /\ returned' = [returned EXCEPT ![t] = Nothing]
    /\ unseen' = [unseen EXCEPT ![t] = NoError]
    /\ UNCHANGED <<returning, life, registrations, logged>>

\* GAMEGINE_ERROR_TRY and GAMEGINE_ERROR_TRY_ASSIGN, of a call that failed.
TryReturns_GoesOn(t) ==
    /\ HasResult(t) /\ ReturnsResult(t) /\ Failed(returned[t])
    /\ returned' = [returned EXCEPT ![t] = Nothing]
    /\ UNCHANGED <<frames, returning, life, registrations, logged, unseen>>
TryReturns_Success(t) ==
    /\ HasResult(t) /\ ReturnsResult(t) /\ Failed(returned[t])
    /\ returning' = [returning EXCEPT ![t] = Success]
    /\ returned' = [returned EXCEPT ![t] = Nothing]
    /\ UNCHANGED <<frames, life, registrations, logged, unseen>>
TryReturns(t) ==
    /\ HasResult(t) /\ ReturnsResult(t) /\ Failed(returned[t])
    /\ returning' = [returning EXCEPT ![t] = Failure(returned[t].error)]
    /\ returned' = [returned EXCEPT ![t] = Nothing]
    /\ UNCHANGED <<frames, life, registrations, logged, unseen>>

\* GAMEGINE_ERROR_TRY of a call that did not: its value is destroyed.
Try(t) ==
    /\ HasResult(t) /\ ReturnsResult(t) /\ ~Failed(returned[t])
    /\ life' = Destroyed(returned[t])
    /\ returned' = [returned EXCEPT ![t] = Nothing]
    /\ UNCHANGED <<frames, returning, registrations, logged, unseen>>

\* GAMEGINE_ERROR_TRY_ASSIGN of one that did not: the handle is moved into the
\* variable declared, and the Result it leaves lives as long as its function.
TryAssign(t) ==
    /\ HasResult(t) /\ ReturnsResult(t) /\ HasHandle(returned[t]) /\ HasRoom(t, 2)
    /\ LocalsBecome(t, locals(t) \o <<MovedFrom(returned[t]), Moved(returned[t], t)>>)
    /\ returned' = [returned EXCEPT ![t] = Nothing]
    /\ UNCHANGED <<returning, life, registrations, logged, unseen>>

-----------------------------------------------------------------------------
(* Other statements.                                                       *)

\* Handle moved(std::move(local));  Moving a handle that was moved from makes
\* another that closes nothing, and is left out.
MoveLocal(t, i) ==
    /\ Running(t) /\ HasRoom(t, 1) /\ HoldsProducer(locals(t)[i])
    /\ LocalsBecome(t, Append([locals(t) EXCEPT ![i] = MovedFrom(@)], Moved(locals(t)[i], t)))
    /\ UNCHANGED <<returning, returned, life, registrations, logged, unseen>>

\* The handle is moved to a function of another thread.
HandOver(t, i, u) ==
    /\ Running(t) /\ HoldsProducer(locals(t)[i])
    /\ u # t /\ Running(u) /\ HasRoom(u, 1)
    /\ frames' = [frames EXCEPT ![t][Depth(t)][i] = MovedFrom(@),
                                ![u][Depth(u)] = Append(@, Moved(locals(t)[i], u))]
    /\ UNCHANGED <<returning, returned, life, registrations, logged, unseen>>

\* log_error or log_message, through a handle of this function or of a caller's.
\* The two assertions of Handle::push are what the caller has to observe.
Log(t) ==
    /\ Running(t)
    /\ \E d \in 1..Depth(t) : \E i \in DOMAIN frames[t][d] :
          LET p == frames[t][d][i].d_producer_p IN
          /\ p # Null /\ frames[t][d][i].d_owner = t
          /\ logged[p] < MaxRecords
          /\ logged' = [logged EXCEPT ![p] = @ + 1]
    /\ UNCHANGED <<frames, returning, returned, life, registrations, unseen>>

-----------------------------------------------------------------------------
(* The end of a function.                                                  *)

Return(t) ==
    /\ Running(t)
    /\ returning' = [returning EXCEPT ![t] = Success]
    /\ UNCHANGED <<frames, returned, life, registrations, logged, unseen>>

\* return local; which moves it.
ReturnLocal(t, i) ==
    /\ Running(t) /\ ReturnsResult(t) /\ HoldsProducer(locals(t)[i])
    /\ returning' = [returning EXCEPT ![t] = Moved(locals(t)[i], t)]
    /\ LocalsBecome(t, [locals(t) EXCEPT ![i] = MovedFrom(@)])
    /\ UNCHANGED <<returned, life, registrations, logged, unseen>>

\* The local constructed last is destroyed first.
DestroyLocal(t) ==
    /\ returning[t] # Nothing /\ locals(t) # <<>>
    /\ life' = Destroyed(Last(locals(t)))
    /\ LocalsBecome(t, Front(locals(t)))
    /\ UNCHANGED <<returning, returned, registrations, logged, unseen>>

FunctionEnds(t) ==
    /\ returning[t] # Nothing /\ locals(t) = <<>>
    /\ frames' = [frames EXCEPT ![t] = Front(@)]
    /\ returned' = [returned EXCEPT ![t] = IF ReturnsResult(t) THEN returning[t] ELSE Nothing]
    /\ returning' = [returning EXCEPT ![t] = Nothing]
    /\ UNCHANGED <<life, registrations, logged, unseen>>

-----------------------------------------------------------------------------

\* The logger thread drains a closed producer and frees it.
Free(p) ==
    /\ life[p] = "closed"
    /\ life' = [life EXCEPT ![p] = "freed"]
    /\ UNCHANGED <<frames, returning, returned, registrations, logged, unseen>>

Terminated ==
    /\ \A t \in Threads : frames[t] = <<>>
    /\ InSlots = {}
    /\ UNCHANGED vars

Statement(t) ==
    \/ Call(t) \/ Register(t) \/ RegisterFails(t) \/ Fail(t)
    \/ Keep(t) \/ TryReturns(t) \/ Try(t) \/ TryAssign(t)
    \/ Log(t) \/ Return(t)
    \/ Running(t) /\ \E i \in DOMAIN locals(t) :
          \/ MoveLocal(t, i) \/ ReturnLocal(t, i)
          \/ \E u \in Threads : HandOver(t, i, u)
    \/ DestroyLocal(t) \/ FunctionEnds(t)

Next ==
    \/ \E t \in Threads : Statement(t)
    \/ \E p \in Producers : Free(p)
    \/ Terminated

Spec == Init /\ [][Next]_vars

-----------------------------------------------------------------------------
(* Properties.                                                             *)

\* Every variable has its type, and no more producers take a slot than there are.
TypeOK ==
    /\ \A t \in Threads :
          /\ Depth(t) <= MaxDepth
          /\ \A d \in 1..Depth(t) :
                frames[t][d] \in Seq(Object) /\ Len(frames[t][d]) <= MaxLocals
    /\ returning \in [Threads -> Object] /\ returned \in [Threads -> Object]
    /\ life \in [Producers -> {"none", "live", "closed", "freed"}]
    /\ Cardinality(InSlots) <= k_MAX_THREADS
    /\ registrations \in [Threads -> 0..MaxRegistrations]
    /\ logged \in [Producers -> 0..MaxRecords]
    /\ unseen \in [Threads -> Errors \union {NoError, TooManyThreads}]

\* The places of all the objects there are, and what is in them.
Places ==
    {<<t, d, i>> : t \in Threads, d \in 0..MaxDepth, i \in 1..MaxLocals}
At(place) ==
    LET t == place[1] d == place[2] i == place[3] IN
    IF d = 0 THEN <<returning[t], returned[t]>>[i] ELSE frames[t][d][i]
Holders(p) ==
    {place \in Places :
        /\ IF place[2] = 0 THEN place[3] <= 2
           ELSE place[2] <= Depth(place[1]) /\ place[3] <= Len(frames[place[1]][place[2]])
        /\ At(place).d_producer_p = p}

\* A thread stays registered for just as long as a handle of its is somewhere, in
\* a local, in what a function is returning or in another thread: each live
\* producer is held by one object and every other by none, so that it is closed
\* once, by the last scope the handle was moved to, however calls fail on the way;
\* and that object belongs to the thread that registered, wherever it was moved
\* (core_log.h:52-58, :313-317, :341-350).
LiveIsHeldOnce ==
    \A p \in Producers :
        /\ Cardinality(Holders(p)) = IF life[p] = "live" THEN 1 ELSE 0
        /\ \A place \in Holders(p) : At(place).d_owner = p[1]

\* An error is returned or looked at, never dropped: from the function that made
\* it to the caller that keeps the result, the macros carry it unchanged, and no
\* function on the way goes on (core_error.h:104-106, :408-411, :420-421).
ErrorsArrive ==
    \A t \in Threads : unseen[t] # NoError =>
        unseen[t] \in {returning[t].error, returned[t].error}

Life == INSTANCE ProducerLife WITH
    settled <- [p \in Producers |-> IF life[p] = "freed" THEN logged[p] ELSE 0]

\* What the callers do to producers is what ProducerLife allows: one thread
\* closes a producer, once, and nobody logs through it afterwards
\* (core_log.h:66-80).
ImplementsLife == Life!Spec
=============================================================================
