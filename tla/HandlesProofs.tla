--------------------------- MODULE HandlesProofs ----------------------------
(***************************************************************************)
(* A live producer is held by one object, and an error is never dropped,   *)
(* for every number of threads, slots, registrations, functions and        *)
(* locals.                                                                 *)
(***************************************************************************)
EXTENDS Handles, FiniteSetTheorems, SequenceTheorems, TLAPS

-----------------------------------------------------------------------------
(* The inductive invariant.                                                *)

ErrorCodes == Errors \union {NoError, TooManyThreads}

\* An object that holds a producer belongs to the thread that registered, and then
\* it is no error.
Kept == {object \in Object : /\ HoldsProducer(object) => object.d_owner = object.d_producer_p[1]
                             /\ HasHandle(object) => ~Failed(object)}

FrameTypes ==
    /\ frames \in [Threads -> Seq(Seq(Kept))]
    /\ \A t \in Threads :
          /\ Depth(t) <= MaxDepth
          /\ \A d \in 1..Depth(t) :
                /\ Len(frames[t][d]) <= MaxLocals
                /\ d < Depth(t) => Len(frames[t][d]) < MaxLocals

\* A function is returning or its caller is looking at what it returned, and the
\* outermost returns nothing.
Results ==
    /\ returning \in [Threads -> Kept] /\ returned \in [Threads -> Kept]
    /\ \A t \in Threads :
          /\ returning[t] = Nothing \/ returned[t] = Nothing
          /\ Depth(t) = 0 => returning[t] = Nothing /\ returned[t] = Nothing
          /\ Depth(t) = 1 => returning[t] \in {Nothing, Success}

\* There is room to keep what was returned.
RoomForResults ==
    \A t \in Threads : returned[t] # Nothing => Len(frames[t][Len(frames[t])]) < MaxLocals

ErrorInvariant ==
    /\ FrameTypes /\ Results /\ RoomForResults /\ ErrorsArrive
    /\ unseen \in [Threads -> ErrorCodes]

\* The object at a place, if there is one.
ObjectAt(t, d, i) ==
    IF d = 0 THEN IF i = 1 THEN returning[t] ELSE IF i = 2 THEN returned[t] ELSE Nothing
    ELSE IF d <= Depth(t) /\ i <= Len(frames[t][d]) THEN frames[t][d][i] ELSE Nothing

\* What an object among the locals of a function holds.
ProducerIn(objects, i) == IF i <= Len(objects) THEN objects[i].d_producer_p ELSE Null

HeldAt == [place \in Places |-> ObjectAt(place[1], place[2], place[3]).d_producer_p]

Producing ==
    /\ life \in [Producers -> {"none", "live", "closed", "freed"}]
    /\ registrations \in [Threads -> 0..MaxRegistrations]
    /\ logged \in [Producers -> 0..MaxRecords]
    /\ IsFiniteSet(InSlots) /\ Cardinality(InSlots) <= k_MAX_THREADS
    /\ \A p \in Producers : p[2] > registrations[p[1]] => life[p] = "none"

HeldOnce ==
    /\ \A p \in Producers : life[p] = "live" => \E place \in Places : HeldAt[place] = p
    /\ \A place \in Places : HeldAt[place] # Null =>
          /\ life[HeldAt[place]] = "live"
          /\ \A other \in Places : HeldAt[other] = HeldAt[place] => other = place

HandleInvariant == ErrorInvariant /\ Producing /\ HeldOnce

-----------------------------------------------------------------------------
(* Objects and locals.                                                     *)

LEMMA Objects ==
    /\ Nothing \in Kept /\ Success \in Kept /\ Success # Nothing
    /\ ~HoldsProducer(Nothing) /\ ~HoldsProducer(Success)
    /\ Nothing.error = Null /\ Success.error = NoError
    /\ \A error \in ErrorCodes \ {NoError} :
          /\ Failure(error) \in Kept /\ Failure(error) # Nothing
          /\ Failure(error).error = error /\ ~HoldsProducer(Failure(error))
    /\ \A p \in Producers, t \in Threads : p[1] = t =>
          /\ Handle(p, t) \in Kept /\ Handle(p, t) # Nothing
          /\ Handle(p, t).d_producer_p = p
BY NullAssumption
DEF Nothing, Success, Failure, Handle, Kept, Object, HoldsProducer, HasHandle, Failed,
    ErrorCodes, NoError

LEMMA MovedObjects ==
    ASSUME NEW object \in Kept, NEW t
    PROVE  /\ Moved(object, t) = object
           /\ MovedFrom(object) \in Kept /\ MovedFrom(object).d_producer_p = Null
BY DEF Moved, MovedFrom, Kept, Object, HoldsProducer, HasHandle, Failed

LEMMA HolderHasHandle ==
    ASSUME NEW object \in Kept, HoldsProducer(object)
    PROVE  HasHandle(object) /\ object.d_producer_p \in Producers
<1>1. object.d_producer_p \in Producers /\ object.d_owner = object.d_producer_p[1]
    BY DEF Kept, Object, HoldsProducer
<1>2. object.d_producer_p[1] \in Threads
    BY <1>1 DEF Producers
<1>3. QED BY <1>1, <1>2, NullAssumption DEF HasHandle

LEMMA FailedIsAnError ==
    ASSUME NEW object \in Kept, object # Nothing, Failed(object)
    PROVE  object.error \in ErrorCodes \ {NoError}
<1>1. object.d_owner = Null /\ object.d_producer_p = Null
    BY HolderHasHandle DEF Kept, HoldsProducer, HasHandle
<1>2. object = [d_producer_p |-> Null, d_owner |-> Null, error |-> object.error]
    BY <1>1 DEF Kept, Object
<1>3. object.error # Null
    BY <1>2 DEF Nothing, Success
<1>4. QED BY <1>3 DEF Kept, Object, ErrorCodes, Failed

LEMMA TooManyIsAnError == TooManyThreads \in ErrorCodes \ {NoError} /\ Null \notin ErrorCodes
BY NullAssumption DEF TooManyThreads, NoError, ErrorCodes

LEMMA LocalsType ==
    ASSUME FrameTypes, NEW t \in Threads, Depth(t) > 0
    PROVE  /\ Depth(t) \in 1..MaxDepth /\ locals(t) = frames[t][Depth(t)]
           /\ locals(t) \in Seq(Kept) /\ Len(locals(t)) \in 0..MaxLocals
<1>1. frames[t] \in Seq(Seq(Kept)) /\ Depth(t) = Len(frames[t]) /\ Depth(t) \in 1..Len(frames[t])
    BY DEF FrameTypes, Depth
<1>2. locals(t) = frames[t][Depth(t)] /\ frames[t][Depth(t)] \in Seq(Kept)
    BY <1>1 DEF locals, Last
<1>3. Depth(t) <= MaxDepth /\ Len(frames[t][Depth(t)]) <= MaxLocals
    BY <1>1 DEF FrameTypes
<1>4. Len(frames[t][Depth(t)]) \in Nat
    BY <1>2
<1>5. MaxDepth \in Nat /\ MaxLocals \in Nat
    BY HandlesAssumption
<1>6. QED BY <1>1, <1>2, <1>3, <1>4, <1>5

LEMMA LocalsChange ==
    ASSUME FrameTypes, NEW t \in Threads, Depth(t) > 0,
           NEW objects \in Seq(Kept), Len(objects) <= MaxLocals, LocalsBecome(t, objects)
    PROVE  /\ FrameTypes' /\ UNCHANGED Depth(t)
           /\ \A u \in Threads : Depth(u)' = Depth(u)
           /\ \A u \in Threads : \A d \in 1..Depth(u) :
                frames'[u][d] = IF u = t /\ d = Depth(t) THEN objects ELSE frames[u][d]
<1>1. frames' = [frames EXCEPT ![t] = [frames[t] EXCEPT ![Depth(t)] = objects]]
    BY DEF LocalsBecome, FrameTypes
<1>2. /\ frames[t] \in Seq(Seq(Kept)) /\ Depth(t) = Len(frames[t]) /\ Depth(t) \in 1..Len(frames[t])
    BY LocalsType DEF FrameTypes, Depth
<1>3. /\ [frames[t] EXCEPT ![Depth(t)] = objects] \in Seq(Seq(Kept))
      /\ Len([frames[t] EXCEPT ![Depth(t)] = objects]) = Len(frames[t])
    BY <1>2
<1>4. frames' \in [Threads -> Seq(Seq(Kept))]
    BY <1>1, <1>3 DEF FrameTypes
<1>5. \A u \in Threads : Depth(u)' = Depth(u)
    BY <1>1, <1>3 DEF FrameTypes, Depth
<1>6. \A u \in Threads : \A d \in 1..Depth(u) :
          frames'[u][d] = IF u = t /\ d = Depth(t) THEN objects ELSE frames[u][d]
    BY <1>1, <1>2 DEF FrameTypes, Depth
<1>7. ASSUME NEW u \in Threads, NEW d \in 1..Depth(u)'
      PROVE  /\ Len(frames'[u][d]) <= MaxLocals
             /\ d < Depth(u)' => Len(frames'[u][d]) < MaxLocals
    <2>1. d \in 1..Depth(u) /\ Depth(u)' = Depth(u)
        BY <1>5
    <2>2. frames'[u][d] = IF u = t /\ d = Depth(t) THEN objects ELSE frames[u][d]
        BY <1>6, <2>1
    <2>3. /\ Len(frames[u][d]) <= MaxLocals
          /\ d < Depth(u) => Len(frames[u][d]) < MaxLocals
        BY <2>1 DEF FrameTypes
    <2>4. Depth(t) \in Nat /\ ~(Depth(t) < Depth(t))
        BY <1>2
    <2>5. QED BY <2>1, <2>2, <2>3, <2>4
<1>8. \A u \in Threads : Depth(u)' <= MaxDepth
    BY <1>5 DEF FrameTypes
<1>9. QED BY <1>4, <1>5, <1>6, <1>7, <1>8 DEF FrameTypes

-----------------------------------------------------------------------------
(* Errors arrive.                                                          *)

\* A step of a thread keeps the invariant if it leaves the other threads' results
\* and depths alone, and of its own result what its caller needs.
LEMMA OneThreadChanges ==
    ASSUME ErrorInvariant, NEW t \in Threads, FrameTypes', RoomForResults',
           returning' \in [Threads -> Kept], returned' \in [Threads -> Kept],
           unseen' \in [Threads -> ErrorCodes],
           \A u \in Threads \ {t} : /\ returning'[u] = returning[u] /\ returned'[u] = returned[u]
                                    /\ unseen'[u] = unseen[u] /\ Depth(u)' = Depth(u),
           returning'[t] = Nothing \/ returned'[t] = Nothing,
           Depth(t)' = 0 => returning'[t] = Nothing /\ returned'[t] = Nothing,
           Depth(t)' = 1 => returning'[t] \in {Nothing, Success},
           unseen'[t] # NoError => unseen'[t] \in {returning'[t].error, returned'[t].error}
    PROVE  ErrorInvariant'
<1>1. Results'
    BY DEF ErrorInvariant, Results
<1>2. ErrorsArrive'
    BY DEF ErrorInvariant, ErrorsArrive
<1>3. QED BY <1>1, <1>2 DEF ErrorInvariant

\* Between statements no error is on its way, and a result looked at is the only one.
LEMMA NoErrorUnseen ==
    ASSUME ErrorInvariant, NEW t \in Threads
    PROVE  /\ Depth(t) \in Nat
           /\ Running(t) => Depth(t) > 0 /\ unseen[t] = NoError
           /\ HasResult(t) => Depth(t) > 0 /\ returning[t] = Nothing
           /\ returning[t] # Nothing => Depth(t) > 0 /\ returned[t] = Nothing
           /\ HasResult(t) /\ ~Failed(returned[t]) => unseen[t] = NoError
<1>1. Depth(t) \in Nat
    BY DEF ErrorInvariant, FrameTypes, Depth
<1>2. Running(t) => Depth(t) > 0 /\ unseen[t] = NoError
    BY Objects, TooManyIsAnError DEF Running, ErrorInvariant, ErrorsArrive
<1>3. HasResult(t) => Depth(t) > 0 /\ returning[t] = Nothing
    BY <1>1 DEF HasResult, ErrorInvariant, Results
<1>4. returning[t] # Nothing => Depth(t) > 0 /\ returned[t] = Nothing
    BY <1>1 DEF ErrorInvariant, Results
<1>5. HasResult(t) /\ ~Failed(returned[t]) => unseen[t] = NoError
    BY <1>3, Objects, TooManyIsAnError DEF Failed, ErrorInvariant, ErrorsArrive
<1>6. QED BY <1>1, <1>2, <1>3, <1>4, <1>5

LEMMA RegistersProducer ==
    ASSUME Producing, NEW t \in Threads, Register(t)
    PROVE  /\ registrations'[t] = registrations[t] + 1
           /\ registrations' \in [Threads -> 0..MaxRegistrations]
           /\ <<t, registrations'[t]>> \in Producers /\ life[<<t, registrations'[t]>>] = "none"
<1>1. /\ registrations \in [Threads -> 0..MaxRegistrations]
      /\ registrations[t] < MaxRegistrations /\ MaxRegistrations \in Nat
      /\ registrations' = [registrations EXCEPT ![t] = @ + 1]
    BY HandlesAssumption DEF Register, Producing
<1>2. registrations'[t] = registrations[t] + 1
    BY <1>1
<1>3. registrations' \in [Threads -> 0..MaxRegistrations]
    BY <1>1
<1>4. registrations'[t] \in 1..MaxRegistrations
    BY <1>1, <1>2
<1>5. <<t, registrations'[t]>> \in Producers
    BY <1>4 DEF Producers
<1>6. life[<<t, registrations'[t]>>] = "none"
    BY <1>1, <1>2, <1>5 DEF Producing
<1>7. QED BY <1>2, <1>3, <1>5, <1>6

LEMMA CallKeepsErrors == ASSUME ErrorInvariant, NEW t \in Threads, Call(t) PROVE ErrorInvariant'
<1>1. /\ Running(t) /\ Depth(t) < MaxDepth /\ frames' = [frames EXCEPT ![t] = Append(@, <<>>)]
      /\ UNCHANGED <<returning, returned, unseen>>
    BY DEF Call
<1>2. frames[t] \in Seq(Seq(Kept)) /\ <<>> \in Seq(Kept)
    BY DEF ErrorInvariant, FrameTypes
<1>3. /\ Append(frames[t], <<>>) \in Seq(Seq(Kept))
      /\ Len(Append(frames[t], <<>>)) = Len(frames[t]) + 1
      /\ \A d \in 1..(Len(frames[t]) + 1) :
            Append(frames[t], <<>>)[d] = IF d <= Len(frames[t]) THEN frames[t][d] ELSE <<>>
    BY <1>2
<1>4. frames'[t] = Append(frames[t], <<>>) /\ \A u \in Threads \ {t} : frames'[u] = frames[u]
    BY <1>1 DEF ErrorInvariant, FrameTypes
<1>5. Depth(t)' = Depth(t) + 1 /\ \A u \in Threads \ {t} : Depth(u)' = Depth(u)
    BY <1>3, <1>4 DEF Depth
<1>6. FrameTypes'
    <2>1. frames' \in [Threads -> Seq(Seq(Kept))]
        BY <1>1, <1>3 DEF ErrorInvariant, FrameTypes
    <2>2. ASSUME NEW u \in Threads, NEW d \in 1..Depth(u)'
          PROVE  /\ Len(frames'[u][d]) <= MaxLocals
                 /\ d < Depth(u)' => Len(frames'[u][d]) < MaxLocals
        <3>1. \A e \in 1..Len(frames[u]) :
                  /\ Len(frames[u][e]) <= MaxLocals
                  /\ e < Len(frames[u]) => Len(frames[u][e]) < MaxLocals
            BY DEF ErrorInvariant, FrameTypes, Depth
        <3>2. CASE u # t
            BY <1>4, <1>5, <3>1, <3>2 DEF Depth
        <3>3. CASE u = t
            <4>1. d \in 1..(Len(frames[t]) + 1)
                BY <1>5, <3>3 DEF Depth
            <4>2. frames'[u][d] = IF d <= Len(frames[t]) THEN frames[t][d] ELSE <<>>
                BY <1>3, <1>4, <3>3, <4>1
            <4>3. MaxLocals \in Nat /\ Len(<<>>) = 0 /\ Len(frames[t]) \in Nat
                BY <1>2, HandlesAssumption
            <4>4. d = Len(frames[t]) => Len(frames[t][d]) < MaxLocals
                <5>1. frames[t] # <<>> => Len(frames[t][Len(frames[t])]) \in Nat
                    BY <1>2
                <5>2. QED BY <1>1, <4>1, <4>3, <5>1 DEF Call, HasRoom, locals, Last
            <4>5. QED BY <1>5, <3>1, <3>3, <4>1, <4>2, <4>3, <4>4 DEF Depth
        <3>4. QED BY <3>2, <3>3
    <2>3. \A u \in Threads : Depth(u)' <= MaxDepth
        BY <1>1, <1>2, <1>5, HandlesAssumption DEF ErrorInvariant, FrameTypes, Depth
    <2>4. QED BY <2>1, <2>2, <2>3 DEF FrameTypes
<1>7. Depth(t) \in Nat /\ unseen[t] = NoError /\ returning[t] = Nothing /\ returned[t] = Nothing
    BY <1>1, NoErrorUnseen DEF Running
<1>8. RoomForResults'
    BY <1>1, <1>4, <1>7 DEF ErrorInvariant, RoomForResults
<1>9. QED BY <1>1, <1>5, <1>6, <1>7, <1>8, OneThreadChanges DEF ErrorInvariant, Results

\* Steps that leave the locals alone.
LEMMA ResultKeepsErrors ==
    ASSUME ErrorInvariant, Producing, NEW t \in Threads,
           \/ Register(t) \/ RegisterFails(t) \/ Fail(t) \/ TryReturns(t) \/ Try(t)
           \/ Log(t) \/ Return(t)
    PROVE  ErrorInvariant'
<1>1. UNCHANGED frames /\ FrameTypes' /\ \A u \in Threads : Depth(u)' = Depth(u)
    BY DEF Register, RegisterFails, Fail, TryReturns, Try, Log, Return, ErrorInvariant,
           FrameTypes, Depth
<1>2. /\ returning \in [Threads -> Kept] /\ returned \in [Threads -> Kept]
      /\ unseen \in [Threads -> ErrorCodes] /\ NoError \in ErrorCodes
    BY DEF ErrorInvariant, Results, ErrorCodes
<1> RoomForResults'
    <2>1. ASSUME NEW u \in Threads, returned'[u] # Nothing
          PROVE  returned[u] # Nothing \/ Len(locals(u)) < MaxLocals
        <3>1. Running(t) /\ HasRoom(t, 1) => Depth(t) > 0 /\ Len(locals(t)) < MaxLocals
            <4> SUFFICES ASSUME Running(t), HasRoom(t, 1)
                         PROVE  Depth(t) > 0 /\ Len(locals(t)) < MaxLocals
                OBVIOUS
            <4>1. Depth(t) > 0 /\ Len(locals(t)) + 1 <= MaxLocals
                BY NoErrorUnseen DEF HasRoom
            <4>2. Len(locals(t)) \in Nat
                BY <4>1, LocalsType DEF ErrorInvariant
            <4>3. QED BY <4>1, <4>2, HandlesAssumption
        <3>2. CASE Register(t) \/ RegisterFails(t)
            BY <1>2, <2>1, <3>1, <3>2 DEF Register, RegisterFails
        <3>3. CASE TryReturns(t) \/ Try(t)
            BY <1>2, <2>1, <3>3 DEF TryReturns, Try
        <3>4. CASE Fail(t) \/ Log(t) \/ Return(t)
            BY <2>1, <3>4 DEF Fail, Log, Return
        <3>5. QED BY <3>2, <3>3, <3>4
    <2>2. QED BY <1>1, <2>1 DEF ErrorInvariant, RoomForResults, locals, Last
<1>3. CASE Register(t)
    <2> DEFINE p == <<t, registrations'[t]>>
    <2>1. Running(t) /\ returned' = [returned EXCEPT ![t] = Handle(p, t)]
          /\ UNCHANGED <<returning, unseen>>
        BY <1>3 DEF Register, Moved
    <2>2. Handle(p, t) \in Kept
        BY <1>3, RegistersProducer, Objects
    <2>3. QED BY <1>1, <1>2, <2>1, <2>2, NoErrorUnseen, OneThreadChanges DEF Running
<1>4. CASE RegisterFails(t)
    <2>1. /\ Running(t) /\ returned' = [returned EXCEPT ![t] = Failure(TooManyThreads)]
          /\ unseen' = [unseen EXCEPT ![t] = TooManyThreads] /\ UNCHANGED returning
        BY <1>4 DEF RegisterFails
    <2>2. QED
        BY <1>1, <1>2, <2>1, NoErrorUnseen, Objects, TooManyIsAnError, OneThreadChanges
        DEF Running
<1>5. CASE Fail(t)
    <2>1. PICK error \in Errors : /\ returning' = [returning EXCEPT ![t] = Failure(error)]
                                  /\ unseen' = [unseen EXCEPT ![t] = error]
        BY <1>5 DEF Fail
    <2>2. Running(t) /\ Depth(t) > 1 /\ UNCHANGED returned /\ error \in ErrorCodes \ {NoError}
        BY <1>5, NullAssumption DEF Fail, ReturnsResult, ErrorCodes
    <2>3. QED BY <1>1, <1>2, <2>1, <2>2, NoErrorUnseen, Objects, OneThreadChanges DEF Running
<1>6. CASE TryReturns(t)
    <2>1. /\ HasResult(t) /\ Depth(t) > 1 /\ Failed(returned[t])
          /\ returning' = [returning EXCEPT ![t] = Failure(returned[t].error)]
          /\ returned' = [returned EXCEPT ![t] = Nothing] /\ UNCHANGED unseen
        BY <1>6 DEF TryReturns, ReturnsResult
    <2>2. returned[t].error \in ErrorCodes \ {NoError}
        BY <1>2, <2>1, FailedIsAnError DEF HasResult
    <2>3. returning[t].error = Null /\ (unseen[t] # NoError => unseen[t] = returned[t].error)
        BY <1>2, <2>1, NoErrorUnseen, Objects, TooManyIsAnError DEF ErrorInvariant, ErrorsArrive
    <2>4. QED BY <1>1, <1>2, <2>1, <2>2, <2>3, NoErrorUnseen, Objects, OneThreadChanges
<1>7. CASE Try(t)
    <2>1. /\ HasResult(t) /\ ~Failed(returned[t])
          /\ returned' = [returned EXCEPT ![t] = Nothing] /\ UNCHANGED <<returning, unseen>>
        BY <1>7 DEF Try
    <2>2. QED BY <1>1, <1>2, <2>1, NoErrorUnseen, Objects, OneThreadChanges
<1>8. CASE Log(t)
    <2>1. UNCHANGED <<returning, returned, unseen>>
        BY <1>8 DEF Log
    <2>2. QED BY <1>1, <2>1 DEF ErrorInvariant, Results, RoomForResults, ErrorsArrive
<1>9. CASE Return(t)
    <2>1. /\ Running(t) /\ returning' = [returning EXCEPT ![t] = Success]
          /\ UNCHANGED <<returned, unseen>>
        BY <1>9 DEF Return
    <2>2. QED BY <1>1, <1>2, <2>1, NoErrorUnseen, Objects, OneThreadChanges DEF Running
<1>10. QED BY <1>3, <1>4, <1>5, <1>6, <1>7, <1>8, <1>9

-----------------------------------------------------------------------------
(* Places.                                                                 *)

LEMMA PlaceTypes ==
    /\ \A place \in Places : \E t \in Threads, d \in 0..MaxDepth, i \in 1..MaxLocals :
          place = <<t, d, i>>
    /\ \A t \in Threads, d \in 0..MaxDepth, i \in 1..MaxLocals : <<t, d, i>> \in Places
    /\ 0 \in 0..MaxDepth /\ 1 \in 1..MaxLocals /\ 2 \in 1..MaxLocals
    /\ 1..MaxDepth \subseteq 0..MaxDepth
BY HandlesAssumption DEF Places

LEMMA HeldAtPlace ==
    ASSUME NEW t \in Threads
    PROVE  /\ \A d \in 0..MaxDepth, i \in 1..MaxLocals :
                /\ HeldAt[<<t, d, i>>] = ObjectAt(t, d, i).d_producer_p
                /\ HeldAt'[<<t, d, i>>] = ObjectAt(t, d, i)'.d_producer_p
           /\ HeldAt[<<t, 0, 1>>] = returning[t].d_producer_p
           /\ HeldAt[<<t, 0, 2>>] = returned[t].d_producer_p
           /\ HeldAt'[<<t, 0, 1>>] = returning'[t].d_producer_p
           /\ HeldAt'[<<t, 0, 2>>] = returned'[t].d_producer_p
<1>1. ASSUME NEW d \in 0..MaxDepth, NEW i \in 1..MaxLocals
      PROVE  /\ HeldAt[<<t, d, i>>] = ObjectAt(t, d, i).d_producer_p
             /\ HeldAt'[<<t, d, i>>] = ObjectAt(t, d, i)'.d_producer_p
    BY PlaceTypes DEF HeldAt
<1>2. /\ ObjectAt(t, 0, 1) = returning[t] /\ ObjectAt(t, 0, 2) = returned[t]
      /\ ObjectAt(t, 0, 1)' = returning'[t] /\ ObjectAt(t, 0, 2)' = returned'[t]
    BY DEF ObjectAt
<1>3. QED BY <1>1, <1>2, PlaceTypes

LEMMA ObjectTypes ==
    ASSUME FrameTypes, Results, NEW t \in Threads, NEW d \in 0..MaxDepth, NEW i \in 1..MaxLocals
    PROVE  ObjectAt(t, d, i) \in Kept
<1>1. CASE d = 0
    BY <1>1, Objects DEF ObjectAt, Results
<1>2. CASE d # 0 /\ d <= Depth(t) /\ i <= Len(frames[t][d])
    <2>1. frames[t] \in Seq(Seq(Kept)) /\ d \in 1..Len(frames[t])
        BY <1>2 DEF FrameTypes, Depth
    <2>2. frames[t][d] \in Seq(Kept)
        BY <2>1
    <2>3. i \in 1..Len(frames[t][d])
        BY <1>2, <2>2
    <2>4. frames[t][d][i] \in Kept
        BY <2>2, <2>3
    <2>5. QED BY <1>2, <2>4 DEF ObjectAt
<1>3. CASE d # 0 /\ ~(d <= Depth(t) /\ i <= Len(frames[t][d]))
    BY <1>3, Objects DEF ObjectAt
<1>4. QED BY <1>1, <1>2, <1>3

LEMMA HeldType ==
    ASSUME FrameTypes, Results
    PROVE  HeldAt \in [Places -> Producers \union {Null}]
<1>1. ASSUME NEW place \in Places PROVE HeldAt[place] \in Producers \union {Null}
    <2>1. PICK t \in Threads, d \in 0..MaxDepth, i \in 1..MaxLocals : place = <<t, d, i>>
        BY PlaceTypes
    <2>2. ObjectAt(t, d, i) \in Kept
        BY ObjectTypes
    <2>3. QED BY <2>1, <2>2, HeldAtPlace DEF Kept, Object
<1>2. QED BY <1>1 DEF HeldAt

\* What is held in the locals of a thread after they changed.
LEMMA LocalsHold ==
    ASSUME FrameTypes, NEW t \in Threads, Depth(t) > 0,
           NEW objects \in Seq(Kept), Len(objects) <= MaxLocals, LocalsBecome(t, objects),
           NEW u \in Threads, NEW d \in 1..MaxDepth, NEW i \in 1..MaxLocals
    PROVE  HeldAt'[<<u, d, i>>] =
               IF u # t \/ d # Depth(t) THEN HeldAt[<<u, d, i>>]
               ELSE IF i <= Len(objects) THEN objects[i].d_producer_p ELSE Null
<1>1. /\ Depth(t)' = Depth(t) /\ Depth(u)' = Depth(u) /\ Depth(t) \in 1..MaxDepth
      /\ \A e \in 1..Depth(u) :
             frames'[u][e] = IF u = t /\ e = Depth(t) THEN objects ELSE frames[u][e]
    BY LocalsChange, LocalsType
<1>2. Depth(u) \in Nat
    BY DEF FrameTypes, Depth
<1>3. d \in 0..MaxDepth /\ d # 0
    BY PlaceTypes
<1>4. CASE u # t \/ d # Depth(t)
    <2>1. ObjectAt(u, d, i)' = ObjectAt(u, d, i)
        <3>1. CASE d <= Depth(u)
            <4>1. frames'[u][d] = frames[u][d]
                BY <1>1, <1>2, <1>4, <3>1
            <4>2. QED BY <1>1, <4>1 DEF ObjectAt
        <3>2. CASE ~(d <= Depth(u))
            BY <1>1, <1>3, <3>2 DEF ObjectAt
        <3>3. QED BY <3>1, <3>2
    <2>2. HeldAt'[<<u, d, i>>] = ObjectAt(u, d, i)'.d_producer_p
        BY <1>3, PlaceTypes DEF HeldAt
    <2>3. HeldAt[<<u, d, i>>] = ObjectAt(u, d, i).d_producer_p
        BY <1>3, PlaceTypes DEF HeldAt
    <2>4. QED BY <1>4, <2>1, <2>2, <2>3
<1>5. CASE u = t /\ d = Depth(t)
    <2>1. ObjectAt(u, d, i)' = IF i <= Len(objects) THEN objects[i] ELSE Nothing
        <3>1. frames'[u][d] = objects /\ d <= Depth(u)'
            BY <1>1, <1>5
        <3>2. QED BY <1>3, <3>1 DEF ObjectAt
    <2>2. HeldAt'[<<u, d, i>>] = ObjectAt(u, d, i)'.d_producer_p
        BY <1>3, PlaceTypes DEF HeldAt
    <2>3. QED BY <1>5, <2>1, <2>2, Objects DEF HoldsProducer
<1>6. QED BY <1>4, <1>5

\* And before.
LEMMA LocalHolds ==
    ASSUME FrameTypes, NEW t \in Threads, Depth(t) > 0, NEW i \in 1..MaxLocals
    PROVE  /\ <<t, Depth(t), i>> \in Places
           /\ HeldAt[<<t, Depth(t), i>>] =
                  IF i <= Len(locals(t)) THEN locals(t)[i].d_producer_p ELSE Null
<1>1. /\ Depth(t) \in 1..MaxDepth /\ Depth(t) \in 0..MaxDepth /\ locals(t) = frames[t][Depth(t)]
    BY LocalsType, PlaceTypes
<1>2. ObjectAt(t, Depth(t), i) = IF i <= Len(locals(t)) THEN locals(t)[i] ELSE Nothing
    BY <1>1 DEF ObjectAt
<1>3. <<t, Depth(t), i>> \in Places
    BY <1>1, PlaceTypes
<1>4. HeldAt[<<t, Depth(t), i>>] = ObjectAt(t, Depth(t), i).d_producer_p
    BY <1>1, HeldAtPlace
<1>5. QED BY <1>2, <1>3, <1>4, Objects DEF HoldsProducer

-----------------------------------------------------------------------------
(* What a step may do to the producers that are held.                      *)

HeldTypes == HeldAt \in [Places -> Producers \union {Null}]

LEMMA NullIsNoProducer == Null \notin Producers /\ Null \notin Threads
BY NullAssumption

LEMMA NothingMoves ==
    ASSUME HeldTypes, HeldOnce, \A place \in Places : HeldAt'[place] = HeldAt[place],
           \A p \in Producers : life'[p] = "live" <=> life[p] = "live"
    PROVE  HeldOnce'
BY NullIsNoProducer DEF HeldTypes, HeldOnce

LEMMA ProducerMoves ==
    ASSUME HeldTypes, HeldOnce, NEW from \in Places, NEW to \in Places, from # to,
           HeldAt[to] = Null, HeldAt'[to] = HeldAt[from], HeldAt'[from] = Null,
           \A place \in Places \ {from, to} : HeldAt'[place] = HeldAt[place],
           UNCHANGED life
    PROVE  HeldOnce'
<1>1. ASSUME NEW p \in Producers, life'[p] = "live"
      PROVE  \E place \in Places : HeldAt'[place] = p
    <2>1. PICK place \in Places : HeldAt[place] = p
        BY <1>1 DEF HeldOnce
    <2>2. CASE place = from
        BY <2>1, <2>2
    <2>3. CASE place # from
        BY <2>1, <2>3, NullIsNoProducer
    <2>4. QED BY <2>2, <2>3
<1>2. ASSUME NEW place \in Places, HeldAt'[place] # Null
      PROVE  /\ life'[HeldAt'[place]] = "live"
             /\ \A other \in Places : HeldAt'[other] = HeldAt'[place] => other = place
    <2>1. CASE place = to
        BY <1>2, <2>1 DEF HeldOnce
    <2>2. CASE place # to
        BY <1>2, <2>2 DEF HeldOnce
    <2>3. QED BY <2>1, <2>2
<1>3. QED BY <1>1, <1>2 DEF HeldOnce

LEMMA ProducerIsTaken ==
    ASSUME HeldTypes, HeldOnce, NEW p \in Producers, NEW to \in Places, life[p] = "none",
           HeldAt[to] = Null, HeldAt'[to] = p,
           \A place \in Places \ {to} : HeldAt'[place] = HeldAt[place],
           life \in [Producers -> {"none", "live", "closed", "freed"}],
           life' = [life EXCEPT ![p] = "live"]
    PROVE  HeldOnce'
<1>1. \A place \in Places : HeldAt[place] # p
    BY NullIsNoProducer DEF HeldOnce
<1>2. ASSUME NEW q \in Producers, life'[q] = "live"
      PROVE  \E place \in Places : HeldAt'[place] = q
    <2>1. CASE q = p
        BY <2>1
    <2>2. CASE q # p
        <3>1. PICK place \in Places : HeldAt[place] = q
            BY <1>2, <2>2 DEF HeldOnce
        <3>2. QED BY <3>1, NullIsNoProducer
    <2>3. QED BY <2>1, <2>2
<1>3. ASSUME NEW place \in Places, HeldAt'[place] # Null
      PROVE  /\ life'[HeldAt'[place]] = "live"
             /\ \A other \in Places : HeldAt'[other] = HeldAt'[place] => other = place
    <2>1. CASE place = to
        BY <1>1, <2>1
    <2>2. CASE place # to
        BY <1>1, <1>3, <2>2 DEF HeldOnce, HeldTypes
    <2>3. QED BY <2>1, <2>2
<1>4. QED BY <1>2, <1>3 DEF HeldOnce

LEMMA ObjectIsDestroyed ==
    ASSUME HeldTypes, HeldOnce, NEW from \in Places, HeldAt'[from] = Null,
           \A place \in Places \ {from} : HeldAt'[place] = HeldAt[place],
           life \in [Producers -> {"none", "live", "closed", "freed"}],
           life' = IF HeldAt[from] = Null THEN life ELSE [life EXCEPT ![HeldAt[from]] = "closed"]
    PROVE  HeldOnce'
<1>1. ASSUME NEW q \in Producers, life'[q] = "live"
      PROVE  \E place \in Places : HeldAt'[place] = q
    <2>1. life[q] = "live" /\ q # HeldAt[from]
        BY <1>1, NullIsNoProducer DEF HeldTypes
    <2>2. PICK place \in Places : HeldAt[place] = q
        BY <2>1 DEF HeldOnce
    <2>3. QED BY <2>1, <2>2
<1>2. ASSUME NEW place \in Places, HeldAt'[place] # Null
      PROVE  /\ life'[HeldAt'[place]] = "live"
             /\ \A other \in Places : HeldAt'[other] = HeldAt'[place] => other = place
    <2>1. place # from /\ HeldAt'[place] = HeldAt[place]
        BY <1>2
    <2>2. life[HeldAt[place]] = "live" /\ HeldAt[place] # HeldAt[from]
        BY <1>2, <2>1 DEF HeldOnce
    <2>3. life'[HeldAt[place]] = "live"
        BY <2>2 DEF HeldTypes
    <2>4. QED BY <1>2, <2>1, <2>3 DEF HeldOnce
<1>3. QED BY <1>1, <1>2 DEF HeldOnce

LEMMA ProducingStays ==
    ASSUME Producing, UNCHANGED <<life, registrations, logged>>
    PROVE  Producing'
BY DEF Producing, InSlots

\* A producer in a slot is closed or freed.
LEMMA ProducingGoesOn ==
    ASSUME Producing, NEW p \in InSlots, NEW to \in {"closed", "freed"},
           life' = [life EXCEPT ![p] = to], UNCHANGED <<registrations, logged>>
    PROVE  Producing'
<1>1. p \in Producers /\ life[p] # "none"
    BY DEF InSlots
<1>2. life' \in [Producers -> {"none", "live", "closed", "freed"}]
    BY <1>1 DEF Producing
<1>3. InSlots' \subseteq InSlots
    BY <1>1 DEF Producing, InSlots
<1>4. /\ IsFiniteSet(InSlots') /\ Cardinality(InSlots') <= Cardinality(InSlots)
      /\ Cardinality(InSlots') \in Nat /\ Cardinality(InSlots) \in Nat
    BY <1>3, FS_Subset, FS_CardinalityType DEF Producing
<1>5. Cardinality(InSlots') <= k_MAX_THREADS
    BY <1>4, HandlesAssumption DEF Producing
<1>6. \A q \in Producers : q[2] > registrations'[q[1]] => life'[q] = "none"
    BY <1>1 DEF Producing
<1>7. QED BY <1>2, <1>4, <1>5, <1>6 DEF Producing

LEMMA HandleTypes ==
    ASSUME HandleInvariant
    PROVE  /\ HeldTypes /\ FrameTypes /\ Results
           /\ life \in [Producers -> {"none", "live", "closed", "freed"}]
BY HeldType DEF HandleInvariant, ErrorInvariant, HeldTypes, Producing

\* A step that leaves the locals alone moves no producer but what the thread's result
\* holds.
LEMMA LocalsStay ==
    ASSUME HandleInvariant, NEW t \in Threads, UNCHANGED frames,
           \A u \in Threads \ {t} : returning'[u] = returning[u] /\ returned'[u] = returned[u]
    PROVE  \A place \in Places \ {<<t, 0, 1>>, <<t, 0, 2>>} : HeldAt'[place] = HeldAt[place]
<1> SUFFICES ASSUME NEW place \in Places \ {<<t, 0, 1>>, <<t, 0, 2>>}
             PROVE  HeldAt'[place] = HeldAt[place]
    OBVIOUS
<1>1. PICK u \in Threads, d \in 0..MaxDepth, i \in 1..MaxLocals : place = <<u, d, i>>
    BY PlaceTypes
<1>2. d = 0 /\ u = t => i # 1 /\ i # 2
    BY <1>1
<1>3. ObjectAt(u, d, i)' = ObjectAt(u, d, i)
    BY <1>2 DEF ObjectAt, Depth
<1>4. QED BY <1>1, <1>3 DEF HeldAt

\* A thread logs through a handle that is somewhere among its locals: a live one.
LEMMA LogsLive ==
    ASSUME HandleInvariant, NEW t \in Threads, Log(t)
    PROVE  \E p \in Producers : /\ life[p] = "live" /\ logged[p] < MaxRecords
                                /\ logged' = [logged EXCEPT ![p] = @ + 1]
<1>1. PICK d \in 1..Depth(t) : \E i \in DOMAIN frames[t][d] :
          LET p == frames[t][d][i].d_producer_p IN
          /\ p # Null /\ logged[p] < MaxRecords /\ logged' = [logged EXCEPT ![p] = @ + 1]
    BY DEF Log
<1>2. PICK i \in DOMAIN frames[t][d] :
          LET p == frames[t][d][i].d_producer_p IN
          /\ p # Null /\ logged[p] < MaxRecords /\ logged' = [logged EXCEPT ![p] = @ + 1]
    BY <1>1
<1>3. /\ frames[t] \in Seq(Seq(Kept)) /\ Depth(t) = Len(frames[t]) /\ Depth(t) <= MaxDepth
      /\ Len(frames[t][d]) <= MaxLocals
    BY HandleTypes DEF FrameTypes, Depth
<1>4. frames[t][d] \in Seq(Kept)
    BY <1>1, <1>3
<1>5. i \in 1..Len(frames[t][d]) /\ Len(frames[t][d]) \in Nat
    BY <1>2, <1>4
<1>6. /\ d \in 0..MaxDepth /\ d # 0 /\ d <= Depth(t) /\ i \in 1..MaxLocals
      /\ i <= Len(frames[t][d])
    <2>1. Depth(t) \in Nat /\ MaxDepth \in Nat /\ MaxLocals \in Nat
        BY <1>3, HandlesAssumption
    <2>2. d \in 0..MaxDepth /\ d # 0 /\ d <= Depth(t)
        BY <1>1, <1>3, <2>1
    <2>3. i \in 1..MaxLocals /\ i <= Len(frames[t][d])
        BY <1>3, <1>5, <2>1
    <2>4. QED BY <2>2, <2>3
<1>7. <<t, d, i>> \in Places /\ HeldAt[<<t, d, i>>] = frames[t][d][i].d_producer_p
    BY <1>6, PlaceTypes, HeldAtPlace DEF ObjectAt
<1>8. HeldAt[<<t, d, i>>] \in Producers /\ life[HeldAt[<<t, d, i>>]] = "live"
    BY <1>2, <1>7, HandleTypes DEF HandleInvariant, HeldTypes, HeldOnce
<1>9. QED BY <1>2, <1>7, <1>8

LEMMA StatementKeeps ==
    ASSUME HandleInvariant, NEW t \in Threads,
           RegisterFails(t) \/ Fail(t) \/ TryReturns(t) \/ Log(t) \/ Return(t)
    PROVE  HandleInvariant'
<1>1. ErrorInvariant'
    BY ResultKeepsErrors DEF HandleInvariant
<1>2. /\ UNCHANGED <<frames, life>>
      /\ \A u \in Threads \ {t} : returning'[u] = returning[u] /\ returned'[u] = returned[u]
    BY DEF RegisterFails, Fail, TryReturns, Log, Return, HandleInvariant, ErrorInvariant, Results
<1>3. /\ returning'[t].d_producer_p = returning[t].d_producer_p
      /\ returned'[t].d_producer_p = returned[t].d_producer_p
    <2>1. /\ returning \in [Threads -> Kept] /\ returned \in [Threads -> Kept]
          /\ ErrorInvariant /\ NoError \notin Errors
        BY NullAssumption DEF HandleInvariant, ErrorInvariant, Results
    <2>2. CASE RegisterFails(t)
        BY <2>1, <2>2, Objects, TooManyIsAnError, NullIsNoProducer
        DEF RegisterFails, Running, HoldsProducer
    <2>3. CASE Fail(t)
        <3>1. PICK error \in Errors : returning' = [returning EXCEPT ![t] = Failure(error)]
            BY <2>3 DEF Fail
        <3>2. error \in ErrorCodes \ {NoError}
            BY <2>1 DEF ErrorCodes
        <3>3. QED BY <2>1, <2>3, <3>1, <3>2, Objects DEF Fail, Running, HoldsProducer
    <2>4. CASE TryReturns(t)
        <3>1. returned[t] # Nothing /\ Failed(returned[t]) /\ returning[t] = Nothing
            BY <2>1, <2>4, NoErrorUnseen DEF TryReturns, HasResult
        <3>2. returned[t].error \in ErrorCodes \ {NoError} /\ returned[t].d_producer_p = Null
            BY <2>1, <3>1, FailedIsAnError, HolderHasHandle DEF Kept, HoldsProducer
        <3>3. QED BY <2>1, <2>4, <3>1, <3>2, Objects DEF TryReturns, HoldsProducer
    <2>5. CASE Log(t)
        BY <2>5 DEF Log
    <2>6. CASE Return(t)
        BY <2>1, <2>6, Objects DEF Return, Running, HoldsProducer
    <2>7. QED BY <2>2, <2>3, <2>4, <2>5, <2>6
<1>4. \A place \in Places : HeldAt'[place] = HeldAt[place]
    BY <1>2, <1>3, LocalsStay, HeldAtPlace
<1>5. HeldOnce'
    BY <1>2, <1>4, NothingMoves, HandleTypes DEF HandleInvariant
<1>6. Producing'
    <2>1. /\ Producing /\ InSlots' = InSlots /\ MaxRegistrations \in Nat /\ MaxRecords \in Nat
        BY <1>2, HandlesAssumption DEF HandleInvariant, InSlots
    <2>2. CASE RegisterFails(t)
        <3>1. /\ registrations' = [registrations EXCEPT ![t] = @ + 1] /\ UNCHANGED logged
              /\ registrations[t] < MaxRegistrations
            BY <2>2 DEF RegisterFails
        <3>2. registrations' \in [Threads -> 0..MaxRegistrations]
            BY <2>1, <3>1 DEF Producing
        <3>3. \A p \in Producers : p[2] > registrations'[p[1]] => p[2] > registrations[p[1]]
            BY <2>1, <3>1 DEF Producing, Producers
        <3>4. QED BY <1>2, <2>1, <3>1, <3>2, <3>3 DEF Producing
    <2>3. CASE Log(t)
        <3>1. PICK p \in Producers : logged[p] < MaxRecords
                                    /\ logged' = [logged EXCEPT ![p] = @ + 1]
            BY <2>3, LogsLive
        <3>2. logged' \in [Producers -> 0..MaxRecords]
            BY <2>1, <3>1 DEF Producing
        <3>3. UNCHANGED registrations
            BY <2>3 DEF Log
        <3>4. QED BY <1>2, <2>1, <3>2, <3>3 DEF Producing
    <2>4. CASE Fail(t) \/ TryReturns(t) \/ Return(t)
        BY <1>2, <2>1, <2>4, ProducingStays DEF Fail, TryReturns, Return
    <2>5. QED BY <2>2, <2>3, <2>4
<1>7. QED BY <1>1, <1>5, <1>6 DEF HandleInvariant

\* The producer that is destroyed with an object was live, and is closed.
LEMMA ClosesLive ==
    ASSUME HandleInvariant, NEW object \in Kept, NEW place \in Places,
           HeldAt[place] = object.d_producer_p, life' = Destroyed(object)
    PROVE  /\ life' = IF HeldAt[place] = Null THEN life
                      ELSE [life EXCEPT ![HeldAt[place]] = "closed"]
           /\ HeldAt[place] # Null => HeldAt[place] \in InSlots /\ life[HeldAt[place]] = "live"
           /\ UNCHANGED <<registrations, logged>> => Producing'
<1>1. life' = IF HeldAt[place] = Null THEN life ELSE [life EXCEPT ![HeldAt[place]] = "closed"]
    BY DEF Destroyed, HoldsProducer
<1>2. HeldAt[place] # Null => HeldAt[place] \in InSlots /\ life[HeldAt[place]] = "live"
    BY HandleTypes DEF HandleInvariant, HeldTypes, HeldOnce, InSlots
<1>3. ASSUME UNCHANGED <<registrations, logged>> PROVE Producing'
    <2>1. CASE HeldAt[place] = Null
        BY <1>1, <1>3, <2>1, ProducingStays DEF HandleInvariant
    <2>2. CASE HeldAt[place] # Null
        BY <1>1, <1>2, <1>3, <2>2, ProducingGoesOn DEF HandleInvariant
    <2>3. QED BY <2>1, <2>2
<1>4. QED BY <1>1, <1>2, <1>3

LEMMA TryKeeps == ASSUME HandleInvariant, NEW t \in Threads, Try(t) PROVE HandleInvariant'
<1>1. /\ HasResult(t) /\ life' = Destroyed(returned[t])
      /\ returned' = [returned EXCEPT ![t] = Nothing]
      /\ UNCHANGED <<frames, returning, registrations, logged>>
    BY DEF Try
<1>2. /\ returned \in [Threads -> Kept] /\ <<t, 0, 2>> \in Places
      /\ HeldAt[<<t, 0, 2>>] = returned[t].d_producer_p
    BY HeldAtPlace, HandleTypes, PlaceTypes DEF Results
<1>3. HeldAt'[<<t, 0, 2>>] = Null /\ HeldAt'[<<t, 0, 1>>] = HeldAt[<<t, 0, 1>>]
    BY <1>1, <1>2, HeldAtPlace, Objects DEF HoldsProducer
<1>4. \A place \in Places \ {<<t, 0, 2>>} : HeldAt'[place] = HeldAt[place]
    BY <1>1, <1>2, <1>3, LocalsStay
<1>5. HeldOnce'
    <2>1. life' = IF HeldAt[<<t, 0, 2>>] = Null THEN life
                  ELSE [life EXCEPT ![HeldAt[<<t, 0, 2>>]] = "closed"]
        BY <1>1, <1>2, ClosesLive
    <2>2. QED BY <1>2, <1>3, <1>4, <2>1, HandleTypes, ObjectIsDestroyed DEF HandleInvariant
<1>6. Producing'
    BY <1>1, <1>2, ClosesLive
<1>7. QED BY <1>5, <1>6, ResultKeepsErrors DEF HandleInvariant

LEMMA RegisterKeeps ==
    ASSUME HandleInvariant, NEW t \in Threads, Register(t) PROVE HandleInvariant'
<1> DEFINE p == <<t, registrations'[t]>>
<1>1. /\ Running(t) /\ returned' = [returned EXCEPT ![t] = Handle(p, t)]
      /\ life' = [life EXCEPT ![p] = "live"] /\ Cardinality(InSlots) < k_MAX_THREADS
      /\ registrations' = [registrations EXCEPT ![t] = @ + 1]
      /\ UNCHANGED <<frames, returning, logged>>
    BY DEF Register, Moved, MovedFrom, Handle, RoomForThread
<1>2. /\ registrations'[t] = registrations[t] + 1 /\ p \in Producers /\ life[p] = "none"
      /\ registrations' \in [Threads -> 0..MaxRegistrations]
    BY RegistersProducer DEF HandleInvariant
<1>3. /\ returned \in [Threads -> Kept] /\ <<t, 0, 2>> \in Places /\ p[1] = t
      /\ returned[t] = Nothing
    BY <1>1, HandleTypes, PlaceTypes DEF Results, Running
<1> HIDE DEF p
<1>4. /\ HeldAt[<<t, 0, 2>>] = Null /\ HeldAt'[<<t, 0, 2>>] = p
      /\ HeldAt'[<<t, 0, 1>>] = HeldAt[<<t, 0, 1>>]
    BY <1>1, <1>2, <1>3, HeldAtPlace, Objects DEF HoldsProducer
<1>5. \A place \in Places \ {<<t, 0, 2>>} : HeldAt'[place] = HeldAt[place]
    BY <1>1, <1>3, <1>4, LocalsStay
<1>6. HeldOnce'
    BY <1>1, <1>2, <1>3, <1>4, <1>5, HandleTypes, ProducerIsTaken DEF HandleInvariant
<1>7. Producing'
    <2>1. InSlots' = InSlots \union {p} /\ p \notin InSlots
        BY <1>1, <1>2, HandleTypes DEF InSlots
    <2>2. IsFiniteSet(InSlots') /\ Cardinality(InSlots') = Cardinality(InSlots) + 1
        BY <2>1, FS_AddElement DEF HandleInvariant, Producing
    <2>3. Cardinality(InSlots') <= k_MAX_THREADS
        BY <1>1, <2>2, FS_CardinalityType, HandlesAssumption DEF HandleInvariant, Producing
    <2>4. ASSUME NEW q \in Producers, q[2] > registrations'[q[1]] PROVE life'[q] = "none"
        <3>1. q[1] \in Threads /\ q[2] \in 1..MaxRegistrations /\ MaxRegistrations \in Nat
            BY HandlesAssumption DEF Producers
        <3>2. q[2] > registrations[q[1]] /\ q # p
            BY <1>1, <1>2, <2>4, <3>1 DEF HandleInvariant, Producing, p
        <3>3. QED BY <1>1, <3>2 DEF HandleInvariant, Producing
    <2>5. QED BY <1>1, <1>2, <2>2, <2>3, <2>4 DEF HandleInvariant, Producing
<1>8. QED BY <1>6, <1>7, ResultKeepsErrors DEF HandleInvariant

LEMMA FreeKeeps == ASSUME HandleInvariant, NEW p \in Producers, Free(p) PROVE HandleInvariant'
<1>1. /\ life[p] = "closed" /\ life' = [life EXCEPT ![p] = "freed"] /\ p \in InSlots
      /\ UNCHANGED <<frames, returning, returned, registrations, logged, unseen>>
    BY DEF Free, InSlots
<1>2. ErrorInvariant'
    BY <1>1
    DEF HandleInvariant, ErrorInvariant, FrameTypes, Results, RoomForResults, ErrorsArrive, Depth
<1>3. \A place \in Places : HeldAt'[place] = HeldAt[place]
    BY <1>1 DEF HeldAt, ObjectAt, Depth
<1>4. HeldOnce'
    BY <1>1, <1>3, NothingMoves, HandleTypes DEF HandleInvariant
<1>5. QED BY <1>1, <1>2, <1>4, ProducingGoesOn DEF HandleInvariant

-----------------------------------------------------------------------------
(* Statements that change the locals.                                      *)

LEMMA CallKeeps == ASSUME HandleInvariant, NEW t \in Threads, Call(t) PROVE HandleInvariant'
<1>1. /\ frames' = [frames EXCEPT ![t] = Append(@, <<>>)]
      /\ UNCHANGED <<returning, returned, life, registrations, logged>>
    BY DEF Call
<1>2. ASSUME NEW place \in Places PROVE HeldAt'[place] = HeldAt[place]
    <2>1. PICK u \in Threads, d \in 0..MaxDepth, i \in 1..MaxLocals : place = <<u, d, i>>
        BY PlaceTypes
    <2>2. frames \in [Threads -> Seq(Seq(Kept))] /\ <<>> \in Seq(Kept)
        BY HandleTypes DEF FrameTypes
    <2>3. ObjectAt(u, d, i).d_producer_p = ObjectAt(u, d, i)'.d_producer_p
        <3>1. CASE d = 0 \/ u # t
            BY <1>1, <2>2, <3>1 DEF ObjectAt, Depth
        <3>2. CASE d # 0 /\ u = t /\ d <= Depth(t)
            <4>1. /\ frames'[t] = Append(frames[t], <<>>) /\ frames[t] \in Seq(Seq(Kept))
                  /\ d \in 1..Len(frames[t])
                BY <1>1, <2>2, <3>2 DEF Depth
            <4>2. frames'[t][d] = frames[t][d] /\ d <= Len(frames'[t])
                BY <2>2, <4>1
            <4>3. QED BY <3>2, <4>2 DEF ObjectAt, Depth
        <3>3. CASE d # 0 /\ u = t /\ d > Depth(t)
            <4>1. /\ frames'[t] = Append(frames[t], <<>>) /\ frames[t] \in Seq(Seq(Kept))
                  /\ d \in Nat /\ d > Len(frames[t])
                BY <1>1, <2>2, <3>3, HandlesAssumption DEF Depth
            <4>2. d <= Len(frames'[t]) => frames'[t][d] = <<>> /\ Len(frames'[t][d]) = 0
                BY <2>2, <4>1
            <4>3. ObjectAt(u, d, i)' = Nothing
                BY <3>3, <4>2 DEF ObjectAt, Depth
            <4>4. ObjectAt(u, d, i) = Nothing
                BY <3>3, <4>1 DEF ObjectAt, Depth
            <4>5. QED BY <4>3, <4>4
        <3>4. Depth(t) \in Nat
            BY <2>2 DEF Depth
        <3>5. QED BY <3>1, <3>2, <3>3, <3>4
    <2>4. QED BY <2>1, <2>3 DEF HeldAt
<1>3. HeldOnce'
    BY <1>1, <1>2, NothingMoves, HandleTypes DEF HandleInvariant
<1>4. QED BY <1>1, <1>3, CallKeepsErrors, ProducingStays DEF HandleInvariant

\* The locals of one thread and its result change, and nothing else.
LEMMA LocalsKeepErrors ==
    ASSUME HandleInvariant, NEW t \in Threads, Depth(t) > 0,
           NEW objects \in Seq(Kept), Len(objects) <= MaxLocals, LocalsBecome(t, objects),
           returning' \in [Threads -> Kept], returned' \in [Threads -> Kept],
           unseen' \in [Threads -> ErrorCodes],
           \A u \in Threads \ {t} : /\ returning'[u] = returning[u] /\ returned'[u] = returned[u]
                                    /\ unseen'[u] = unseen[u],
           returned'[t] = Nothing,
           Depth(t) = 1 => returning'[t] \in {Nothing, Success},
           unseen'[t] # NoError => unseen'[t] = returning'[t].error
    PROVE  ErrorInvariant'
<1>1. FrameTypes' /\ \A u \in Threads : Depth(u)' = Depth(u)
    BY LocalsChange, HandleTypes
<1>2. Depth(t) \in Nat /\ Depth(t)' = Depth(t)
    BY <1>1, LocalsType, HandleTypes
<1>3. \A u \in Threads \ {t} : frames'[u] = frames[u]
    BY HandleTypes DEF LocalsBecome, FrameTypes
<1>4. RoomForResults'
    BY <1>3 DEF HandleInvariant, ErrorInvariant, RoomForResults
<1>5. QED BY <1>1, <1>2, <1>4, OneThreadChanges DEF HandleInvariant

\* What is held elsewhere stays.
LEMMA OthersHold ==
    ASSUME HandleInvariant, NEW t \in Threads, Depth(t) > 0,
           NEW objects \in Seq(Kept), Len(objects) <= MaxLocals, LocalsBecome(t, objects),
           \A u \in Threads \ {t} : /\ returning'[u] = returning[u] /\ returned'[u] = returned[u],
           NEW place \in Places, place \notin {<<t, 0, 1>>, <<t, 0, 2>>},
           \A i \in 1..MaxLocals : place # <<t, Depth(t), i>>
    PROVE  HeldAt'[place] = HeldAt[place]
<1>1. PICK u \in Threads, d \in 0..MaxDepth, i \in 1..MaxLocals : place = <<u, d, i>>
    BY PlaceTypes
<1>2. CASE d = 0
    <2>1. u # t \/ (i # 1 /\ i # 2)
        BY <1>1, <1>2
    <2>2. ObjectAt(u, d, i)' = ObjectAt(u, d, i)
        BY <1>2, <2>1 DEF ObjectAt
    <2>3. QED BY <1>1, <2>2 DEF HeldAt
<1>3. CASE d # 0
    <2>1. d \in 1..MaxDepth /\ (u # t \/ d # Depth(t))
        BY <1>1, <1>3
    <2>2. QED BY <1>1, <2>1, LocalsHold, HandleTypes
<1>4. QED BY <1>2, <1>3

\* A step of a thread that changes its locals and its result moves no producer but
\* between the places it names.
LEMMA ThreadHolds ==
    ASSUME HandleInvariant, NEW t \in Threads, Depth(t) > 0,
           NEW objects \in Seq(Kept), Len(objects) <= MaxLocals, LocalsBecome(t, objects),
           \A u \in Threads \ {t} : returning'[u] = returning[u] /\ returned'[u] = returned[u],
           NEW from \in Places, NEW to \in Places,
           <<t, 0, 1>> \notin {from, to} => HeldAt'[<<t, 0, 1>>] = HeldAt[<<t, 0, 1>>],
           <<t, 0, 2>> \notin {from, to} => HeldAt'[<<t, 0, 2>>] = HeldAt[<<t, 0, 2>>],
           \A i \in 1..MaxLocals : <<t, Depth(t), i>> \notin {from, to} =>
               ProducerIn(objects, i) = ProducerIn(locals(t), i)
    PROVE  \A place \in Places \ {from, to} : HeldAt'[place] = HeldAt[place]
<1>1. Depth(t) \in 1..MaxDepth
    BY LocalsType, HandleTypes
<1>2. ASSUME NEW i \in 1..MaxLocals, <<t, Depth(t), i>> \notin {from, to}
      PROVE  HeldAt'[<<t, Depth(t), i>>] = HeldAt[<<t, Depth(t), i>>]
    <2>1. HeldAt'[<<t, Depth(t), i>>] =
              IF i <= Len(objects) THEN objects[i].d_producer_p ELSE Null
        BY <1>1, LocalsHold, HandleTypes
    <2>2. HeldAt[<<t, Depth(t), i>>] =
              IF i <= Len(locals(t)) THEN locals(t)[i].d_producer_p ELSE Null
        BY LocalHolds, HandleTypes
    <2>3. QED BY <1>2, <2>1, <2>2 DEF ProducerIn
<1>3. ASSUME NEW place \in Places \ {from, to} PROVE HeldAt'[place] = HeldAt[place]
    <2>1. CASE place \in {<<t, 0, 1>>, <<t, 0, 2>>}
        BY <1>3, <2>1
    <2>2. CASE \E i \in 1..MaxLocals : place = <<t, Depth(t), i>>
        BY <1>2, <1>3, <2>2
    <2>3. CASE /\ place \notin {<<t, 0, 1>>, <<t, 0, 2>>}
               /\ \A i \in 1..MaxLocals : place # <<t, Depth(t), i>>
        BY <1>3, <2>3, OthersHold
    <2>4. QED BY <2>1, <2>2, <2>3
<1>4. QED BY <1>3

\* One more local.
LEMMA OneMoreLocal ==
    ASSUME NEW objects \in Seq(Kept), NEW object \in Kept
    PROVE  /\ Append(objects, object) \in Seq(Kept)
           /\ Len(Append(objects, object)) = Len(objects) + 1 /\ Len(objects) \in Nat
           /\ \A i \in 1..(Len(objects) + 1) :
                  Append(objects, object)[i] = IF i <= Len(objects) THEN objects[i] ELSE object
OBVIOUS

\* A result that is looked at and kept, or dropped if it is an error.
LEMMA KeepKeeps == ASSUME HandleInvariant, NEW t \in Threads, Keep(t) PROVE HandleInvariant'
<1> DEFINE object == returned[t]
           objects == IF HasHandle(object) THEN Append(locals(t), object) ELSE locals(t)
<1>1. /\ HasResult(t) /\ LocalsBecome(t, objects) /\ returned' = [returned EXCEPT ![t] = Nothing]
      /\ unseen' = [unseen EXCEPT ![t] = NoError]
      /\ UNCHANGED <<returning, life, registrations, logged>>
    BY DEF Keep
<1>2. /\ ErrorInvariant /\ FrameTypes /\ Results /\ HeldTypes
      /\ object \in Kept /\ Depth(t) > 0 /\ returning[t] = Nothing
    BY <1>1, HandleTypes, NoErrorUnseen DEF HandleInvariant, Results
<1>3. /\ locals(t) \in Seq(Kept) /\ Len(locals(t)) < MaxLocals /\ Len(locals(t)) \in Nat
      /\ Depth(t) \in 1..MaxDepth
    BY <1>1, <1>2, LocalsType DEF HandleInvariant, ErrorInvariant, RoomForResults, HasResult, Depth
<1>4. /\ objects \in Seq(Kept) /\ Len(objects) <= MaxLocals /\ Len(objects) \in Nat
      /\ \A i \in 1..Len(locals(t)) : i <= Len(objects) /\ objects[i] = locals(t)[i]
      /\ Len(objects) <= Len(locals(t)) + 1
      /\ IF HasHandle(object)
         THEN Len(objects) = Len(locals(t)) + 1 /\ objects[Len(locals(t)) + 1] = object
         ELSE Len(objects) = Len(locals(t))
    BY <1>2, <1>3, OneMoreLocal, HandlesAssumption
<1> HIDE DEF objects
<1>5. ErrorInvariant'
    BY <1>1, <1>2, <1>4, LocalsKeepErrors, Objects
    DEF ErrorInvariant, Results, ErrorCodes
<1>6. HeldOnce'
    <2> DEFINE from == <<t, 0, 2>>
               to == <<t, Depth(t), Len(locals(t)) + 1>>
    <2>1. /\ from \in Places /\ to \in Places /\ from # to
          /\ Len(locals(t)) + 1 \in 1..MaxLocals /\ HeldAt[to] = Null
        BY <1>2, <1>3, PlaceTypes, LocalHolds, HandlesAssumption
    <2>2. HeldAt[from] = object.d_producer_p /\ HeldAt'[from] = Null
        BY <1>1, <1>2, HeldAtPlace, Objects DEF HoldsProducer, Results
    <2>3. HeldAt'[<<t, 0, 1>>] = HeldAt[<<t, 0, 1>>]
        BY <1>1, HeldAtPlace
    <2>4. HeldAt'[to] = HeldAt[from]
        <3>1. HeldAt'[to] = IF Len(locals(t)) + 1 <= Len(objects)
                            THEN objects[Len(locals(t)) + 1].d_producer_p ELSE Null
            BY <1>1, <1>2, <1>3, <1>4, <2>1, LocalsHold
        <3>2. CASE HasHandle(object)
            BY <1>4, <2>2, <3>1, <3>2
        <3>3. CASE ~HasHandle(object)
            BY <1>2, <1>3, <1>4, <2>2, <3>1, <3>3, HolderHasHandle DEF HoldsProducer
        <3>4. QED BY <3>2, <3>3
    <2>5. ASSUME NEW i \in 1..MaxLocals, <<t, Depth(t), i>> \notin {from, to}
          PROVE  ProducerIn(objects, i) = ProducerIn(locals(t), i)
        <3>1. i # Len(locals(t)) + 1
            BY <2>5
        <3>2. i <= Len(objects) => i <= Len(locals(t))
            BY <1>3, <1>4, <3>1
        <3>3. QED BY <1>4, <3>2 DEF ProducerIn
    <2>6. \A place \in Places \ {from, to} : HeldAt'[place] = HeldAt[place]
        <3>1. \A u \in Threads \ {t} : returning'[u] = returning[u] /\ returned'[u] = returned[u]
            BY <1>1, <1>2 DEF Results
        <3>2. from = <<t, 0, 2>>
            OBVIOUS
        <3> HIDE DEF from, to
        <3>3. /\ Depth(t) > 0 /\ LocalsBecome(t, objects)
              /\ objects \in Seq(Kept) /\ Len(objects) <= MaxLocals
            BY <1>1, <1>2, <1>4
        <3>4. /\ <<t, 0, 1>> \notin {from, to} => HeldAt'[<<t, 0, 1>>] = HeldAt[<<t, 0, 1>>]
              /\ <<t, 0, 2>> \notin {from, to} => HeldAt'[<<t, 0, 2>>] = HeldAt[<<t, 0, 2>>]
            BY <2>3, <3>2
        <3>5. QED BY <2>1, <2>5, <3>1, <3>3, <3>4, ThreadHolds
    <2> HIDE DEF from, to
    <2>7. QED BY <1>1, <1>2, <2>1, <2>2, <2>4, <2>6, ProducerMoves DEF HandleInvariant
<1>7. QED BY <1>1, <1>5, <1>6, ProducingStays DEF HandleInvariant

\* A handle that is moved to a new local.
LEMMA MoveLocalKeeps ==
    ASSUME HandleInvariant, NEW t \in Threads, Running(t), NEW i \in DOMAIN locals(t),
           MoveLocal(t, i)
    PROVE  HandleInvariant'
<1> DEFINE object == locals(t)[i]
           objects == Append([locals(t) EXCEPT ![i] = MovedFrom(object)], object)
<1>1. /\ LocalsBecome(t, objects) /\ HasRoom(t, 1)
      /\ UNCHANGED <<returning, returned, life, registrations, logged, unseen>>
    BY DEF MoveLocal, Moved
<1>2. /\ ErrorInvariant /\ FrameTypes /\ Results /\ HeldTypes /\ Depth(t) > 0
      /\ returned[t] = Nothing /\ returning[t] = Nothing /\ unseen[t] = NoError
    BY HandleTypes, NoErrorUnseen DEF HandleInvariant, Running
<1>3. /\ locals(t) \in Seq(Kept) /\ Depth(t) \in 1..MaxDepth /\ Len(locals(t)) \in Nat
      /\ Len(locals(t)) + 1 <= MaxLocals /\ MaxLocals \in Nat
    BY <1>1, <1>2, LocalsType, HandlesAssumption DEF HasRoom
<1>4. i \in 1..Len(locals(t)) /\ object \in Kept /\ MovedFrom(object) \in Kept
    BY <1>3, MovedObjects
<1>5. /\ objects \in Seq(Kept) /\ Len(objects) = Len(locals(t)) + 1
      /\ objects[Len(locals(t)) + 1] = object /\ objects[i] = MovedFrom(object)
      /\ \A j \in 1..Len(locals(t)) : j # i => objects[j] = locals(t)[j]
    <2> HIDE DEF object
    <2>1. /\ [locals(t) EXCEPT ![i] = MovedFrom(object)] \in Seq(Kept)
          /\ Len([locals(t) EXCEPT ![i] = MovedFrom(object)]) = Len(locals(t))
          /\ \A j \in 1..Len(locals(t)) : [locals(t) EXCEPT ![i] = MovedFrom(object)][j] =
                 IF j = i THEN MovedFrom(object) ELSE locals(t)[j]
        BY <1>3, <1>4
    <2>2. QED BY <1>3, <1>4, <2>1, OneMoreLocal
<1> HIDE DEF objects
<1>6. ErrorInvariant'
    BY <1>1, <1>2, <1>3, <1>5, LocalsKeepErrors DEF ErrorInvariant, Results
<1>7. HeldOnce'
    <2> DEFINE from == <<t, Depth(t), i>>
               to == <<t, Depth(t), Len(locals(t)) + 1>>
    <2>1. i \in 1..MaxLocals /\ Len(locals(t)) + 1 \in 1..MaxLocals /\ i # Len(locals(t)) + 1
        BY <1>3, <1>4
    <2>2. /\ from \in Places /\ to \in Places /\ from # to
          /\ HeldAt[to] = Null /\ HeldAt[from] = object.d_producer_p
        <3>1. from \in Places /\ HeldAt[from] = object.d_producer_p
            BY <1>2, <1>4, <2>1, LocalHolds
        <3>2. to \in Places /\ HeldAt[to] = Null
            <4>1. ~(Len(locals(t)) + 1 <= Len(locals(t)))
                BY <1>3
            <4>2. QED BY <1>2, <2>1, <4>1, LocalHolds
        <3>3. QED BY <2>1, <3>1, <3>2
    <2>3. HeldAt'[to] = object.d_producer_p /\ HeldAt'[from] = Null
        <3>1. \A j \in 1..MaxLocals : HeldAt'[<<t, Depth(t), j>>] =
                  IF j <= Len(objects) THEN objects[j].d_producer_p ELSE Null
            BY <1>1, <1>2, <1>3, <1>5, LocalsHold
        <3>2. i <= Len(objects) /\ objects[i].d_producer_p = Null
            BY <1>3, <1>4, <1>5, MovedObjects
        <3>3. QED BY <1>5, <2>1, <3>1, <3>2
    <2>4. ASSUME NEW j \in 1..MaxLocals, <<t, Depth(t), j>> \notin {from, to}
          PROVE  ProducerIn(objects, j) = ProducerIn(locals(t), j)
        BY <1>3, <1>5, <2>4 DEF ProducerIn
    <2>5. \A place \in Places \ {from, to} : HeldAt'[place] = HeldAt[place]
        <3>1. \A u \in Threads \ {t} : returning'[u] = returning[u] /\ returned'[u] = returned[u]
            BY <1>1
        <3>2. /\ HeldAt'[<<t, 0, 1>>] = HeldAt[<<t, 0, 1>>]
              /\ HeldAt'[<<t, 0, 2>>] = HeldAt[<<t, 0, 2>>]
            BY <1>1, HeldAtPlace
        <3> HIDE DEF from, to
        <3>3. /\ Depth(t) > 0 /\ LocalsBecome(t, objects)
              /\ objects \in Seq(Kept) /\ Len(objects) <= MaxLocals
            BY <1>1, <1>2, <1>3, <1>5
        <3>4. QED BY <2>2, <2>4, <3>1, <3>2, <3>3, ThreadHolds
    <2> HIDE DEF from, to
    <2>6. QED BY <1>1, <1>2, <2>2, <2>3, <2>5, ProducerMoves DEF HandleInvariant
<1>8. QED BY <1>1, <1>6, <1>7, ProducingStays DEF HandleInvariant

\* A handle that is returned: it moves to the result.
LEMMA ReturnLocalKeeps ==
    ASSUME HandleInvariant, NEW t \in Threads, Running(t), NEW i \in DOMAIN locals(t),
           ReturnLocal(t, i)
    PROVE  HandleInvariant'
<1> DEFINE object == locals(t)[i]
           objects == [locals(t) EXCEPT ![i] = MovedFrom(object)]
<1>1. /\ LocalsBecome(t, objects) /\ Depth(t) > 1 /\ HoldsProducer(object)
      /\ returning' = [returning EXCEPT ![t] = object]
      /\ UNCHANGED <<returned, life, registrations, logged, unseen>>
    BY DEF ReturnLocal, Moved, ReturnsResult
<1>2. /\ ErrorInvariant /\ FrameTypes /\ Results /\ HeldTypes /\ Depth(t) > 0
      /\ returned[t] = Nothing /\ returning[t] = Nothing /\ unseen[t] = NoError
    BY HandleTypes, NoErrorUnseen DEF HandleInvariant, Running
<1>3. /\ locals(t) \in Seq(Kept) /\ Depth(t) \in 1..MaxDepth
      /\ Len(locals(t)) \in 0..MaxLocals /\ MaxLocals \in Nat
    BY <1>2, LocalsType, HandlesAssumption
<1>4. i \in 1..Len(locals(t)) /\ object \in Kept /\ MovedFrom(object) \in Kept
    BY <1>3, MovedObjects
<1>5. /\ objects \in Seq(Kept) /\ Len(objects) = Len(locals(t)) /\ Len(objects) <= MaxLocals
      /\ objects[i] = MovedFrom(object)
      /\ \A j \in 1..Len(locals(t)) : j # i => objects[j] = locals(t)[j]
    <2> HIDE DEF object
    <2>1. QED BY <1>3, <1>4
<1> HIDE DEF objects
<1>6. ErrorInvariant'
    <2>1. returning' \in [Threads -> Kept] /\ returned' \in [Threads -> Kept]
        BY <1>1, <1>2, <1>4 DEF Results
    <2>2. Depth(t) # 1
        BY <1>1
    <2>3. QED BY <1>1, <1>2, <1>3, <1>5, <2>1, <2>2, LocalsKeepErrors DEF ErrorInvariant, Results
<1>7. HeldOnce'
    <2> DEFINE from == <<t, Depth(t), i>>
               to == <<t, 0, 1>>
    <2>1. i \in 1..MaxLocals
        BY <1>3, <1>4
    <2>2. /\ from \in Places /\ to \in Places /\ from # to
          /\ HeldAt[to] = Null /\ HeldAt[from] = object.d_producer_p
        <3>1. from \in Places /\ HeldAt[from] = object.d_producer_p
            BY <1>2, <1>4, <2>1, LocalHolds
        <3>2. to \in Places /\ HeldAt[to] = Null
            BY <1>2, HeldAtPlace, PlaceTypes, Objects DEF HoldsProducer
        <3>3. QED BY <1>2, <3>1, <3>2
    <2>3. HeldAt'[to] = object.d_producer_p /\ HeldAt'[<<t, 0, 2>>] = HeldAt[<<t, 0, 2>>]
        BY <1>1, <1>2, HeldAtPlace DEF Results
    <2>4. HeldAt'[from] = Null
        <3>1. \A j \in 1..MaxLocals : HeldAt'[<<t, Depth(t), j>>] =
                  IF j <= Len(objects) THEN objects[j].d_producer_p ELSE Null
            BY <1>1, <1>2, <1>3, <1>5, LocalsHold
        <3>2. i <= Len(objects) /\ objects[i].d_producer_p = Null
            BY <1>3, <1>4, <1>5, MovedObjects
        <3>3. QED BY <2>1, <3>1, <3>2
    <2>5. ASSUME NEW j \in 1..MaxLocals, <<t, Depth(t), j>> \notin {from, to}
          PROVE  ProducerIn(objects, j) = ProducerIn(locals(t), j)
        BY <1>3, <1>5, <2>5 DEF ProducerIn
    <2>6. \A place \in Places \ {from, to} : HeldAt'[place] = HeldAt[place]
        <3>1. \A u \in Threads \ {t} : returning'[u] = returning[u] /\ returned'[u] = returned[u]
            BY <1>1, <1>2 DEF Results
        <3>2. <<t, 0, 1>> \in {from, to}
            OBVIOUS
        <3> HIDE DEF from, to
        <3>3. /\ <<t, 0, 1>> \notin {from, to} => HeldAt'[<<t, 0, 1>>] = HeldAt[<<t, 0, 1>>]
              /\ <<t, 0, 2>> \notin {from, to} => HeldAt'[<<t, 0, 2>>] = HeldAt[<<t, 0, 2>>]
            BY <2>3, <3>2
        <3>4. /\ Depth(t) > 0 /\ LocalsBecome(t, objects)
              /\ objects \in Seq(Kept) /\ Len(objects) <= MaxLocals
            BY <1>1, <1>2, <1>5
        <3>5. QED BY <2>2, <2>5, <3>1, <3>3, <3>4, ThreadHolds
    <2> HIDE DEF from, to
    <2>7. QED BY <1>1, <1>2, <2>2, <2>3, <2>4, <2>6, ProducerMoves DEF HandleInvariant
<1>8. QED BY <1>1, <1>6, <1>7, ProducingStays DEF HandleInvariant

\* A handle that is assigned: what is left of the result is a local too.
LEMMA TryAssignKeeps ==
    ASSUME HandleInvariant, NEW t \in Threads, TryAssign(t) PROVE HandleInvariant'
<1> DEFINE object == returned[t]
           objects == locals(t) \o <<MovedFrom(object), object>>
<1>1. /\ HasResult(t) /\ HasHandle(object) /\ HasRoom(t, 2) /\ LocalsBecome(t, objects)
      /\ returned' = [returned EXCEPT ![t] = Nothing]
      /\ UNCHANGED <<returning, life, registrations, logged, unseen>>
    BY DEF TryAssign, Moved
<1>2. /\ ErrorInvariant /\ FrameTypes /\ Results /\ HeldTypes
      /\ object \in Kept /\ Depth(t) > 0 /\ returning[t] = Nothing
    BY <1>1, HandleTypes, NoErrorUnseen DEF HandleInvariant, Results
<1>3. unseen[t] = NoError
    BY <1>1, <1>2, NoErrorUnseen DEF Kept
<1>4. /\ locals(t) \in Seq(Kept) /\ Len(locals(t)) \in Nat /\ Depth(t) \in 1..MaxDepth
      /\ Len(locals(t)) + 2 <= MaxLocals /\ MaxLocals \in Nat
    BY <1>1, <1>2, LocalsType, HandlesAssumption DEF HasRoom
<1>5. /\ objects \in Seq(Kept) /\ Len(objects) = Len(locals(t)) + 2 /\ Len(objects) <= MaxLocals
      /\ objects[Len(locals(t)) + 1].d_producer_p = Null
      /\ objects[Len(locals(t)) + 2] = object
      /\ \A j \in 1..Len(locals(t)) : objects[j] = locals(t)[j]
    <2>1. MovedFrom(object) \in Kept /\ MovedFrom(object).d_producer_p = Null
        BY <1>2, MovedObjects
    <2> HIDE DEF object
    <2>2. QED BY <1>2, <1>4, <2>1
<1> HIDE DEF objects
<1>6. ErrorInvariant'
    BY <1>1, <1>2, <1>3, <1>5, LocalsKeepErrors, Objects DEF ErrorInvariant, Results
<1>7. HeldOnce'
    <2> DEFINE from == <<t, 0, 2>>
               to == <<t, Depth(t), Len(locals(t)) + 2>>
    <2>1. Len(locals(t)) + 2 \in 1..MaxLocals /\ ~(Len(locals(t)) + 2 <= Len(locals(t)))
        BY <1>4
    <2>2. from \in Places /\ to \in Places /\ from # to /\ HeldAt[to] = Null
        BY <1>2, <1>4, <2>1, PlaceTypes, LocalHolds
    <2>3. /\ HeldAt[from] = object.d_producer_p /\ HeldAt'[from] = Null
          /\ HeldAt'[<<t, 0, 1>>] = HeldAt[<<t, 0, 1>>]
        BY <1>1, <1>2, HeldAtPlace, Objects DEF HoldsProducer, Results
    <2>4. HeldAt'[to] = object.d_producer_p
        <3>1. HeldAt'[to] = IF Len(locals(t)) + 2 <= Len(objects)
                            THEN objects[Len(locals(t)) + 2].d_producer_p ELSE Null
            BY <1>1, <1>2, <1>4, <1>5, <2>1, LocalsHold
        <3>2. QED BY <1>4, <1>5, <3>1
    <2>5. ASSUME NEW j \in 1..MaxLocals, <<t, Depth(t), j>> \notin {from, to}
          PROVE  ProducerIn(objects, j) = ProducerIn(locals(t), j)
        <3>1. j # Len(locals(t)) + 2
            BY <2>5
        <3>2. j <= Len(objects) => j <= Len(locals(t)) \/ j = Len(locals(t)) + 1
            BY <1>4, <1>5, <3>1
        <3>3. QED BY <1>4, <1>5, <3>1, <3>2 DEF ProducerIn
    <2>6. \A place \in Places \ {from, to} : HeldAt'[place] = HeldAt[place]
        <3>1. \A u \in Threads \ {t} : returning'[u] = returning[u] /\ returned'[u] = returned[u]
            BY <1>1, <1>2 DEF Results
        <3>2. <<t, 0, 2>> \in {from, to}
            OBVIOUS
        <3> HIDE DEF from, to
        <3>3. /\ Depth(t) > 0 /\ LocalsBecome(t, objects)
              /\ objects \in Seq(Kept) /\ Len(objects) <= MaxLocals
            BY <1>1, <1>2, <1>5
        <3>4. /\ <<t, 0, 1>> \notin {from, to} => HeldAt'[<<t, 0, 1>>] = HeldAt[<<t, 0, 1>>]
              /\ <<t, 0, 2>> \notin {from, to} => HeldAt'[<<t, 0, 2>>] = HeldAt[<<t, 0, 2>>]
            BY <2>3, <3>2
        <3>5. QED BY <2>2, <2>5, <3>1, <3>3, <3>4, ThreadHolds
    <2> HIDE DEF from, to
    <2>7. QED BY <1>1, <1>2, <2>2, <2>3, <2>4, <2>6, ProducerMoves DEF HandleInvariant
<1>8. QED BY <1>1, <1>6, <1>7, ProducingStays DEF HandleInvariant

\* All but the last one.
LEMMA AllButLast ==
    ASSUME NEW S, NEW seq \in Seq(S), seq # <<>>
    PROVE  /\ Front(seq) \in Seq(S) /\ Len(Front(seq)) = Len(seq) - 1 /\ Len(seq) \in Nat \ {0}
           /\ \A i \in 1..(Len(seq) - 1) : Front(seq)[i] = seq[i]
<1>1. Len(seq) \in Nat \ {0} /\ Len(seq) - 1 \in 0..Len(seq)
    BY EmptySeq, LenProperties
<1> DEFINE n == Len(seq) - 1
<1>2. n \in Nat
    BY <1>1
<1>3. \A i \in 1..n : seq[i] \in S
    BY <1>1, ElementOfSeq
<1> HIDE DEF n
<1>4. /\ SubSeq(seq, 1, n) \in Seq(S)
      /\ Len(SubSeq(seq, 1, n)) = IF 1 <= n THEN n - 1 + 1 ELSE 0
      /\ \A i \in 1..(n - 1 + 1) : SubSeq(seq, 1, n)[i] = seq[1 + i - 1]
    BY <1>2, <1>3, SubSeqProperties
<1>5. /\ Len(SubSeq(seq, 1, n)) = n
      /\ \A i \in 1..n : SubSeq(seq, 1, n)[i] = seq[i]
    <2>1. (IF 1 <= n THEN n - 1 + 1 ELSE 0) = n /\ n - 1 + 1 = n /\ \A i \in 1..n : 1 + i - 1 = i
        BY <1>2
    <2>2. QED BY <1>4, <2>1
<1>6. QED BY <1>1, <1>2, <1>4, <1>5 DEF Front, n

\* The last local of a function that returns is destroyed, and the producer it holds
\* closed.
LEMMA DestroyLocalKeeps ==
    ASSUME HandleInvariant, NEW t \in Threads, DestroyLocal(t) PROVE HandleInvariant'
<1> DEFINE object == Last(locals(t))
           objects == Front(locals(t))
<1>1. /\ returning[t] # Nothing /\ locals(t) # <<>> /\ LocalsBecome(t, objects)
      /\ life' = Destroyed(object)
      /\ UNCHANGED <<returning, returned, registrations, logged, unseen>>
    BY DEF DestroyLocal
<1>2. /\ ErrorInvariant /\ FrameTypes /\ Results /\ HeldTypes
      /\ Depth(t) > 0 /\ returned[t] = Nothing
    BY <1>1, HandleTypes, NoErrorUnseen DEF HandleInvariant
<1>3. /\ locals(t) \in Seq(Kept) /\ Depth(t) \in 1..MaxDepth
      /\ Len(locals(t)) \in 0..MaxLocals /\ MaxLocals \in Nat
    BY <1>2, LocalsType, HandlesAssumption
<1>4. Len(locals(t)) \in 1..MaxLocals /\ object = locals(t)[Len(locals(t))] /\ object \in Kept
    BY <1>1, <1>3 DEF Last
<1>5. /\ objects \in Seq(Kept) /\ Len(objects) = Len(locals(t)) - 1 /\ Len(objects) <= MaxLocals
      /\ \A j \in 1..(Len(locals(t)) - 1) : objects[j] = locals(t)[j]
    BY <1>1, <1>3, <1>4, AllButLast
<1> HIDE DEF object, objects
<1>6. ErrorInvariant'
    <2>1. /\ returning' \in [Threads -> Kept] /\ returned' \in [Threads -> Kept]
          /\ unseen' \in [Threads -> ErrorCodes] /\ returned'[t] = Nothing
        BY <1>1, <1>2 DEF ErrorInvariant, Results
    <2>2. Depth(t) = 1 => returning'[t] \in {Nothing, Success}
        BY <1>1, <1>2 DEF Results
    <2>3. unseen'[t] # NoError => unseen'[t] = returning'[t].error
        BY <1>1, <1>2, Objects, TooManyIsAnError DEF ErrorInvariant, ErrorsArrive
    <2>4. QED BY <1>1, <1>2, <1>5, <2>1, <2>2, <2>3, LocalsKeepErrors
<1> DEFINE from == <<t, Depth(t), Len(locals(t))>>
<1>7. from \in Places /\ HeldAt[from] = object.d_producer_p
    BY <1>2, <1>3, <1>4, LocalHolds
<1>8. HeldOnce'
    <2>1. HeldAt'[from] = Null
        <3>1. HeldAt'[from] = IF Len(locals(t)) <= Len(objects)
                              THEN objects[Len(locals(t))].d_producer_p ELSE Null
            BY <1>1, <1>2, <1>3, <1>4, <1>5, LocalsHold
        <3>2. QED BY <1>3, <1>5, <3>1
    <2>2. ASSUME NEW j \in 1..MaxLocals, <<t, Depth(t), j>> \notin {from, from}
          PROVE  ProducerIn(objects, j) = ProducerIn(locals(t), j)
        <3>1. j # Len(locals(t))
            BY <2>2
        <3>2. j <= Len(objects) <=> j <= Len(locals(t))
            BY <1>3, <1>5, <3>1
        <3>3. j <= Len(objects) => j \in 1..(Len(locals(t)) - 1)
            BY <1>3, <1>5
        <3>4. QED BY <1>5, <3>2, <3>3 DEF ProducerIn
    <2>3. \A place \in Places \ {from} : HeldAt'[place] = HeldAt[place]
        <3>1. \A u \in Threads \ {t} : returning'[u] = returning[u] /\ returned'[u] = returned[u]
            BY <1>1
        <3>2. /\ HeldAt'[<<t, 0, 1>>] = HeldAt[<<t, 0, 1>>]
              /\ HeldAt'[<<t, 0, 2>>] = HeldAt[<<t, 0, 2>>]
            BY <1>1, HeldAtPlace
        <3> HIDE DEF from
        <3>3. \A place \in Places \ {from, from} : HeldAt'[place] = HeldAt[place]
            BY <1>1, <1>2, <1>5, <1>7, <2>2, <3>1, <3>2, ThreadHolds
        <3>4. QED BY <3>3
    <2>4. life' = IF HeldAt[from] = Null THEN life ELSE [life EXCEPT ![HeldAt[from]] = "closed"]
        BY <1>1, <1>4, <1>7, ClosesLive
    <2> HIDE DEF from
    <2>5. QED BY <1>7, <2>1, <2>3, <2>4, HandleTypes, ObjectIsDestroyed DEF HandleInvariant
<1>9. Producing'
    BY <1>1, <1>4, <1>7, ClosesLive
<1>10. QED BY <1>6, <1>8, <1>9 DEF HandleInvariant

\* A function without locals ends, and what it returned is its caller's result.
LEMMA FunctionEndsKeeps ==
    ASSUME HandleInvariant, NEW t \in Threads, FunctionEnds(t) PROVE HandleInvariant'
<1>1. /\ returning[t] # Nothing /\ locals(t) = <<>>
      /\ frames' = [frames EXCEPT ![t] = Front(@)]
      /\ returned' = [returned EXCEPT ![t] = IF Depth(t) > 1 THEN returning[t] ELSE Nothing]
      /\ returning' = [returning EXCEPT ![t] = Nothing]
      /\ UNCHANGED <<life, registrations, logged, unseen>>
    BY DEF FunctionEnds, ReturnsResult
<1>2. /\ ErrorInvariant /\ FrameTypes /\ Results /\ HeldTypes
      /\ Depth(t) > 0 /\ returned[t] = Nothing
    BY <1>1, HandleTypes, NoErrorUnseen DEF HandleInvariant
<1>3. /\ frames[t] \in Seq(Seq(Kept)) /\ Depth(t) = Len(frames[t]) /\ Depth(t) \in 1..MaxDepth
      /\ frames[t][Depth(t)] = <<>> /\ frames[t] # <<>> /\ MaxDepth \in Nat
    BY <1>1, <1>2, LocalsType, HandlesAssumption DEF FrameTypes, Depth
<1>4. /\ frames'[t] = Front(frames[t]) /\ Front(frames[t]) \in Seq(Seq(Kept))
      /\ Len(Front(frames[t])) = Depth(t) - 1
      /\ \A d \in 1..(Depth(t) - 1) : Front(frames[t])[d] = frames[t][d]
      /\ \A u \in Threads \ {t} : frames'[u] = frames[u]
    BY <1>1, <1>2, <1>3, AllButLast DEF FrameTypes
<1>5. Depth(t)' = Depth(t) - 1 /\ \A u \in Threads \ {t} : Depth(u)' = Depth(u)
    BY <1>4 DEF Depth
<1>6. \A d \in 1..(Depth(t) - 1) : frames'[t][d] = frames[t][d] /\ Len(frames'[t][d]) < MaxLocals
    <2> SUFFICES ASSUME NEW d \in 1..(Depth(t) - 1)
                 PROVE  frames'[t][d] = frames[t][d] /\ Len(frames[t][d]) < MaxLocals
        BY <1>4
    <2>1. d \in 1..Depth(t) /\ d < Depth(t)
        BY <1>3
    <2>2. QED BY <1>2, <1>4, <2>1 DEF FrameTypes
<1>7. FrameTypes'
    <2>1. frames' \in [Threads -> Seq(Seq(Kept))]
        BY <1>1, <1>2, <1>4 DEF FrameTypes
    <2>2. ASSUME NEW u \in Threads, NEW d \in 1..Depth(u)'
          PROVE  /\ Len(frames'[u][d]) <= MaxLocals
                 /\ d < Depth(u)' => Len(frames'[u][d]) < MaxLocals
        <3>1. CASE u = t
            <4>1. Len(frames'[t][d]) < MaxLocals
                BY <1>5, <1>6, <3>1
            <4>2. Len(frames'[t][d]) \in Nat
                BY <1>4, <1>5, <3>1
            <4>3. QED BY <3>1, <4>1, <4>2, HandlesAssumption
        <3>2. CASE u # t
            <4>1. frames'[u] = frames[u] /\ Depth(u)' = Depth(u)
                BY <1>4, <1>5, <3>2
            <4>2. QED BY <1>2, <4>1 DEF FrameTypes
        <3>3. QED BY <3>1, <3>2
    <2>3. \A u \in Threads : Depth(u)' <= MaxDepth
        <3>1. Depth(t)' <= MaxDepth
            BY <1>3, <1>5
        <3>2. QED BY <1>2, <1>5, <3>1 DEF FrameTypes
    <2>4. QED BY <2>1, <2>2, <2>3 DEF FrameTypes
<1>8. Depth(t) = 1 \/ Depth(t) > 1
    <2>1. \A n \in 1..MaxDepth : n = 1 \/ n > 1
        BY HandlesAssumption
    <2>2. QED BY <1>3, <2>1
<1>9. ErrorInvariant'
    <2>1. returning' \in [Threads -> Kept] /\ returned' \in [Threads -> Kept]
        BY <1>1, <1>2, Objects DEF Results
    <2>2. returning'[t] = Nothing /\ (Depth(t) <= 1 => returned'[t] = Nothing)
        BY <1>1, <1>2, <1>3 DEF Results
    <2>3. RoomForResults'
        <3>1. \A u \in Threads \ {t} : returned'[u] # Nothing =>
                  Len(frames'[u][Len(frames'[u])]) < MaxLocals
            BY <1>1, <1>2, <1>4 DEF ErrorInvariant, Results, RoomForResults
        <3>2. returned'[t] # Nothing => Len(frames'[t][Len(frames'[t])]) < MaxLocals
            <4> SUFFICES ASSUME returned'[t] # Nothing
                         PROVE  Len(frames'[t][Len(frames'[t])]) < MaxLocals
                OBVIOUS
            <4>1. Depth(t) - 1 \in 1..(Depth(t) - 1) /\ Len(frames'[t]) = Depth(t) - 1
                BY <1>3, <1>4, <2>2
            <4>2. QED BY <1>6, <4>1
        <3>3. QED BY <3>1, <3>2 DEF RoomForResults
    <2>4. unseen'[t] # NoError => unseen'[t] \in {returning'[t].error, returned'[t].error}
        <3>1. unseen[t] # NoError => unseen[t] = returning[t].error
            BY <1>2, Objects, TooManyIsAnError DEF ErrorInvariant, ErrorsArrive
        <3>2. Depth(t) = 1 => returning[t] = Success
            BY <1>1, <1>2 DEF Results
        <3>3. Depth(t) > 1 => returned'[t] = returning[t]
            BY <1>1, <1>2 DEF Results
        <3>4. QED BY <1>1, <1>8, <3>1, <3>2, <3>3, Objects
    <2>5. Depth(t)' = 0 => returned'[t] = Nothing
        BY <1>3, <1>5, <2>2
    <2>6. QED BY <1>1, <1>2, <1>5, <1>7, <2>1, <2>2, <2>3, <2>4, <2>5, OneThreadChanges
          DEF ErrorInvariant, Results
<1>10. HeldOnce'
    <2> DEFINE from == <<t, 0, 1>>
               to == <<t, 0, 2>>
    <2>1. /\ from \in Places /\ to \in Places /\ from # to
          /\ HeldAt[from] = returning[t].d_producer_p /\ HeldAt[to] = Null /\ HeldAt'[from] = Null
        BY <1>1, <1>2, HeldAtPlace, PlaceTypes, Objects DEF HoldsProducer, Results
    <2>2. HeldAt'[to] = HeldAt[from]
        <3>1. HeldAt'[to] = returned'[t].d_producer_p
            BY HeldAtPlace
        <3>2. CASE Depth(t) > 1
            BY <1>1, <1>2, <2>1, <3>1, <3>2 DEF Results
        <3>3. CASE Depth(t) = 1
            BY <1>1, <1>2, <2>1, <3>1, <3>3, Objects DEF HoldsProducer, Results
        <3>4. QED BY <1>8, <3>2, <3>3
    <2>3. ASSUME NEW place \in Places \ {from, to} PROVE HeldAt'[place] = HeldAt[place]
        <3>1. PICK u \in Threads, d \in 0..MaxDepth, i \in 1..MaxLocals : place = <<u, d, i>>
            BY <2>3, PlaceTypes
        <3>2. ObjectAt(u, d, i)' = ObjectAt(u, d, i)
            <4>1. CASE d = 0
                <5>1. u # t \/ (i # 1 /\ i # 2)
                    BY <2>3, <3>1, <4>1
                <5>2. QED BY <1>1, <1>2, <4>1, <5>1 DEF ObjectAt, Results
            <4>2. CASE d # 0 /\ u # t
                <5>1. frames'[u] = frames[u] /\ Depth(u)' = Depth(u)
                    BY <1>4, <1>5, <4>2
                <5>2. QED BY <4>2, <5>1 DEF ObjectAt
            <4>3. CASE d # 0 /\ u = t /\ d <= Depth(t) - 1
                <5>1. d \in 1..(Depth(t) - 1) /\ d <= Depth(t) /\ Depth(t)' = Depth(t) - 1
                    BY <1>3, <1>5, <4>3
                <5>2. frames'[t][d] = frames[t][d]
                    BY <1>6, <5>1
                <5>3. QED BY <4>3, <5>1, <5>2 DEF ObjectAt
            <4>4. CASE d # 0 /\ u = t /\ ~(d <= Depth(t) - 1)
                <5>1. ObjectAt(t, d, i)' = Nothing
                    BY <1>5, <4>4 DEF ObjectAt
                <5>2. d <= Depth(t) => d = Depth(t)
                    BY <1>3, <4>4
                <5>3. ~(i <= Len(<<>>))
                    OBVIOUS
                <5>4. ObjectAt(t, d, i) = Nothing
                    BY <1>3, <4>4, <5>2, <5>3 DEF ObjectAt
                <5>5. QED BY <4>4, <5>1, <5>4
            <4>5. QED BY <4>1, <4>2, <4>3, <4>4
        <3>3. QED BY <3>1, <3>2 DEF HeldAt
    <2> HIDE DEF from, to
    <2>4. QED BY <1>1, <1>2, <2>1, <2>2, <2>3, ProducerMoves DEF HandleInvariant
<1>11. QED BY <1>1, <1>9, <1>10, ProducingStays DEF HandleInvariant

\* A handle moves to a local of another thread.
LEMMA HandOverKeeps ==
    ASSUME HandleInvariant, NEW t \in Threads, Running(t), NEW i \in DOMAIN locals(t),
           NEW u \in Threads, HandOver(t, i, u)
    PROVE  HandleInvariant'
<1> DEFINE object == locals(t)[i]
           left == [locals(t) EXCEPT ![i] = MovedFrom(object)]
           added == Append(locals(u), object)
<1>1. /\ u # t /\ Running(u) /\ HasRoom(u, 1)
      /\ frames' = [frames EXCEPT ![t][Depth(t)][i] = MovedFrom(@),
                                  ![u][Depth(u)] = Append(@, object)]
      /\ UNCHANGED <<returning, returned, life, registrations, logged, unseen>>
    BY DEF HandOver, Moved
<1>2. /\ ErrorInvariant /\ FrameTypes /\ Results /\ HeldTypes /\ Depth(t) > 0 /\ Depth(u) > 0
      /\ returned[t] = Nothing /\ returned[u] = Nothing
    BY <1>1, HandleTypes, NoErrorUnseen DEF HandleInvariant, Running
<1>3. /\ locals(t) \in Seq(Kept) /\ Depth(t) \in 1..MaxDepth /\ locals(t) = frames[t][Depth(t)]
      /\ Len(locals(t)) \in 0..MaxLocals
      /\ locals(u) \in Seq(Kept) /\ Depth(u) \in 1..MaxDepth /\ locals(u) = frames[u][Depth(u)]
      /\ Len(locals(u)) \in 0..MaxLocals
    BY <1>2, LocalsType
<1>4. Len(locals(u)) + 1 <= MaxLocals /\ Len(locals(u)) \in Nat /\ MaxLocals \in Nat
    BY <1>1, <1>3, HandlesAssumption DEF HasRoom
<1>5. i \in 1..Len(locals(t)) /\ object \in Kept
      /\ MovedFrom(object) \in Kept /\ MovedFrom(object).d_producer_p = Null
    <2>1. i \in 1..Len(locals(t)) /\ object \in Kept
        BY <1>3
    <2> HIDE DEF object
    <2>2. QED BY <2>1, MovedObjects
<1>6. /\ left \in Seq(Kept) /\ Len(left) = Len(locals(t)) /\ left[i] = MovedFrom(object)
      /\ \A j \in 1..Len(locals(t)) : j # i => left[j] = locals(t)[j]
    <2> HIDE DEF object
    <2>1. QED BY <1>3, <1>5
<1>7. /\ added \in Seq(Kept) /\ Len(added) = Len(locals(u)) + 1
      /\ added[Len(locals(u)) + 1] = object
      /\ \A j \in 1..Len(locals(u)) : added[j] = locals(u)[j]
    <2> HIDE DEF object
    <2>1. QED BY <1>3, <1>4, <1>5, OneMoreLocal
<1>8. /\ frames'[t] = [frames[t] EXCEPT ![Depth(t)] = left]
      /\ frames'[u] = [frames[u] EXCEPT ![Depth(u)] = added]
      /\ \A v \in Threads \ {t, u} : frames'[v] = frames[v]
      /\ DOMAIN frames' = Threads /\ frames' = [v \in Threads |-> frames'[v]]
    BY <1>1, <1>2, <1>3 DEF FrameTypes
<1> HIDE DEF left, added
<1> DEFINE top(v) == IF v = t THEN left ELSE added
<1>9. ASSUME NEW v \in {t, u}
      PROVE  /\ frames'[v] \in Seq(Seq(Kept)) /\ Depth(v)' = Depth(v)
             /\ \A d \in 1..Depth(v) :
                    frames'[v][d] = IF d = Depth(v) THEN top(v) ELSE frames[v][d]
    <2>1. /\ frames[v] \in Seq(Seq(Kept)) /\ Depth(v) = Len(frames[v])
          /\ Depth(v) \in 1..Len(frames[v])
        BY <1>2, <1>3 DEF FrameTypes, Depth
    <2>2. top(v) \in Seq(Kept) /\ frames'[v] = [frames[v] EXCEPT ![Depth(v)] = top(v)]
        BY <1>1, <1>6, <1>7, <1>8
    <2> HIDE DEF top
    <2>3. QED BY <2>1, <2>2 DEF Depth
<1>10. /\ \A v \in Threads : Depth(v)' = Depth(v)
       /\ \A v \in Threads \ {t, u} : frames'[v] = frames[v]
    BY <1>8, <1>9 DEF Depth
<1>11. /\ top(t) = left /\ top(u) = added
       /\ Len(left) <= MaxLocals /\ Len(added) <= MaxLocals
    BY <1>1, <1>3, <1>4, <1>6, <1>7
<1>12. FrameTypes'
    <2>1. frames' \in [Threads -> Seq(Seq(Kept))]
        BY <1>2, <1>8, <1>9 DEF FrameTypes
    <2>2. ASSUME NEW v \in Threads, NEW d \in 1..Depth(v)'
          PROVE  /\ Len(frames'[v][d]) <= MaxLocals
                 /\ d < Depth(v)' => Len(frames'[v][d]) < MaxLocals
        <3>1. d \in 1..Depth(v) /\ Depth(v)' = Depth(v)
            BY <1>10
        <3>2. CASE v \notin {t, u} \/ d # Depth(v)
            <4>1. frames'[v][d] = frames[v][d]
                BY <1>9, <1>10, <3>1, <3>2
            <4>2. QED BY <1>2, <3>1, <4>1 DEF FrameTypes
        <3>3. CASE v \in {t, u} /\ d = Depth(v)
            <4>1. frames'[v][d] = top(v) /\ Len(top(v)) <= MaxLocals
                BY <1>9, <1>11, <3>1, <3>3
            <4>2. ~(Depth(v) < Depth(v))
                BY <1>3, <3>3
            <4> HIDE DEF top
            <4>3. QED BY <3>1, <3>3, <4>1, <4>2
        <3>4. QED BY <3>2, <3>3
    <2>3. \A v \in Threads : Depth(v)' <= MaxDepth
        BY <1>2, <1>10 DEF FrameTypes
    <2>4. QED BY <2>1, <2>2, <2>3 DEF FrameTypes
<1>13. ErrorInvariant'
    <2>1. RoomForResults'
        BY <1>1, <1>2, <1>10 DEF ErrorInvariant, RoomForResults
    <2>2. Results'
        BY <1>1, <1>2, <1>10 DEF Results
    <2>3. QED BY <1>1, <1>2, <1>12, <2>1, <2>2 DEF ErrorInvariant, ErrorsArrive
<1>14. HeldOnce'
    <2> DEFINE from == <<t, Depth(t), i>>
               to == <<u, Depth(u), Len(locals(u)) + 1>>
    <2>1. ASSUME NEW v \in Threads, NEW d \in 0..MaxDepth, NEW j \in 1..MaxLocals,
                 d = 0 \/ v \notin {t, u} \/ d # Depth(v)
          PROVE  HeldAt'[<<v, d, j>>] = HeldAt[<<v, d, j>>]
        <3>1. Depth(v)' = Depth(v)
            BY <1>10
        <3>2. d # 0 /\ d <= Depth(v) => frames'[v][d] = frames[v][d]
            <4> SUFFICES ASSUME d # 0, d <= Depth(v) PROVE frames'[v][d] = frames[v][d]
                OBVIOUS
            <4>1. d \in 1..Depth(v)
                BY <1>2 DEF FrameTypes, Depth
            <4>2. QED BY <1>9, <1>10, <2>1, <4>1
        <3>3. ObjectAt(v, d, j)' = ObjectAt(v, d, j)
            <4>1. CASE d = 0
                BY <1>1, <4>1 DEF ObjectAt
            <4>2. CASE d # 0 /\ d <= Depth(v)
                <5>1. frames'[v][d] = frames[v][d]
                    BY <3>2, <4>2
                <5>2. QED BY <3>1, <4>2, <5>1 DEF ObjectAt
            <4>3. CASE d # 0 /\ ~(d <= Depth(v))
                BY <3>1, <4>3 DEF ObjectAt
            <4>4. QED BY <4>1, <4>2, <4>3
        <3>4. QED BY <3>3, PlaceTypes DEF HeldAt
    <2>2. ASSUME NEW v \in {t, u}, NEW j \in 1..MaxLocals
          PROVE  HeldAt'[<<v, Depth(v), j>>] =
                     IF j <= Len(top(v)) THEN top(v)[j].d_producer_p ELSE Null
        <3>1. Depth(v) \in 1..MaxDepth /\ v \in Threads
            BY <1>3
        <3>2. PICK d \in 1..MaxDepth : d = Depth(v)
            BY <3>1
        <3>3. d \in 0..MaxDepth /\ d # 0 /\ d \in 1..d
            BY PlaceTypes
        <3>4. Depth(v)' = d /\ frames'[v][d] = top(v)
            BY <1>9, <3>2, <3>3
        <3> HIDE DEF top
        <3>5. ObjectAt(v, d, j)' = IF j <= Len(top(v)) THEN top(v)[j] ELSE Nothing
            BY <3>3, <3>4 DEF ObjectAt
        <3>6. HeldAt'[<<v, d, j>>] = ObjectAt(v, d, j)'.d_producer_p
            BY <3>1, <3>3, PlaceTypes DEF HeldAt
        <3>7. QED BY <3>2, <3>5, <3>6, Objects DEF HoldsProducer
    <2>3. i \in 1..MaxLocals /\ Len(locals(u)) + 1 \in 1..MaxLocals
        BY <1>3, <1>4, <1>5
    <2>4. /\ from \in Places /\ to \in Places /\ from # to
          /\ HeldAt[from] = object.d_producer_p /\ HeldAt[to] = Null
        <3>1. from \in Places /\ HeldAt[from] = object.d_producer_p
            BY <1>2, <1>5, <2>3, LocalHolds
        <3>2. ~(Len(locals(u)) + 1 <= Len(locals(u)))
            BY <1>4
        <3>3. to \in Places /\ HeldAt[to] = Null
            BY <1>2, <2>3, <3>2, LocalHolds
        <3>4. QED BY <1>1, <3>1, <3>3
    <2>5. HeldAt'[from] = Null
        <3>1. i <= Len(left) /\ left[i].d_producer_p = Null
            BY <1>5, <1>6
        <3>2. QED BY <1>11, <2>2, <2>3, <3>1
    <2>6. HeldAt'[to] = object.d_producer_p
        <3>1. Len(locals(u)) + 1 <= Len(added)
            BY <1>4, <1>7
        <3>2. QED BY <1>7, <1>11, <2>2, <2>3, <3>1
    <2>7. ASSUME NEW place \in Places \ {from, to} PROVE HeldAt'[place] = HeldAt[place]
        <3>1. PICK v \in Threads, d \in 0..MaxDepth, j \in 1..MaxLocals : place = <<v, d, j>>
            BY <2>7, PlaceTypes
        <3>2. CASE d = 0 \/ v \notin {t, u} \/ d # Depth(v)
            BY <2>1, <3>1, <3>2
        <3>3. CASE v = t /\ d = Depth(t)
            <4>1. j # i
                BY <2>7, <3>1, <3>3
            <4>2. HeldAt'[place] = IF j <= Len(left) THEN left[j].d_producer_p ELSE Null
                BY <1>11, <2>2, <3>1, <3>3
            <4>3. HeldAt[place] = IF j <= Len(locals(t)) THEN locals(t)[j].d_producer_p ELSE Null
                BY <1>2, <3>1, <3>3, LocalHolds
            <4>4. QED BY <1>3, <1>6, <4>1, <4>2, <4>3
        <3>4. CASE v = u /\ d = Depth(u)
            <4>1. j # Len(locals(u)) + 1
                BY <2>7, <3>1, <3>4
            <4>2. HeldAt'[place] = IF j <= Len(added) THEN added[j].d_producer_p ELSE Null
                BY <1>11, <2>2, <3>1, <3>4
            <4>3. HeldAt[place] = IF j <= Len(locals(u)) THEN locals(u)[j].d_producer_p ELSE Null
                BY <1>2, <3>1, <3>4, LocalHolds
            <4>4. j <= Len(added) <=> j <= Len(locals(u))
                BY <1>4, <1>7, <4>1
            <4>5. QED BY <1>7, <4>2, <4>3, <4>4
        <3>5. QED BY <3>2, <3>3, <3>4
    <2> HIDE DEF from, to
    <2>8. QED BY <1>1, <1>2, <2>4, <2>5, <2>6, <2>7, ProducerMoves DEF HandleInvariant
<1>15. QED BY <1>1, <1>13, <1>14, ProducingStays DEF HandleInvariant

-----------------------------------------------------------------------------
(* The invariant holds.                                                    *)

LEMMA InitIsHeld == Init => HandleInvariant
<1> SUFFICES ASSUME Init PROVE HandleInvariant
    OBVIOUS
<1>1. /\ frames = [t \in Threads |-> <<<<>>>>] /\ life = [p \in Producers |-> "none"]
      /\ returning = [t \in Threads |-> Nothing] /\ returned = [t \in Threads |-> Nothing]
      /\ registrations = [t \in Threads |-> 0] /\ logged = [p \in Producers |-> 0]
      /\ unseen = [t \in Threads |-> NoError]
    BY DEF Init
<1>2. /\ \A t \in Threads : Depth(t) = 1 /\ frames[t][1] = <<>> /\ Len(frames[t][1]) = 0
      /\ <<<<>>>> \in Seq(Seq(Kept))
    BY <1>1 DEF Depth
<1>3. FrameTypes
    BY <1>1, <1>2, HandlesAssumption DEF FrameTypes
<1>4. Results /\ RoomForResults
    BY <1>1, <1>2, Objects DEF Results, RoomForResults
<1>5. ErrorInvariant
    BY <1>1, <1>3, <1>4 DEF ErrorInvariant, ErrorsArrive, ErrorCodes
<1>6. ASSUME NEW place \in Places PROVE HeldAt[place] = Null
    <2>1. PICK t \in Threads, d \in 0..MaxDepth, i \in 1..MaxLocals : place = <<t, d, i>>
        BY PlaceTypes
    <2>2. ObjectAt(t, d, i) = Nothing
        BY <1>1, <1>2 DEF ObjectAt
    <2>3. QED BY <2>1, <2>2, HeldAtPlace, Objects DEF HoldsProducer
<1>7. HeldOnce
    BY <1>1, <1>6 DEF HeldOnce
<1>8. Producing
    <2>1. InSlots = {} /\ IsFiniteSet(InSlots) /\ Cardinality(InSlots) = 0
        BY <1>1, FS_EmptySet DEF InSlots
    <2>2. QED BY <1>1, <2>1, HandlesAssumption DEF Producing
<1>9. QED BY <1>5, <1>7, <1>8 DEF HandleInvariant

LEMMA NextIsHeld == HandleInvariant /\ [Next]_vars => HandleInvariant'
<1> SUFFICES ASSUME HandleInvariant, [Next]_vars PROVE HandleInvariant'
    OBVIOUS
<1>1. ASSUME NEW t \in Threads, Statement(t) PROVE HandleInvariant'
    <2>1. CASE Running(t) /\ \E i \in DOMAIN locals(t) :
                  MoveLocal(t, i) \/ ReturnLocal(t, i) \/ \E u \in Threads : HandOver(t, i, u)
        BY <2>1, MoveLocalKeeps, ReturnLocalKeeps, HandOverKeeps
    <2>2. CASE Call(t) \/ Keep(t) \/ TryAssign(t) \/ DestroyLocal(t) \/ FunctionEnds(t)
        BY <2>2, CallKeeps, KeepKeeps, TryAssignKeeps, DestroyLocalKeeps, FunctionEndsKeeps
    <2>3. CASE Register(t) \/ Try(t)
        BY <2>3, RegisterKeeps, TryKeeps
    <2>4. CASE RegisterFails(t) \/ Fail(t) \/ TryReturns(t) \/ Log(t) \/ Return(t)
        BY <2>4, StatementKeeps
    <2>5. QED BY <1>1, <2>1, <2>2, <2>3, <2>4 DEF Statement
<1>2. CASE UNCHANGED vars
    <2>1. ErrorInvariant'
        BY <1>2 DEF vars, HandleInvariant, ErrorInvariant, FrameTypes, Results, RoomForResults,
                    ErrorsArrive, Depth
    <2>2. \A place \in Places : HeldAt'[place] = HeldAt[place]
        BY <1>2 DEF vars, HeldAt, ObjectAt, Depth
    <2>3. HeldOnce'
        BY <1>2, <2>2, HandleTypes, NothingMoves DEF vars, HandleInvariant
    <2>4. QED BY <1>2, <2>1, <2>3, ProducingStays DEF vars, HandleInvariant
<1>3. QED BY <1>1, <1>2, FreeKeeps DEF Next, Terminated

\* What each object holds, what each function returns and where errors are, in every
\* reachable state: the inductive invariant of the callers (core_log.h:534-563).
THEOREM HandlesAreKept == Spec => []HandleInvariant
<1>1. Init => HandleInvariant
    BY InitIsHeld
<1>2. HandleInvariant /\ [Next]_vars => HandleInvariant'
    BY NextIsHeld
<1>3. QED BY <1>1, <1>2, PTL DEF Spec

\* No more producers take a slot than there are slots, and no stack or function
\* outgrows its bounds (core_log.h:742-756).
THEOREM HandlesAreTyped == Spec => []TypeOK
<1>1. HandleInvariant => TypeOK
    <2> SUFFICES ASSUME HandleInvariant PROVE TypeOK
        OBVIOUS
    <2>1. ASSUME NEW t \in Threads, NEW d \in 1..Depth(t)
          PROVE  frames[t][d] \in Seq(Object) /\ Len(frames[t][d]) <= MaxLocals
        <3>1. /\ frames[t] \in Seq(Seq(Kept)) /\ Len(frames[t][d]) <= MaxLocals
              /\ d \in 1..Len(frames[t])
            BY HandleTypes DEF FrameTypes, Depth
        <3>2. frames[t][d] \in Seq(Kept) /\ Kept \subseteq Object
            BY <3>1 DEF Kept
        <3>3. frames[t][d] \in Seq(Object)
            BY <3>2, SeqMonotonic
        <3>4. QED BY <3>1, <3>3
    <2>2. returning \in [Threads -> Object] /\ returned \in [Threads -> Object]
        BY HandleTypes DEF Results, Kept
    <2>3. QED
        BY <2>1, <2>2, HandleTypes
        DEF HandleInvariant, ErrorInvariant, FrameTypes, Producing, ErrorCodes, TypeOK
<1>2. QED BY <1>1, HandlesAreKept, PTL

\* An error that a call returned is with the function that returns it or with its
\* caller until a caller looks at it, however many functions it passes
\* (core_error.h:408-421).
THEOREM NoErrorIsDropped == Spec => []ErrorsArrive
<1>1. HandleInvariant => ErrorsArrive
    BY DEF HandleInvariant, ErrorInvariant
<1>2. QED BY <1>1, HandlesAreKept, PTL

\* A producer is live for as long as one object holds it, whatever the functions that
\* moved it return: no live producer is lost, and none is held twice
\* (core_log.h:552-563).
THEOREM OneObjectHolds == Spec => []LiveIsHeldOnce
<1>1. HandleInvariant => LiveIsHeldOnce
    <2> SUFFICES ASSUME HandleInvariant, NEW p \in Producers
                 PROVE  /\ Cardinality(Holders(p)) = IF life[p] = "live" THEN 1 ELSE 0
                        /\ \A place \in Holders(p) : At(place).d_owner = p[1]
        BY DEF LiveIsHeldOnce
    <2>1. ASSUME NEW place \in Places
          PROVE  /\ place \in Holders(p) <=> HeldAt[place] = p
                 /\ place \in Holders(p) => At(place).d_owner = p[1]
        <3>1. PICK t \in Threads, d \in 0..MaxDepth, i \in 1..MaxLocals : place = <<t, d, i>>
            BY PlaceTypes
        <3>2. ObjectAt(t, d, i) \in Kept /\ HeldAt[place] = ObjectAt(t, d, i).d_producer_p
            BY <3>1, HandleTypes, ObjectTypes, HeldAtPlace
        <3> DEFINE there == IF d = 0 THEN i <= 2 ELSE d <= Depth(t) /\ i <= Len(frames[t][d])
        <3>3. there => At(place) = ObjectAt(t, d, i)
            <4>1. CASE d = 0
                <5>1. i <= 2 => i = 1 \/ i = 2
                    OBVIOUS
                <5>2. QED BY <3>1, <4>1, <5>1 DEF At, ObjectAt
            <4>2. CASE d # 0
                BY <3>1, <4>2 DEF At, ObjectAt
            <4>3. QED BY <4>1, <4>2
        <3>4. ~there => ObjectAt(t, d, i) = Nothing
            BY HandlesAssumption DEF ObjectAt
        <3>5. place \in Holders(p) <=> there /\ At(place).d_producer_p = p
            BY <3>1 DEF Holders
        <3> HIDE DEF there
        <3>6. place \in Holders(p) <=> HeldAt[place] = p
            BY <3>2, <3>3, <3>4, <3>5, Objects, NullIsNoProducer DEF HoldsProducer
        <3>7. place \in Holders(p) => At(place).d_owner = p[1]
            BY <3>2, <3>3, <3>5, NullIsNoProducer DEF Kept, HoldsProducer
        <3>8. QED BY <3>6, <3>7
    <2>2. Holders(p) \subseteq Places
        BY DEF Holders
    <2>3. CASE life[p] = "live"
        <3>1. PICK place \in Places : HeldAt[place] = p
            BY <2>3 DEF HandleInvariant, HeldOnce
        <3>2. Holders(p) = {place}
            BY <2>1, <2>2, <3>1, NullIsNoProducer DEF HandleInvariant, HeldOnce
        <3>3. QED BY <2>1, <2>2, <2>3, <3>2, FS_Singleton
    <2>4. CASE life[p] # "live"
        <3>1. Holders(p) = {}
            BY <2>1, <2>2, <2>4, NullIsNoProducer DEF HandleInvariant, HeldOnce
        <3>2. QED BY <2>4, <3>1, FS_EmptySet
    <2>5. QED BY <2>3, <2>4
<1>2. QED BY <1>1, HandlesAreKept, PTL

-----------------------------------------------------------------------------
(* The callers keep to ProducerLife.                                       *)

SettledMap == [p \in Producers |-> IF life[p] = "freed" THEN logged[p] ELSE 0]

LifeStep == [Life!Next]_(Life!life_vars)

LEMMA SameSlots == Life!InSlots = InSlots /\ Life!Cardinality(InSlots) = Cardinality(InSlots)
BY DEF Life!InSlots, InSlots, Life!Cardinality, Cardinality

LEMMA LifeStutters == ASSUME UNCHANGED <<life, logged>> PROVE LifeStep
BY DEF LifeStep, Life!life_vars

\* Nothing is settled of a producer that is live or closed.
LEMMA SettledStays ==
    ASSUME HandleInvariant, UNCHANGED logged,
           \A p \in Producers : life'[p] = "freed" <=> life[p] = "freed"
    PROVE  UNCHANGED SettledMap
BY DEF SettledMap

\* An object that held a producer closes it, and no other does anything.
LEMMA DestroyIsInLife ==
    ASSUME HandleInvariant, NEW object \in Kept, NEW place \in Places,
           HeldAt[place] = object.d_producer_p, life' = Destroyed(object), UNCHANGED logged
    PROVE  LifeStep
<1>1. CASE HeldAt[place] = Null
    BY <1>1, ClosesLive, LifeStutters
<1>2. CASE HeldAt[place] # Null
    <2>1. PICK p \in Producers : p = HeldAt[place]
        BY <1>2, HandleTypes DEF HeldTypes
    <2>2. life[p] = "live" /\ life' = [life EXCEPT ![p] = "closed"]
        BY <1>2, <2>1, ClosesLive
    <2>3. UNCHANGED SettledMap
        BY <2>2, HandleTypes, SettledStays
    <2>4. Life!Close(p)
        BY <2>2, <2>3 DEF Life!Close, SettledMap
    <2>5. QED BY <2>4 DEF LifeStep, Life!Next
<1>3. QED BY <1>1, <1>2

LEMMA StatementIsInLife ==
    ASSUME HandleInvariant, NEW t \in Threads, Statement(t) PROVE LifeStep
<1>1. CASE Register(t)
    <2> DEFINE p == <<t, registrations'[t]>>
    <2>1. /\ Cardinality(InSlots) < k_MAX_THREADS /\ UNCHANGED logged
          /\ life' = [life EXCEPT ![p] = "live"]
        BY <1>1 DEF Register, RoomForThread, MovedFrom, Handle
    <2>2. p \in Producers /\ life[p] = "none"
        BY <1>1, RegistersProducer DEF HandleInvariant
    <2>3. PICK q \in Producers : q = p
        BY <2>2
    <2>4. UNCHANGED SettledMap
        BY <2>1, <2>2, HandleTypes, SettledStays
    <2>5. Life!Register(q)
        BY <2>1, <2>2, <2>3, <2>4, SameSlots DEF Life!Register, SettledMap
    <2>6. QED BY <2>5 DEF LifeStep, Life!Next
<1>2. CASE Log(t)
    <2>1. PICK p \in Producers : life[p] = "live" /\ logged' = [logged EXCEPT ![p] = @ + 1]
        BY <1>2, LogsLive
    <2>2. UNCHANGED life
        BY <1>2 DEF Log
    <2>3. UNCHANGED SettledMap
        BY <2>1, <2>2 DEF SettledMap, HandleInvariant, Producing
    <2>4. Life!Log(p)
        BY <2>1, <2>2, <2>3 DEF Life!Log, SettledMap
    <2>5. QED BY <2>4 DEF LifeStep, Life!Next
<1>3. CASE Try(t)
    <2>1. returned[t] \in Kept /\ <<t, 0, 2>> \in Places
          /\ HeldAt[<<t, 0, 2>>] = returned[t].d_producer_p
        BY HandleTypes, HeldAtPlace, PlaceTypes DEF Results
    <2>2. QED BY <1>3, <2>1, DestroyIsInLife DEF Try
<1>4. CASE DestroyLocal(t)
    <2>1. returning[t] # Nothing /\ locals(t) # <<>> /\ life' = Destroyed(Last(locals(t)))
          /\ UNCHANGED logged
        BY <1>4 DEF DestroyLocal
    <2>2. Depth(t) > 0
        BY <2>1, NoErrorUnseen DEF HandleInvariant
    <2>3. locals(t) \in Seq(Kept) /\ Len(locals(t)) \in 0..MaxLocals
        BY <2>2, LocalsType, HandleTypes
    <2>4. Len(locals(t)) \in 1..MaxLocals /\ Last(locals(t)) = locals(t)[Len(locals(t))]
          /\ Last(locals(t)) \in Kept
        BY <2>1, <2>3, HandlesAssumption DEF Last
    <2>5. /\ <<t, Depth(t), Len(locals(t))>> \in Places
          /\ HeldAt[<<t, Depth(t), Len(locals(t))>>] = Last(locals(t)).d_producer_p
        BY <2>2, <2>3, <2>4, HandleTypes, LocalHolds
    <2>6. QED BY <2>1, <2>4, <2>5, DestroyIsInLife
<1>5. CASE \/ Call(t) \/ RegisterFails(t) \/ Fail(t) \/ Keep(t) \/ TryReturns(t)
           \/ TryAssign(t) \/ Return(t) \/ FunctionEnds(t)
    BY <1>5, LifeStutters
    DEF Call, RegisterFails, Fail, Keep, TryReturns, TryAssign, Return, FunctionEnds
<1>6. CASE \E i \in DOMAIN locals(t) :
               MoveLocal(t, i) \/ ReturnLocal(t, i) \/ \E u \in Threads : HandOver(t, i, u)
    BY <1>6, LifeStutters DEF MoveLocal, ReturnLocal, HandOver
<1>7. QED BY <1>1, <1>2, <1>3, <1>4, <1>5, <1>6 DEF Statement

LEMMA FreeIsInLife ==
    ASSUME HandleInvariant, NEW p \in Producers, Free(p) PROVE LifeStep
<1>1. life[p] = "closed" /\ life' = [life EXCEPT ![p] = "freed"] /\ UNCHANGED logged
    BY DEF Free
<1>2. SettledMap' = [SettledMap EXCEPT ![p] = logged[p]]
    BY <1>1, HandleTypes DEF SettledMap
<1>3. Life!Free(p)
    BY <1>1, <1>2 DEF Life!Free, SettledMap
<1>4. QED BY <1>3 DEF LifeStep, Life!Next

\* Whatever callers do with handles and results, each producer lives once: it is
\* registered, logged through only while it is live, closed once, by whichever object
\* held it last, and then freed (core_log.h:66-80).
THEOREM HandlesImplementLife == Spec => ImplementsLife
<1>1. Init => Life!Init
    <2> SUFFICES ASSUME Init PROVE Life!Init
        OBVIOUS
    <2>1. life = [p \in Producers |-> "none"] /\ logged = [p \in Producers |-> 0]
        BY DEF Init
    <2>2. SettledMap = [p \in Producers |-> 0]
        BY <2>1 DEF SettledMap
    <2>3. QED BY <2>1, <2>2 DEF Life!Init, SettledMap
<1>2. HandleInvariant /\ [Next]_vars => [Life!Next]_(Life!life_vars)
    BY StatementIsInLife, FreeIsInLife, LifeStutters DEF Next, Terminated, vars, LifeStep
<1>3. QED BY <1>1, <1>2, HandlesAreKept, PTL DEF Spec, ImplementsLife, Life!Spec
=============================================================================
