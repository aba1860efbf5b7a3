---------------------------- MODULE LoggerProofs ----------------------------
(***************************************************************************)
(* Who owns a producer, for every number of threads, slots, registrations  *)
(* and records: the thread that registered, the slot it is in and the      *)
(* thread that drains it agree about it, so that none uses it once it is   *)
(* freed; and each ring has one producer and one consumer at a time, so    *)
(* that records come out of it in the order they were logged.              *)
(***************************************************************************)
EXTENDS Logger, FiniteSetTheorems, SequenceTheorems, TLAPS

-----------------------------------------------------------------------------
(* The inductive invariant.                                                *)

HandleStates == {"inside", "pushing", "dropping", "counting"}
ThreadStates == HandleStates \union {"outside", "scanning", "refused"}
DrainStates == {"reading phase", "popping", "taking drops", "freeing", "clearing"}
LoggerStates == DrainStates \union {"checking", "loading", "resting", "exited", "destroyed"}

InSlot(p) == \E s \in Slots : d_slots[s] = p

OwnerTypes ==
    /\ d_slots \in [Slots -> Registered \union {Null}]
    /\ heap \subseteq Producers
    /\ d_phase \in [Producers -> {"live", "closed"}]
    /\ thread_at \in [Loggers -> ThreadStates]
    /\ registrations \in [Threads -> 0..MaxRegistrations]
    /\ logger_at \in LoggerStates
    /\ slot \in 1..(k_MAX_THREADS + 1)
    /\ phase \in {"live", "closed"}

\* A producer is in one slot at most, and there while it is allocated, or until the
\* slot it was in has been cleared.
SlotsOwn ==
    /\ \A s, r \in Slots : d_slots[s] # Null /\ d_slots[s] = d_slots[r] => s = r
    /\ \A s \in Slots :
          d_slots[s] # Null => d_slots[s] \in heap \/ (logger_at = "clearing" /\ slot = s)

\* A thread that is registering or registered has its producer, live.
ThreadsOwn ==
    \A t \in Threads :
        thread_at[t] \notin {"outside", "refused"} =>
            /\ registrations[t] \in 1..MaxRegistrations
            /\ <<t, registrations[t]>> \in heap
            /\ d_phase[<<t, registrations[t]>>] = "live"
            /\ thread_at[t] = "scanning" => ~InSlot(<<t, registrations[t]>>)

\* Of the producers a thread has had, those allocated are in a slot; of those it will
\* have, there is nothing yet.
Registrations ==
    \A t \in Threads : \A n \in 1..MaxRegistrations :
        /\ n > registrations[t] =>
              <<t, n>> \notin heap /\ ~InSlot(<<t, n>>) /\ d_phase[<<t, n>>] = "live"
        /\ <<t, n>> \in heap /\ ~(n = registrations[t] /\ thread_at[t] = "scanning")
              => InSlot(<<t, n>>)

\* The thread that drains holds the producer of the slot it is at, and only frees one
\* that is closed.
DrainerHolds ==
    /\ Shared \in heap /\ d_phase[Shared] = "live"
    /\ logger_at \in DrainStates =>
          IF slot \in Slots THEN producer = d_slots[slot] /\ producer # Null
          ELSE producer = Shared
    /\ phase = "closed" =>
          logger_at \in DrainStates /\ slot \in Slots /\ d_phase[producer] = "closed"
    /\ logger_at \in {"freeing", "clearing"} => phase = "closed"
    /\ logger_at = "clearing" => producer \notin heap

OwnerInvariant == OwnerTypes /\ SlotsOwn /\ ThreadsOwn /\ Registrations /\ DrainerHolds

\* What OwnerInvariant speaks of.
owner_vars == <<d_slots, heap, d_phase, thread_at, registrations, logger_at, slot, producer,
                phase>>

-----------------------------------------------------------------------------
(* The producers.                                                          *)

LEMMA SlotTypes ==
    /\ k_MAX_THREADS \in Nat \ {0} /\ 1 \in Slots /\ k_MAX_THREADS + 1 \notin Slots
    /\ \A s \in 1..(k_MAX_THREADS + 1) : s \in Slots => s + 1 \in 1..(k_MAX_THREADS + 1)
BY LoggerAssumption DEF Slots

\* A thread's producers are its own, and not the shared one.
LEMMA ProducerTypes ==
    /\ Shared \in Producers /\ Null \notin Producers
    /\ \A t \in Threads, n \in 1..MaxRegistrations :
          /\ <<t, n>> \in Producers /\ <<t, n>> \in Registered
          /\ <<t, n>> # Null /\ <<t, n>> # Shared
    /\ \A p \in Registered : \E t \in Threads, n \in 1..MaxRegistrations : p = <<t, n>>
<1>1. \A t \in Threads, n \in 1..MaxRegistrations : <<t, n>> # Shared
    BY LoggerAssumption DEF Shared
<1>2. \A t \in Threads, n \in 1..MaxRegistrations : <<t, n>> \in Producers
    BY DEF Producers
<1>3. Shared \in Producers
    BY DEF Producers
<1>4. Null \notin Producers
    BY NullAssumption
<1>5. \A p \in Registered : \E t \in Threads, n \in 1..MaxRegistrations : p = <<t, n>>
    BY DEF Registered, Producers
<1>6. QED BY <1>1, <1>2, <1>3, <1>4, <1>5 DEF Registered

LEMMA ProducerOf ==
    ASSUME NEW t \in Threads
    PROVE  t \in Loggers /\ producer_of(t) = <<t, registrations[t]>>
BY LoggerAssumption DEF producer_of, Loggers

LEMMA InitIsOwned == Init => OwnerInvariant
<1> SUFFICES ASSUME Init PROVE OwnerInvariant
    OBVIOUS
<1>1. /\ d_slots = [s \in Slots |-> Null] /\ heap = {Shared}
      /\ d_phase = [p \in Producers |-> "live"]
      /\ thread_at = [t \in Loggers |-> "outside"]
      /\ registrations = [t \in Threads |-> 0]
      /\ logger_at = "checking" /\ slot = 1 /\ phase = "live"
    BY DEF Init
<1>2. OwnerTypes
    <2>1. registrations \in [Threads -> 0..MaxRegistrations]
        BY <1>1, LoggerAssumption
    <2>2. slot \in 1..(k_MAX_THREADS + 1)
        BY <1>1, SlotTypes
    <2>3. d_slots \in [Slots -> Registered \union {Null}] /\ heap \subseteq Producers
        BY <1>1, ProducerTypes
    <2>4. d_phase \in [Producers -> {"live", "closed"}] /\ thread_at \in [Loggers -> ThreadStates]
        BY <1>1 DEF ThreadStates
    <2>5. logger_at \in LoggerStates /\ phase \in {"live", "closed"}
        BY <1>1 DEF LoggerStates
    <2>6. QED BY <2>1, <2>2, <2>3, <2>4, <2>5 DEF OwnerTypes
<1>3. \A p \in Producers : ~InSlot(p)
    BY <1>1, ProducerTypes DEF InSlot
<1>4. SlotsOwn
    BY <1>1 DEF SlotsOwn
<1>5. ThreadsOwn
    BY <1>1, ProducerOf DEF ThreadsOwn
<1>6. Registrations
    BY <1>1, <1>3, ProducerTypes DEF Registrations
<1>7. DrainerHolds
    BY <1>1, ProducerTypes DEF DrainerHolds, DrainStates
<1>8. QED BY <1>2, <1>4, <1>5, <1>6, <1>7 DEF OwnerInvariant

LEMMA StutterKeeps ==
    ASSUME OwnerInvariant, UNCHANGED owner_vars
    PROVE  OwnerInvariant'
<1>1. \A p : InSlot(p)' = InSlot(p)
    BY DEF owner_vars, InSlot
<1>2. OwnerTypes' /\ SlotsOwn' /\ DrainerHolds'
    BY DEF OwnerInvariant, owner_vars, OwnerTypes, SlotsOwn, DrainerHolds
<1>3. ThreadsOwn' /\ Registrations'
    BY DEF OwnerInvariant, owner_vars, ThreadsOwn, Registrations, InSlot
<1>4. QED BY <1>2, <1>3 DEF OwnerInvariant

-----------------------------------------------------------------------------
(* The threads that log.                                                   *)

\* A call of a handle, or of a foreign thread, gets on; or a refusal returns.
LEMMA CallKeeps ==
    ASSUME OwnerInvariant,
           NEW t \in Loggers, NEW place \in ThreadStates,
           thread_at' = [thread_at EXCEPT ![t] = place],
           t \in Threads =>
               \/ thread_at[t] \in HandleStates /\ place \in HandleStates
               \/ thread_at[t] = "refused" /\ place = "outside",
           UNCHANGED <<d_slots, heap, d_phase, registrations, logger_at, slot, producer, phase>>
    PROVE  OwnerInvariant'
<1>1. OwnerTypes /\ SlotsOwn /\ ThreadsOwn /\ Registrations /\ DrainerHolds
    BY DEF OwnerInvariant
<1>2. thread_at \in [Loggers -> ThreadStates] /\ thread_at' \in [Loggers -> ThreadStates]
    BY <1>1 DEF OwnerTypes
<1>3. thread_at'[t] = place /\ \A u \in Loggers \ {t} : thread_at'[u] = thread_at[u]
    BY <1>2
<1>4. \A u \in Threads :
          /\ thread_at'[u] \notin {"outside", "refused"}
                => thread_at[u] \notin {"outside", "refused"}
          /\ thread_at'[u] = "scanning" => thread_at[u] = "scanning"
          /\ thread_at[u] = "scanning" => thread_at'[u] = "scanning"
    BY <1>3, ProducerOf DEF HandleStates
<1>5. OwnerTypes' /\ SlotsOwn' /\ DrainerHolds'
    BY <1>1, <1>2 DEF OwnerTypes, SlotsOwn, DrainerHolds
<1>6. ThreadsOwn'
    BY <1>1, <1>4 DEF ThreadsOwn, InSlot
<1>7. Registrations'
    BY <1>1, <1>4 DEF Registrations, InSlot
<1>8. QED BY <1>5, <1>6, <1>7 DEF OwnerInvariant

\* A registration begins: the producer is new to every slot and to every other thread.
LEMMA RegisterBeginKeeps ==
    ASSUME OwnerInvariant, NEW t \in Threads, RegisterBegin(t)
    PROVE  OwnerInvariant'
<1> DEFINE n == registrations[t] + 1
           p == <<t, n>>
<1>1. OwnerTypes /\ SlotsOwn /\ ThreadsOwn /\ Registrations /\ DrainerHolds
    BY DEF OwnerInvariant
<1>2. /\ registrations \in [Threads -> 0..MaxRegistrations] /\ MaxRegistrations \in Nat
      /\ thread_at \in [Loggers -> ThreadStates] /\ t \in Loggers
    BY <1>1, LoggerAssumption, ProducerOf DEF OwnerTypes
<1>3. /\ thread_at[t] = "outside" /\ registrations[t] < MaxRegistrations
      /\ registrations' = [registrations EXCEPT ![t] = @ + 1]
      /\ thread_at' = [thread_at EXCEPT ![t] = "scanning"]
      /\ heap' = heap \union {<<t, registrations'[t]>>}
      /\ UNCHANGED <<d_slots, d_phase, logger_at, slot, producer, phase>>
    BY DEF RegisterBegin, logger_vars
<1>4. n \in 1..MaxRegistrations /\ n > registrations[t]
    BY <1>2, <1>3
<1>5. /\ registrations'[t] = n /\ \A u \in Threads \ {t} : registrations'[u] = registrations[u]
      /\ thread_at'[t] = "scanning" /\ \A u \in Loggers \ {t} : thread_at'[u] = thread_at[u]
      /\ heap' = heap \union {p}
    BY <1>2, <1>3
<1>6. p \notin heap /\ ~InSlot(p) /\ d_phase[p] = "live" /\ p \in Producers
    BY <1>1, <1>4, ProducerTypes DEF Registrations
<1>7. OwnerTypes'
    <2>1. registrations' \in [Threads -> 0..MaxRegistrations]
        BY <1>2, <1>3, <1>4
    <2>2. thread_at' \in [Loggers -> ThreadStates]
        BY <1>2, <1>3 DEF ThreadStates
    <2>3. heap' \subseteq Producers
        BY <1>1, <1>5, <1>6 DEF OwnerTypes
    <2>4. QED BY <1>1, <1>3, <2>1, <2>2, <2>3 DEF OwnerTypes
<1>8. SlotsOwn'
    BY <1>1, <1>3, <1>5 DEF SlotsOwn
<1>9. ThreadsOwn'
    <2> SUFFICES ASSUME NEW u \in Threads, thread_at'[u] \notin {"outside", "refused"}
                 PROVE  /\ registrations'[u] \in 1..MaxRegistrations
                        /\ <<u, registrations'[u]>> \in heap'
                        /\ d_phase'[<<u, registrations'[u]>>] = "live"
                        /\ thread_at'[u] = "scanning"
                              => \A s \in Slots : d_slots'[s] # <<u, registrations'[u]>>
        BY DEF ThreadsOwn, InSlot
    <2>1. CASE u = t
        BY <2>1, <1>3, <1>4, <1>5, <1>6 DEF InSlot
    <2>2. CASE u # t
        BY <2>2, <1>1, <1>3, <1>5, ProducerOf DEF ThreadsOwn, InSlot
    <2>3. QED BY <2>1, <2>2
<1>10. Registrations'
    <2> SUFFICES ASSUME NEW u \in Threads, NEW m \in 1..MaxRegistrations
                 PROVE  /\ m > registrations'[u] =>
                              /\ <<u, m>> \notin heap' /\ d_phase'[<<u, m>>] = "live"
                              /\ \A s \in Slots : d_slots'[s] # <<u, m>>
                        /\ <<u, m>> \in heap'
                              /\ ~(m = registrations'[u] /\ thread_at'[u] = "scanning")
                              => \E s \in Slots : d_slots'[s] = <<u, m>>
        BY DEF Registrations, InSlot
    <2>1. CASE u = t
        <3>1. \/ m < n /\ ~(m > registrations'[t]) /\ ~(m > registrations[t])
              \/ m = n /\ ~(m > registrations'[t])
              \/ m > n /\ m > registrations[t]
            BY <1>2, <1>4, <1>5
        <3>2. m # n => (<<t, m>> \in heap' <=> <<t, m>> \in heap)
            BY <1>5
        <3>3. m # registrations[t] \/ thread_at[t] # "scanning"
            BY <1>3
        <3>4. QED BY <2>1, <3>1, <3>2, <3>3, <1>1, <1>3, <1>5 DEF Registrations, InSlot
    <2>2. CASE u # t
        <3>1. <<u, m>> \in heap' <=> <<u, m>> \in heap
            BY <2>2, <1>5
        <3>2. QED BY <2>2, <3>1, <1>1, <1>3, <1>5, ProducerOf DEF Registrations, InSlot
    <2>3. QED BY <2>1, <2>2
<1>11. DrainerHolds'
    <2>1. logger_at = "clearing" => producer # p
        BY <1>1, <1>6 DEF DrainerHolds, DrainStates, InSlot
    <2>2. QED BY <1>1, <1>3, <1>5, <2>1 DEF DrainerHolds
<1>12. QED BY <1>7, <1>8, <1>9, <1>10, <1>11 DEF OwnerInvariant

\* The slot that a thread takes is free: what is in the others stays in them.
LEMMA TrySlotKeeps ==
    ASSUME OwnerInvariant, NEW t \in Threads, TrySlot(t)
    PROVE  OwnerInvariant'
<1> DEFINE p == <<t, registrations[t]>>
           s == scanned[t]
<1>1. OwnerTypes /\ SlotsOwn /\ ThreadsOwn /\ Registrations /\ DrainerHolds
    BY DEF OwnerInvariant
<1>2. /\ thread_at[t] = "scanning" /\ s \in Slots
      /\ UNCHANGED <<heap, d_phase, registrations, logger_at, slot, producer, phase>>
    BY DEF TrySlot, logger_vars
<1>3. CASE d_slots[s] # Null
    <2>1. UNCHANGED <<d_slots, thread_at>>
        BY <1>3 DEF TrySlot
    <2>2. QED BY <1>2, <2>1, StutterKeeps DEF owner_vars
<1>4. CASE d_slots[s] = Null
    <2>1. /\ d_slots' = [d_slots EXCEPT ![s] = p]
          /\ thread_at' = [thread_at EXCEPT ![t] = "inside"]
        BY <1>4, ProducerOf DEF TrySlot
    <2>2. d_slots'[s] = p /\ \A r \in Slots \ {s} : d_slots'[r] = d_slots[r]
        BY <1>1, <1>2, <2>1 DEF OwnerTypes
    <2>3. /\ thread_at'[t] = "inside"
          /\ \A u \in Loggers \ {t} : thread_at'[u] = thread_at[u]
        BY <1>1, <2>1, ProducerOf DEF OwnerTypes
    <2>4. /\ registrations[t] \in 1..MaxRegistrations /\ p \in heap /\ d_phase[p] = "live"
          /\ ~InSlot(p)
        BY <1>1, <1>2 DEF ThreadsOwn
    <2>5. p \in Registered /\ p # Null
        BY <2>4, ProducerTypes
    <2>6. \A q : q # Null => ((\E r \in Slots : d_slots'[r] = q) <=> InSlot(q) \/ q = p)
        BY <1>2, <1>4, <2>2 DEF InSlot
    <2>7. OwnerTypes'
        <3>1. d_slots' \in [Slots -> Registered \union {Null}]
            BY <1>1, <2>1, <2>5 DEF OwnerTypes
        <3>2. thread_at' \in [Loggers -> ThreadStates]
            BY <1>1, <2>1 DEF OwnerTypes, ThreadStates, HandleStates
        <3>3. QED BY <1>1, <1>2, <3>1, <3>2 DEF OwnerTypes
    <2>8. SlotsOwn'
        <3>1. \A r \in Slots \ {s} : d_slots'[r] # p
            BY <2>2, <2>4 DEF InSlot
        <3>2. \A r, q \in Slots : d_slots'[r] # Null /\ d_slots'[r] = d_slots'[q] => r = q
            BY <1>1, <2>2, <3>1 DEF SlotsOwn
        <3>3. \A r \in Slots : d_slots'[r] # Null =>
                  d_slots'[r] \in heap' \/ (logger_at' = "clearing" /\ slot' = r)
            BY <1>1, <1>2, <2>2, <2>4 DEF SlotsOwn
        <3>4. QED BY <3>2, <3>3 DEF SlotsOwn
    <2>9. ThreadsOwn'
        <3> SUFFICES ASSUME NEW u \in Threads, thread_at'[u] \notin {"outside", "refused"}
                     PROVE  /\ registrations[u] \in 1..MaxRegistrations
                            /\ <<u, registrations[u]>> \in heap
                            /\ d_phase[<<u, registrations[u]>>] = "live"
                            /\ thread_at'[u] = "scanning"
                                  => \A r \in Slots : d_slots'[r] # <<u, registrations[u]>>
            BY <1>2 DEF ThreadsOwn, InSlot
        <3>1. CASE u = t
            BY <3>1, <2>3, <2>4
        <3>2. CASE u # t
            <4>1. /\ registrations[u] \in 1..MaxRegistrations
                  /\ <<u, registrations[u]>> \in heap
                  /\ d_phase[<<u, registrations[u]>>] = "live"
                  /\ thread_at[u] = "scanning" => ~InSlot(<<u, registrations[u]>>)
                  /\ thread_at'[u] = thread_at[u]
                BY <3>2, <1>1, <2>3, ProducerOf DEF ThreadsOwn
            <4>2. <<u, registrations[u]>> # p /\ <<u, registrations[u]>> # Null
                BY <3>2, <4>1, ProducerTypes
            <4>3. QED BY <4>1, <4>2, <2>6
        <3>3. QED BY <3>1, <3>2
    <2>10. Registrations'
        <3> SUFFICES ASSUME NEW u \in Threads, NEW m \in 1..MaxRegistrations
                     PROVE  /\ m > registrations[u] =>
                                  /\ <<u, m>> \notin heap /\ d_phase[<<u, m>>] = "live"
                                  /\ ~(\E r \in Slots : d_slots'[r] = <<u, m>>)
                            /\ <<u, m>> \in heap
                                  /\ ~(m = registrations[u] /\ thread_at'[u] = "scanning")
                                  => \E r \in Slots : d_slots'[r] = <<u, m>>
            BY <1>2 DEF Registrations, InSlot
        <3>1. /\ m > registrations[u] =>
                    <<u, m>> \notin heap /\ ~InSlot(<<u, m>>) /\ d_phase[<<u, m>>] = "live"
              /\ <<u, m>> \in heap /\ ~(m = registrations[u] /\ thread_at[u] = "scanning")
                    => InSlot(<<u, m>>)
            BY <1>1 DEF Registrations
        <3>2. <<u, m>> # Null
            BY ProducerTypes
        <3>3. m > registrations[u] => <<u, m>> # p
            BY <2>4
        <3>4. m = registrations[u] /\ thread_at[u] = "scanning"
                  => <<u, m>> = p \/ thread_at'[u] = "scanning"
            BY <2>3, ProducerOf
        <3>5. QED BY <3>1, <3>2, <3>3, <3>4, <2>6
    <2>11. DrainerHolds'
        <3>1. logger_at \in DrainStates /\ slot \in Slots => slot # s
            BY <1>1, <1>4 DEF DrainerHolds
        <3>2. QED BY <1>1, <1>2, <2>2, <3>1 DEF DrainerHolds
    <2>12. QED BY <2>7, <2>8, <2>9, <2>10, <2>11 DEF OwnerInvariant
<1>5. QED BY <1>3, <1>4

\* The producer that is freed was in no slot.
LEMMA RegisterFailsKeeps ==
    ASSUME OwnerInvariant, NEW t \in Threads, RegisterFails(t)
    PROVE  OwnerInvariant'
<1> DEFINE p == <<t, registrations[t]>>
<1>1. OwnerTypes /\ SlotsOwn /\ ThreadsOwn /\ Registrations /\ DrainerHolds
    BY DEF OwnerInvariant
<1>2. /\ thread_at[t] = "scanning"
      /\ heap' = heap \ {p}
      /\ thread_at' = [thread_at EXCEPT ![t] = "refused"]
      /\ UNCHANGED <<d_slots, d_phase, registrations, logger_at, slot, producer, phase>>
    BY ProducerOf DEF RegisterFails, logger_vars
<1>3. thread_at'[t] = "refused" /\ \A u \in Loggers \ {t} : thread_at'[u] = thread_at[u]
    BY <1>1, <1>2, ProducerOf DEF OwnerTypes
<1>4. registrations[t] \in 1..MaxRegistrations /\ ~InSlot(p) /\ p # Shared
    BY <1>1, <1>2, ProducerTypes DEF ThreadsOwn
<1>5. OwnerTypes'
    BY <1>1, <1>2 DEF OwnerTypes, ThreadStates
<1>6. SlotsOwn'
    BY <1>1, <1>2, <1>4 DEF SlotsOwn, InSlot
<1>7. ThreadsOwn'
    <2> SUFFICES ASSUME NEW u \in Threads, thread_at'[u] \notin {"outside", "refused"}
                 PROVE  /\ registrations[u] \in 1..MaxRegistrations
                        /\ <<u, registrations[u]>> \in heap'
                        /\ d_phase[<<u, registrations[u]>>] = "live"
                        /\ thread_at'[u] = "scanning" => ~InSlot(<<u, registrations[u]>>)
        BY <1>2 DEF ThreadsOwn, InSlot
    <2>1. u # t /\ thread_at'[u] = thread_at[u]
        BY <1>3, ProducerOf
    <2>2. QED BY <1>1, <1>2, <2>1 DEF ThreadsOwn
<1>8. Registrations'
    <2> SUFFICES ASSUME NEW u \in Threads, NEW m \in 1..MaxRegistrations
                 PROVE  /\ m > registrations[u] =>
                              /\ <<u, m>> \notin heap' /\ d_phase[<<u, m>>] = "live"
                              /\ ~InSlot(<<u, m>>)
                        /\ <<u, m>> \in heap'
                              /\ ~(m = registrations[u] /\ thread_at'[u] = "scanning")
                              => InSlot(<<u, m>>)
        BY <1>2 DEF Registrations, InSlot
    <2>1. m = registrations[u] /\ thread_at[u] = "scanning" =>
              <<u, m>> = p \/ thread_at'[u] = "scanning"
        BY <1>3, ProducerOf
    <2>2. QED BY <1>1, <1>2, <2>1 DEF Registrations
<1>9. DrainerHolds'
    BY <1>1, <1>2, <1>4 DEF DrainerHolds
<1>10. QED BY <1>5, <1>6, <1>7, <1>8, <1>9 DEF OwnerInvariant

\* A thread closes its own producer, and is then outside.
LEMMA CloseKeeps ==
    ASSUME OwnerInvariant, NEW t \in Threads, Close(t)
    PROVE  OwnerInvariant'
<1> DEFINE p == <<t, registrations[t]>>
<1>1. OwnerTypes /\ SlotsOwn /\ ThreadsOwn /\ Registrations /\ DrainerHolds
    BY DEF OwnerInvariant
<1>2. /\ thread_at[t] = "inside"
      /\ d_phase' = [d_phase EXCEPT ![p] = "closed"]
      /\ thread_at' = [thread_at EXCEPT ![t] = "outside"]
      /\ UNCHANGED <<d_slots, heap, registrations, logger_at, slot, producer, phase>>
    BY ProducerOf DEF Close, logger_vars
<1>3. thread_at'[t] = "outside" /\ \A u \in Loggers \ {t} : thread_at'[u] = thread_at[u]
    BY <1>1, <1>2, ProducerOf DEF OwnerTypes
<1>4. registrations[t] \in 1..MaxRegistrations /\ p \in Producers /\ p # Shared
    BY <1>1, <1>2, ProducerTypes DEF ThreadsOwn
<1>5. d_phase'[p] = "closed" /\ \A q \in Producers \ {p} : d_phase'[q] = d_phase[q]
    BY <1>1, <1>2, <1>4 DEF OwnerTypes
<1>6. OwnerTypes'
    <2>1. d_phase' \in [Producers -> {"live", "closed"}]
        BY <1>1, <1>2 DEF OwnerTypes
    <2>2. thread_at' \in [Loggers -> ThreadStates]
        BY <1>1, <1>2 DEF OwnerTypes, ThreadStates
    <2>3. QED BY <1>1, <1>2, <2>1, <2>2 DEF OwnerTypes
<1>7. SlotsOwn'
    BY <1>1, <1>2 DEF SlotsOwn
<1>8. ThreadsOwn'
    <2> SUFFICES ASSUME NEW u \in Threads, thread_at'[u] \notin {"outside", "refused"}
                 PROVE  /\ registrations[u] \in 1..MaxRegistrations
                        /\ <<u, registrations[u]>> \in heap
                        /\ d_phase'[<<u, registrations[u]>>] = "live"
                        /\ thread_at'[u] = "scanning" => ~InSlot(<<u, registrations[u]>>)
        BY <1>2 DEF ThreadsOwn, InSlot
    <2>1. u # t /\ thread_at'[u] = thread_at[u]
        BY <1>3, ProducerOf
    <2>2. /\ registrations[u] \in 1..MaxRegistrations
          /\ <<u, registrations[u]>> \in heap
          /\ d_phase[<<u, registrations[u]>>] = "live"
          /\ thread_at'[u] = "scanning" => ~InSlot(<<u, registrations[u]>>)
        BY <1>1, <2>1 DEF ThreadsOwn
    <2>3. <<u, registrations[u]>> \in Producers \ {p}
        BY <2>1, <2>2, ProducerTypes
    <2>4. QED BY <2>2, <2>3, <1>5
<1>9. Registrations'
    <2> SUFFICES ASSUME NEW u \in Threads, NEW m \in 1..MaxRegistrations
                 PROVE  /\ m > registrations[u] =>
                              /\ <<u, m>> \notin heap /\ d_phase'[<<u, m>>] = "live"
                              /\ ~InSlot(<<u, m>>)
                        /\ <<u, m>> \in heap
                              /\ ~(m = registrations[u] /\ thread_at'[u] = "scanning")
                              => InSlot(<<u, m>>)
        BY <1>2 DEF Registrations, InSlot
    <2>1. /\ m > registrations[u] =>
                <<u, m>> \notin heap /\ ~InSlot(<<u, m>>) /\ d_phase[<<u, m>>] = "live"
          /\ <<u, m>> \in heap /\ ~(m = registrations[u] /\ thread_at[u] = "scanning")
                => InSlot(<<u, m>>)
        BY <1>1 DEF Registrations
    <2>2. thread_at[u] = "scanning" => thread_at'[u] = "scanning"
        BY <1>2, <1>3, ProducerOf
    <2>3. m > registrations[u] => <<u, m>> # p
        BY <1>4
    <2>4. m > registrations[u] => d_phase'[<<u, m>>] = d_phase[<<u, m>>]
        BY <2>3, <1>5, ProducerTypes
    <2>5. QED BY <2>1, <2>2, <2>4
<1>10. DrainerHolds'
    <2>1. d_phase'[Shared] = "live"
        BY <1>1, <1>4, <1>5, ProducerTypes DEF DrainerHolds
    <2>2. phase = "closed" => d_phase'[producer] = "closed"
        <3>1. phase = "closed" => d_slots[slot] \in Producers /\ producer = d_slots[slot]
            BY <1>1 DEF OwnerTypes, DrainerHolds, Registered
        <3>2. phase = "closed" => d_phase[producer] = "closed"
            BY <1>1 DEF DrainerHolds
        <3>3. QED BY <3>1, <3>2, <1>5
    <2>3. QED BY <1>1, <1>2, <2>1, <2>2 DEF DrainerHolds
<1>11. QED BY <1>6, <1>7, <1>8, <1>9, <1>10 DEF OwnerInvariant

\* Each step of a thread is one of these.
LEMMA ThreadKeeps ==
    ASSUME OwnerInvariant, NEW t \in Loggers,
           \/ t \in Threads /\ (RegisterBegin(t) \/ Close(t) \/ Log(t))
           \/ t \in ForeignThreads /\ LogLocked(t)
           \/ ThreadStep(t)
    PROVE  OwnerInvariant'
<1>1. CASE t \in Threads /\ RegisterBegin(t)
    BY <1>1, RegisterBeginKeeps
<1>2. CASE t \in Threads /\ Close(t)
    BY <1>2, CloseKeeps
<1>3. CASE t \in Threads /\ Log(t)
    BY <1>3, CallKeeps DEF Log, Offer, HandleStates, ThreadStates, logger_vars
<1>4. CASE t \in ForeignThreads /\ LogLocked(t)
    <2>1. t \notin Threads
        BY <1>4, LoggerAssumption
    <2>2. QED BY <1>4, <2>1, CallKeeps DEF LogLocked, Offer, HandleStates, ThreadStates, logger_vars
<1>5. CASE t \in Threads /\ TrySlot(t)
    BY <1>5, TrySlotKeeps
<1>6. CASE t \in Threads /\ RegisterFails(t)
    BY <1>6, RegisterFailsKeeps
<1>7. CASE t \in Threads /\ RefusalReturns(t)
    BY <1>7, CallKeeps DEF RefusalReturns, ThreadStates, logger_vars
<1>8. CASE LearnPops(t)
    BY <1>8, StutterKeeps DEF LearnPops, owner_vars, thread_vars, logger_vars
<1>9. CASE PushAccepted(t)
    <2> DEFINE place == IF t \in Threads THEN "inside" ELSE "outside"
    <2>1. /\ thread_at[t] = "pushing" /\ thread_at' = [thread_at EXCEPT ![t] = place]
          /\ UNCHANGED <<d_slots, heap, d_phase, registrations, logger_at, slot, producer, phase>>
        BY <1>9 DEF PushAccepted, LogReturns, logger_vars
    <2>2. place \in ThreadStates /\ (t \in Threads => place \in HandleStates)
        BY DEF ThreadStates, HandleStates
    <2>3. thread_at[t] \in HandleStates
        BY <2>1 DEF HandleStates
    <2>4. QED BY <2>1, <2>2, <2>3, CallKeeps
<1>10. CASE PushRefused(t)
    BY <1>10, CallKeeps DEF PushRefused, HandleStates, ThreadStates, logger_vars
<1>11. CASE LoadDropped(t)
    BY <1>11, CallKeeps DEF LoadDropped, HandleStates, ThreadStates, logger_vars
<1>12. CASE StoreDropped(t)
    <2> DEFINE place == IF t \in Threads THEN "inside" ELSE "outside"
    <2>1. /\ thread_at[t] = "counting" /\ thread_at' = [thread_at EXCEPT ![t] = place]
          /\ UNCHANGED <<d_slots, heap, d_phase, registrations, logger_at, slot, producer, phase>>
        BY <1>12 DEF StoreDropped, LogReturns, logger_vars
    <2>2. place \in ThreadStates /\ (t \in Threads => place \in HandleStates)
        BY DEF ThreadStates, HandleStates
    <2>3. thread_at[t] \in HandleStates
        BY <2>1 DEF HandleStates
    <2>4. QED BY <2>1, <2>2, <2>3, CallKeeps
<1>13. QED BY <1>1, <1>2, <1>3, <1>4, <1>5, <1>6, <1>7, <1>8, <1>9, <1>10, <1>11, <1>12
           DEF ThreadStep

-----------------------------------------------------------------------------
(* The thread that drains.                                                 *)

\* A step that neither frees a producer nor clears a slot.
LEMMA DrainKeeps ==
    ASSUME OwnerInvariant,
           UNCHANGED <<d_slots, heap, d_phase, thread_at, registrations>>,
           logger_at # "clearing", logger_at' \in LoggerStates,
           slot' \in 1..(k_MAX_THREADS + 1), phase' \in {"live", "closed"},
           DrainerHolds'
    PROVE  OwnerInvariant'
<1>1. OwnerTypes /\ SlotsOwn /\ ThreadsOwn /\ Registrations
    BY DEF OwnerInvariant
<1>2. OwnerTypes'
    BY <1>1 DEF OwnerTypes
<1>3. SlotsOwn'
    BY <1>1 DEF SlotsOwn
<1>4. ThreadsOwn' /\ Registrations'
    BY <1>1 DEF ThreadsOwn, Registrations, InSlot
<1>5. QED BY <1>2, <1>3, <1>4 DEF OwnerInvariant

\* After a ring the thread holds no producer.
LEMMA RingDoneReleases ==
    ASSUME OwnerInvariant, RingDone
    PROVE  /\ logger_at' \in LoggerStates \ DrainStates
           /\ slot' \in 1..(k_MAX_THREADS + 1) /\ phase' = "live"
<1>1. slot \in 1..(k_MAX_THREADS + 1)
    BY DEF OwnerInvariant, OwnerTypes
<1>2. slot' \in 1..(k_MAX_THREADS + 1) /\ phase' = "live"
    BY <1>1, SlotTypes DEF RingDone
<1>3. logger_at' \in {"loading", "destroyed", "checking", "resting"}
    BY DEF RingDone
<1>4. QED BY <1>2, <1>3 DEF LoggerStates, DrainStates

LEMMA LoadSlotKeeps ==
    ASSUME OwnerInvariant, LoadSlot
    PROVE  OwnerInvariant'
<1>1. OwnerTypes /\ SlotsOwn /\ DrainerHolds
    BY DEF OwnerInvariant
<1>2. /\ logger_at = "loading" /\ logger_at \notin DrainStates
      /\ UNCHANGED <<d_slots, heap, d_phase, thread_at, registrations, phase>>
    BY DEF LoadSlot, DrainUnchanged, thread_vars, DrainStates
<1>3. phase = "live" /\ slot \in 1..(k_MAX_THREADS + 1)
    BY <1>1, <1>2 DEF OwnerTypes, DrainerHolds
<1>4. CASE slot \in Slots /\ d_slots[slot] = Null
    <2>1. slot' = slot + 1 /\ logger_at' = logger_at
        BY <1>4 DEF LoadSlot
    <2>2. slot' \in 1..(k_MAX_THREADS + 1)
        BY <1>3, <1>4, <2>1, SlotTypes
    <2>3. DrainerHolds'
        BY <1>1, <1>2, <1>3, <2>1 DEF DrainerHolds
    <2>4. QED BY <1>1, <1>2, <1>3, <2>1, <2>2, <2>3, DrainKeeps DEF OwnerTypes
<1>5. CASE ~(slot \in Slots /\ d_slots[slot] = Null)
    <2>1. /\ producer' = IF slot \in Slots THEN d_slots[slot] ELSE Shared
          /\ logger_at' = "reading phase" /\ slot' = slot
        BY <1>5 DEF LoadSlot
    <2>2. DrainerHolds'
        BY <1>1, <1>2, <1>3, <1>5, <2>1 DEF DrainerHolds
    <2>3. QED BY <1>1, <1>2, <1>3, <2>1, <2>2, DrainKeeps DEF OwnerTypes, LoggerStates, DrainStates
<1>6. QED BY <1>4, <1>5

LEMMA ReadPhaseKeeps ==
    ASSUME OwnerInvariant, ReadPhase
    PROVE  OwnerInvariant'
<1>1. OwnerTypes /\ DrainerHolds
    BY DEF OwnerInvariant
<1>2. /\ logger_at = "reading phase" /\ logger_at \in DrainStates
      /\ logger_at' = "popping" /\ logger_at' \in DrainStates
      /\ phase' = d_phase[producer]
      /\ UNCHANGED <<d_slots, heap, d_phase, thread_at, registrations, slot, producer>>
    BY DEF ReadPhase, DrainUnchanged, thread_vars, DrainStates
<1>3. slot \in Slots => producer \in Producers
    BY <1>1, <1>2 DEF OwnerTypes, DrainerHolds, Registered
<1>4. slot \notin Slots => producer = Shared
    BY <1>1, <1>2 DEF DrainerHolds
<1>5. phase' \in {"live", "closed"}
    BY <1>1, <1>2, <1>3, <1>4, ProducerTypes DEF OwnerTypes
<1>6. phase' = "closed" => slot \in Slots
    BY <1>1, <1>2, <1>4 DEF DrainerHolds
<1>7. DrainerHolds'
    BY <1>1, <1>2, <1>6 DEF DrainerHolds
<1>8. QED BY <1>1, <1>2, <1>5, <1>7, DrainKeeps DEF OwnerTypes, LoggerStates

\* The producer is freed only when the phase that was read is closed.
LEMMA TakeDroppedKeeps ==
    ASSUME OwnerInvariant, TakeDropped
    PROVE  OwnerInvariant'
<1>1. OwnerTypes /\ DrainerHolds
    BY DEF OwnerInvariant
<1>2. /\ logger_at = "taking drops" /\ logger_at \in DrainStates
      /\ UNCHANGED <<d_slots, heap, d_phase, thread_at, registrations>>
    BY DEF TakeDropped, DrainUnchanged, thread_vars, DrainStates
<1>3. CASE phase = "closed"
    <2>1. logger_at' = "freeing" /\ UNCHANGED <<slot, producer, phase>>
        BY <1>3 DEF TakeDropped
    <2>2. logger_at' \in DrainStates
        BY <2>1 DEF DrainStates
    <2>3. DrainerHolds'
        BY <1>1, <1>2, <1>3, <2>1, <2>2 DEF DrainerHolds
    <2>4. QED BY <1>1, <1>2, <2>1, <2>2, <2>3, DrainKeeps DEF OwnerTypes, LoggerStates
<1>4. CASE phase # "closed"
    <2>1. RingDone
        BY <1>4 DEF TakeDropped
    <2>2. /\ logger_at' \in LoggerStates \ DrainStates
          /\ slot' \in 1..(k_MAX_THREADS + 1) /\ phase' = "live"
        BY <2>1, RingDoneReleases
    <2>3. DrainerHolds'
        BY <1>1, <1>2, <2>2 DEF DrainerHolds, DrainStates
    <2>4. QED BY <1>2, <2>2, <2>3, DrainKeeps
<1>5. QED BY <1>3, <1>4

\* The producer freed is closed, and so no thread's that may use it again.
LEMMA FreeProducerKeeps ==
    ASSUME OwnerInvariant, FreeProducer
    PROVE  OwnerInvariant'
<1>1. OwnerTypes /\ SlotsOwn /\ ThreadsOwn /\ Registrations /\ DrainerHolds
    BY DEF OwnerInvariant
<1>2. /\ logger_at = "freeing" /\ logger_at \in DrainStates
      /\ logger_at' = "clearing" /\ logger_at' \in DrainStates
      /\ heap' = heap \ {producer}
      /\ UNCHANGED <<d_slots, d_phase, thread_at, registrations, slot, producer, phase>>
    BY DEF FreeProducer, DrainUnchanged, thread_vars, DrainStates
<1>3. /\ phase = "closed" /\ slot \in Slots /\ d_phase[producer] = "closed"
      /\ producer = d_slots[slot] /\ producer # Null
    BY <1>1, <1>2 DEF DrainerHolds
<1>4. producer # Shared
    BY <1>1, <1>3 DEF DrainerHolds
<1>5. OwnerTypes'
    BY <1>1, <1>2 DEF OwnerTypes, LoggerStates
<1>6. SlotsOwn'
    <2>1. \A s \in Slots : d_slots[s] = producer => s = slot
        BY <1>1, <1>3 DEF SlotsOwn
    <2>2. \A s \in Slots : d_slots[s] # Null => d_slots[s] \in heap
        BY <1>1, <1>2 DEF SlotsOwn
    <2>3. \A s \in Slots : d_slots'[s] # Null =>
              d_slots'[s] \in heap' \/ (logger_at' = "clearing" /\ slot' = s)
        BY <1>2, <2>1, <2>2
    <2>4. QED BY <1>1, <1>2, <2>3 DEF SlotsOwn
<1>7. ThreadsOwn'
    BY <1>1, <1>2, <1>3 DEF ThreadsOwn, InSlot
<1>8. Registrations'
    BY <1>1, <1>2 DEF Registrations, InSlot
<1>9. DrainerHolds'
    BY <1>1, <1>2, <1>3, <1>4 DEF DrainerHolds
<1>10. QED BY <1>5, <1>6, <1>7, <1>8, <1>9 DEF OwnerInvariant

\* What was in the slot has been freed.
LEMMA ClearSlotKeeps ==
    ASSUME OwnerInvariant, ClearSlot
    PROVE  OwnerInvariant'
<1>1. OwnerTypes /\ SlotsOwn /\ ThreadsOwn /\ Registrations /\ DrainerHolds
    BY DEF OwnerInvariant
<1>2. /\ logger_at = "clearing" /\ logger_at \in DrainStates
      /\ d_slots' = [d_slots EXCEPT ![slot] = Null] /\ RingDone
      /\ UNCHANGED <<heap, d_phase, thread_at, registrations>>
    BY DEF ClearSlot, DrainUnchanged, thread_vars, DrainStates
<1>3. slot \in Slots /\ producer = d_slots[slot] /\ producer \notin heap
    BY <1>1, <1>2 DEF DrainerHolds
<1>4. d_slots'[slot] = Null /\ \A s \in Slots \ {slot} : d_slots'[s] = d_slots[s]
    BY <1>1, <1>2, <1>3 DEF OwnerTypes
<1>5. /\ logger_at' \in LoggerStates \ DrainStates
      /\ slot' \in 1..(k_MAX_THREADS + 1) /\ phase' = "live"
    BY <1>2, RingDoneReleases
<1>6. OwnerTypes'
    <2>1. d_slots' \in [Slots -> Registered \union {Null}]
        BY <1>1, <1>2 DEF OwnerTypes
    <2>2. QED BY <1>1, <1>2, <1>5, <2>1 DEF OwnerTypes
<1>7. SlotsOwn'
    <2>1. \A s, r \in Slots : d_slots'[s] # Null /\ d_slots'[s] = d_slots'[r] => s = r
        BY <1>1, <1>4 DEF SlotsOwn
    <2>2. \A s \in Slots : d_slots'[s] # Null => d_slots'[s] \in heap'
        BY <1>1, <1>2, <1>4 DEF SlotsOwn
    <2>3. QED BY <2>1, <2>2 DEF SlotsOwn
<1>8. \A t \in Threads, n \in 1..MaxRegistrations :
          /\ ~InSlot(<<t, n>>) => ~(\E s \in Slots : d_slots'[s] = <<t, n>>)
          /\ <<t, n>> \in heap /\ InSlot(<<t, n>>) => \E s \in Slots : d_slots'[s] = <<t, n>>
    BY <1>3, <1>4, ProducerTypes DEF InSlot
<1>9. ThreadsOwn'
    BY <1>1, <1>2, <1>8 DEF ThreadsOwn, InSlot
<1>10. Registrations'
    <2> SUFFICES ASSUME NEW t \in Threads, NEW n \in 1..MaxRegistrations
                 PROVE  /\ n > registrations[t] =>
                              /\ <<t, n>> \notin heap /\ d_phase[<<t, n>>] = "live"
                              /\ ~(\E s \in Slots : d_slots'[s] = <<t, n>>)
                        /\ <<t, n>> \in heap
                              /\ ~(n = registrations[t] /\ thread_at[t] = "scanning")
                              => \E s \in Slots : d_slots'[s] = <<t, n>>
        BY <1>2 DEF Registrations, InSlot
    <2>1. QED BY <1>1, <1>8 DEF Registrations
<1>11. DrainerHolds'
    BY <1>1, <1>2, <1>5 DEF DrainerHolds, DrainStates
<1>12. QED BY <1>6, <1>7, <1>9, <1>10, <1>11 DEF OwnerInvariant

LEMMA LoggerKeeps ==
    ASSUME OwnerInvariant, LoggerStep \/ LearnPushes \/ RequestStop \/ Join \/ Terminated
    PROVE  OwnerInvariant'
<1>1. OwnerTypes /\ DrainerHolds
    BY DEF OwnerInvariant
<1>2. CASE CheckStop
    <2>1. /\ logger_at = "checking" /\ logger_at' \in {"exited", "loading"} /\ slot' = 1
          /\ UNCHANGED <<d_slots, heap, d_phase, thread_at, registrations, phase>>
        BY <1>2 DEF CheckStop, DrainUnchanged, thread_vars
    <2>2. phase = "live" /\ slot' \in 1..(k_MAX_THREADS + 1)
        BY <1>1, <2>1, SlotTypes DEF OwnerTypes, DrainerHolds, DrainStates
    <2>3. DrainerHolds'
        BY <1>1, <2>1, <2>2 DEF DrainerHolds, DrainStates
    <2>4. QED BY <2>1, <2>2, <2>3, DrainKeeps DEF LoggerStates
<1>3. CASE LoadSlot
    BY <1>3, LoadSlotKeeps
<1>4. CASE ReadPhase
    BY <1>4, ReadPhaseKeeps
<1>5. CASE PopRecord \/ LearnPushes
    BY <1>5, StutterKeeps DEF PopRecord, LearnPushes, DrainUnchanged, owner_vars, thread_vars
<1>6. CASE PopsEnd
    <2>1. /\ logger_at = "popping" /\ logger_at' = "taking drops"
          /\ logger_at \in DrainStates /\ logger_at' \in DrainStates
          /\ UNCHANGED <<d_slots, heap, d_phase, thread_at, registrations, slot, producer, phase>>
        BY <1>6 DEF PopsEnd, DrainUnchanged, thread_vars, DrainStates
    <2>2. DrainerHolds'
        BY <1>1, <2>1 DEF DrainerHolds
    <2>3. QED BY <1>1, <2>1, <2>2, DrainKeeps DEF OwnerTypes, LoggerStates
<1>7. CASE TakeDropped
    BY <1>7, TakeDroppedKeeps
<1>8. CASE FreeProducer
    BY <1>8, FreeProducerKeeps
<1>9. CASE ClearSlot
    BY <1>9, ClearSlotKeeps
<1>10. CASE Rest
    <2>1. /\ logger_at = "resting" /\ logger_at' = "checking"
          /\ UNCHANGED <<d_slots, heap, d_phase, thread_at, registrations, slot, producer, phase>>
        BY <1>10 DEF Rest, DrainUnchanged, thread_vars
    <2>2. DrainerHolds'
        BY <1>1, <2>1 DEF DrainerHolds, DrainStates
    <2>3. QED BY <1>1, <2>1, <2>2, DrainKeeps DEF OwnerTypes, LoggerStates
<1>11. CASE RequestStop \/ Terminated
    BY <1>11, StutterKeeps DEF RequestStop, Terminated, vars, owner_vars, thread_vars, logger_vars
<1>12. CASE Join
    <2>1. /\ logger_at = "exited" /\ logger_at' = "loading" /\ slot' = 1
          /\ UNCHANGED <<d_slots, heap, d_phase, thread_at, registrations, producer, phase>>
        BY <1>12 DEF Join, thread_vars
    <2>2. phase = "live" /\ slot' \in 1..(k_MAX_THREADS + 1)
        BY <1>1, <2>1, SlotTypes DEF OwnerTypes, DrainerHolds, DrainStates
    <2>3. DrainerHolds'
        BY <1>1, <2>1, <2>2 DEF DrainerHolds, DrainStates
    <2>4. QED BY <2>1, <2>2, <2>3, DrainKeeps DEF LoggerStates
<1>13. QED BY <1>2, <1>3, <1>4, <1>5, <1>6, <1>7, <1>8, <1>9, <1>10, <1>11, <1>12 DEF LoggerStep

-----------------------------------------------------------------------------
(* The theorems.                                                           *)

\* Who owns a producer: the thread it was made for, its slot and the thread that
\* drains it agree, whatever the interleaving (:66-87).
THEOREM OwnersAgree == Spec => []OwnerInvariant
<1>1. OwnerInvariant /\ [Next]_vars => OwnerInvariant'
    <2> SUFFICES ASSUME OwnerInvariant, [Next]_vars PROVE OwnerInvariant'
        OBVIOUS
    <2>1. CASE \E t \in Threads : RegisterBegin(t) \/ Close(t) \/ Log(t)
        BY <2>1, ThreadKeeps, ProducerOf
    <2>2. CASE \E t \in ForeignThreads : LogLocked(t)
        BY <2>2, ThreadKeeps DEF Loggers
    <2>3. CASE \E t \in Loggers : ThreadStep(t)
        BY <2>3, ThreadKeeps
    <2>4. CASE LoggerStep \/ LearnPushes \/ RequestStop \/ Join \/ Terminated
        BY <2>4, LoggerKeeps
    <2>5. CASE UNCHANGED vars
        BY <2>5, StutterKeeps DEF vars, owner_vars, thread_vars, logger_vars
    <2>6. QED BY <2>1, <2>2, <2>3, <2>4, <2>5 DEF Next
<1>2. QED BY <1>1, InitIsOwned, PTL DEF Spec

\* No producer is used once it is freed, by its thread, by the thread that drains, or
\* through a slot (:66-87).
THEOREM FreedIsNotUsed == Spec => []NoUseAfterFree
<1>1. OwnerInvariant => NoUseAfterFree
    <2> SUFFICES ASSUME OwnerInvariant PROVE NoUseAfterFree
        OBVIOUS
    <2>1. SlotsOwn /\ ThreadsOwn /\ DrainerHolds
        BY DEF OwnerInvariant
    <2>2. \A t \in Threads :
              thread_at[t] \notin {"outside", "refused"} => producer_of(t) \in heap
        BY <2>1, ProducerOf DEF ThreadsOwn
    <2>3. logger_at \in {"reading phase", "popping", "taking drops", "freeing"}
              => producer \in heap
        BY <2>1 DEF SlotsOwn, DrainerHolds, DrainStates
    <2>4. QED BY <2>1, <2>2, <2>3 DEF NoUseAfterFree, SlotsOwn
<1>2. QED BY <1>1, OwnersAgree, PTL

\* A producer is in one slot, from its registration until it is freed (:77-80).
THEOREM ProducerIsInOneSlot == Spec => []RegisteredIsInOneSlot
<1>1. OwnerInvariant => RegisteredIsInOneSlot
    <2> SUFFICES ASSUME OwnerInvariant, NEW t \in Threads, NEW n \in 1..registrations[t]
                 PROVE  LET p == <<t, n>>
                            here == {s \in Slots : d_slots[s] = p}
                        IN  /\ Cardinality(here) <= 1
                            /\ p \in heap /\ ~(p = producer_of(t) /\ thread_at[t] = "scanning")
                                  => Cardinality(here) = 1
        BY DEF RegisteredIsInOneSlot
    <2> DEFINE p == <<t, n>>
               here == {s \in Slots : d_slots[s] = p}
    <2>1. SlotsOwn /\ Registrations /\ n \in 1..MaxRegistrations
        BY LoggerAssumption DEF OwnerInvariant, OwnerTypes
    <2>2. p # Null
        BY <2>1, ProducerTypes
    <2>3. CASE here = {}
        <3>1. Cardinality(here) = 0
            BY <2>3, FS_EmptySet
        <3>2. ~InSlot(p)
            BY <2>3 DEF InSlot
        <3>3. ~(p \in heap /\ ~(n = registrations[t] /\ thread_at[t] = "scanning"))
            BY <2>1, <3>2 DEF Registrations
        <3>4. n = registrations[t] => p = producer_of(t)
            BY ProducerOf
        <3>5. QED BY <3>1, <3>3, <3>4
    <2>4. CASE here # {}
        <3>1. PICK s \in Slots : d_slots[s] = p
            BY <2>4
        <3>2. here = {s}
            BY <3>1, <2>1, <2>2 DEF SlotsOwn
        <3>3. Cardinality(here) = 1
            BY <3>2, FS_Singleton
        <3>4. QED BY <3>3
    <2>5. QED BY <2>3, <2>4
<1>2. QED BY <1>1, OwnersAgree, PTL

-----------------------------------------------------------------------------
(* The rings: the threads use each one as SpscFifo promises it, one        *)
(* producer and one consumer at a time, and the records of a handle come   *)
(* out in order.  The inductive invariant, beside OwnerInvariant:          *)

RingStates == [queue : Seq(Nat), known : Nat, unseen : Nat, offered : Seq(Nat),
               push_answer : BOOLEAN, pop_answer : Seq(Nat)]

RingTypes ==
    /\ d_ring \in [Producers -> RingStates]
    /\ \A p \in Producers : d_ring[p].known <= Len(d_ring[p].queue)
    /\ logged \in [Producers -> Nat]
    /\ written \in [Threads \union {"shared"} -> Seq(Nat \X Nat)]

\* One thread at a time pushes to a ring, and it pushes the last record logged: the
\* foreign threads take turns by the mutex.
OnePusher ==
    /\ \A t \in ForeignThreads : thread_at[t] # "outside" => d_shared_lock = t
    /\ \A t \in Loggers : thread_at[t] = "pushing" =>
          d_ring[producer_of(t)].offered = <<logged[producer_of(t)]>>
    /\ \A p \in Producers : d_ring[p].offered # <<>> =>
          \E t \in Loggers : thread_at[t] = "pushing" /\ producer_of(t) = p

\* The records logged through a ring and no longer in hand.
HandedOver(p) == IF d_ring[p].offered = <<>> THEN logged[p] ELSE logged[p] - 1

\* The records of a ring are in it in order, and after those of it in the log.
RecordsInOrder ==
    \A p \in Producers :
        /\ \A i \in 1..Len(d_ring[p].queue) : d_ring[p].queue[i] <= HandedOver(p)
        /\ \A i, j \in 1..Len(d_ring[p].queue) :
              i < j => d_ring[p].queue[i] < d_ring[p].queue[j]
        /\ \A i \in 1..Len(written[p[1]]) : written[p[1]][i][1] = p[2] =>
              /\ written[p[1]][i][2] <= HandedOver(p)
              /\ \A j \in 1..Len(d_ring[p].queue) :
                    written[p[1]][i][2] < d_ring[p].queue[j]

RingInvariant == RingTypes /\ OnePusher /\ RecordsInOrder /\ HandleOrder

\* What a step of the Logger is to one ring.
FifoStep(p) == [Fifo(p)!Next]_(Fifo(p)!fifo_vars)

-----------------------------------------------------------------------------
(* A step of a thread is a step of SpscFifo.                               *)

LEMMA RingFields ==
    ASSUME RingTypes, NEW p \in Producers
    PROVE  /\ d_ring[p] \in RingStates
           /\ d_ring[p].queue \in Seq(Nat) /\ Len(d_ring[p].queue) \in Nat
           /\ d_ring[p].known \in Nat /\ d_ring[p].unseen \in Nat
           /\ d_ring[p].offered \in Seq(Nat) /\ d_ring[p].known <= Len(d_ring[p].queue)
<1>1. d_ring[p] \in RingStates /\ d_ring[p].known <= Len(d_ring[p].queue)
    BY DEF RingTypes
<1>2. d_ring[p].queue \in Seq(Nat) /\ d_ring[p].offered \in Seq(Nat)
    BY <1>1 DEF RingStates
<1>3. d_ring[p].known \in Nat /\ d_ring[p].unseen \in Nat
    BY <1>1 DEF RingStates
<1>4. QED BY <1>1, <1>2, <1>3

LEMMA UnchangedIsFifo ==
    ASSUME NEW p \in Producers, d_ring'[p] = d_ring[p]
    PROVE  FifoStep(p)
BY DEF FifoStep, Fifo!fifo_vars

LEMMA OfferIsFifo ==
    ASSUME RingTypes, NEW p \in Producers, NEW n \in Records(p),
           d_ring[p].offered = <<>>, d_ring'[p] = Offered(d_ring[p], n)
    PROVE  FifoStep(p)
<1>1. Len(<<n>>) \in 1..k_RING_CAPACITY
    BY LoggerAssumption
<1>2. /\ d_ring'[p].offered = <<n>> /\ d_ring'[p].queue = d_ring[p].queue
      /\ d_ring'[p].known = d_ring[p].known /\ d_ring'[p].unseen = d_ring[p].unseen
      /\ d_ring'[p].push_answer = d_ring[p].push_answer
      /\ d_ring'[p].pop_answer = d_ring[p].pop_answer
    BY RingFields DEF Offered, RingStates
<1>3. Fifo(p)!Offer(<<n>>)
    BY <1>1, <1>2 DEF Fifo!Offer
<1>4. QED BY <1>3 DEF FifoStep, Fifo!Next

LEMMA AcceptIsFifo ==
    ASSUME RingTypes, NEW p \in Producers, NEW n, d_ring[p].offered = <<n>>,
           RoomFor(d_ring[p]), d_ring'[p] = Accepted(d_ring[p])
    PROVE  FifoStep(p)
<1> DEFINE ring == d_ring[p]
<1>1. /\ ring.offered # <<>> /\ Len(ring.offered) = 1
      /\ Len(ring.queue \o ring.offered) = Len(ring.queue) + 1
    BY RingFields
<1>2. /\ d_ring'[p].offered = <<>> /\ d_ring'[p].queue = ring.queue \o ring.offered
      /\ d_ring'[p].known = ring.known /\ d_ring'[p].unseen = ring.unseen
      /\ d_ring'[p].push_answer = TRUE /\ d_ring'[p].pop_answer = ring.pop_answer
    BY RingFields DEF Accepted, RingStates
<1>3. Len(ring.queue) + ring.unseen + Len(ring.offered) <= k_RING_CAPACITY
    BY <1>1, RingFields, LoggerAssumption DEF RoomFor
<1>4. ring.known..(Len(ring.queue) + 1) = (ring.known..Len(ring.queue)) \union {Len(ring.queue) + 1}
    BY RingFields
<1>5. Fifo(p)!Accept
    BY <1>1, <1>2, <1>3, <1>4 DEF Fifo!Accept
<1>6. QED BY <1>5 DEF FifoStep, Fifo!Next

LEMMA RefuseIsFifo ==
    ASSUME RingTypes, NEW p \in Producers, NEW n, d_ring[p].offered = <<n>>,
           ~RoomFor(d_ring[p]), d_ring'[p] = Refused(d_ring[p], d_ring[p].unseen)
    PROVE  FifoStep(p)
<1> DEFINE ring == d_ring[p]
<1>1. ring.offered # <<>> /\ Len(ring.offered) = 1
    OBVIOUS
<1>2. /\ d_ring'[p].offered = <<>> /\ d_ring'[p].queue = ring.queue
      /\ d_ring'[p].known = ring.known /\ d_ring'[p].unseen = ring.unseen
      /\ d_ring'[p].push_answer = FALSE /\ d_ring'[p].pop_answer = ring.pop_answer
    BY RingFields DEF Refused, RingStates
<1>3. /\ Len(ring.queue) + ring.unseen + Len(ring.offered) > k_RING_CAPACITY
      /\ ring.unseen \in 0..ring.unseen
    BY <1>1, RingFields, LoggerAssumption DEF RoomFor
<1>4. Fifo(p)!Refuse
    BY <1>1, <1>2, <1>3 DEF Fifo!Refuse
<1>5. QED BY <1>4 DEF FifoStep, Fifo!Next

LEMMA LearnPopsIsFifo ==
    ASSUME RingTypes, NEW p \in Producers, NEW unseen \in 0..(d_ring[p].unseen - 1),
           d_ring'[p] = [d_ring[p] EXCEPT !.unseen = unseen]
    PROVE  FifoStep(p)
<1>1. /\ d_ring'[p].offered = d_ring[p].offered /\ d_ring'[p].queue = d_ring[p].queue
      /\ d_ring'[p].known = d_ring[p].known /\ d_ring'[p].unseen = unseen
      /\ d_ring'[p].push_answer = d_ring[p].push_answer
      /\ d_ring'[p].pop_answer = d_ring[p].pop_answer
    BY RingFields DEF RingStates
<1>2. unseen \in 0..d_ring[p].unseen
    BY RingFields
<1>3. Fifo(p)!LearnPops
    BY <1>1, <1>2 DEF Fifo!LearnPops
<1>4. QED BY <1>3 DEF FifoStep, Fifo!Next

LEMMA LearnPushesIsFifo ==
    ASSUME RingTypes, NEW p \in Producers,
           NEW seen \in d_ring[p].known..Len(d_ring[p].queue),
           d_ring'[p] = [d_ring[p] EXCEPT !.known = seen]
    PROVE  FifoStep(p)
<1>1. /\ d_ring'[p].offered = d_ring[p].offered /\ d_ring'[p].queue = d_ring[p].queue
      /\ d_ring'[p].known = seen /\ d_ring'[p].unseen = d_ring[p].unseen
      /\ d_ring'[p].push_answer = d_ring[p].push_answer
      /\ d_ring'[p].pop_answer = d_ring[p].pop_answer
    BY RingFields DEF RingStates
<1>2. seen..Len(d_ring[p].queue) =
          {length \in d_ring[p].known..Len(d_ring[p].queue) : length >= seen}
    BY RingFields
<1>3. Fifo(p)!LearnPushes
    BY <1>1, <1>2 DEF Fifo!LearnPushes
<1>4. QED BY <1>3 DEF FifoStep, Fifo!Next

LEMMA PoppedFields ==
    ASSUME RingTypes, NEW p \in Producers, d_ring'[p] = Popped(d_ring[p])
    PROVE  /\ d_ring'[p].offered = d_ring[p].offered /\ d_ring'[p].queue = Tail(d_ring[p].queue)
           /\ d_ring'[p].known = d_ring[p].known - 1
           /\ d_ring'[p].unseen = d_ring[p].unseen + 1
           /\ d_ring'[p].push_answer = d_ring[p].push_answer
           /\ d_ring'[p].pop_answer = <<Head(d_ring[p].queue)>>
BY RingFields DEF Popped, RingStates

LEMMA PopIsFifo ==
    ASSUME RingTypes, NEW p \in Producers, d_ring[p].known > 0,
           d_ring'[p] = Popped(d_ring[p])
    PROVE  FifoStep(p)
<1> DEFINE ring == d_ring[p]
<1>1. /\ d_ring'[p].offered = ring.offered /\ d_ring'[p].queue = Tail(ring.queue)
      /\ d_ring'[p].known = ring.known - 1 /\ d_ring'[p].unseen = ring.unseen + 1
      /\ d_ring'[p].push_answer = ring.push_answer
      /\ d_ring'[p].pop_answer = <<Head(ring.queue)>>
    BY PoppedFields
<1>2. ring.queue # <<>> /\ Len(Tail(ring.queue)) = Len(ring.queue) - 1
    BY RingFields
<1>3. 0 \notin ring.known..Len(ring.queue)
    BY RingFields
<1>4. (ring.known - 1)..(Len(ring.queue) - 1)
          = {length - 1 : length \in ring.known..Len(ring.queue)}
    <2>1. \A k \in (ring.known - 1)..(Len(ring.queue) - 1) :
              k + 1 \in ring.known..Len(ring.queue) /\ k = (k + 1) - 1
        BY RingFields
    <2>2. \A length \in ring.known..Len(ring.queue) :
              length - 1 \in (ring.known - 1)..(Len(ring.queue) - 1)
        BY RingFields
    <2>3. QED BY <2>1, <2>2
<1>5. Fifo(p)!Pop
    BY <1>1, <1>2, <1>3, <1>4 DEF Fifo!Pop
<1>6. QED BY <1>5 DEF FifoStep, Fifo!Next

LEMMA PopNothingIsFifo ==
    ASSUME RingTypes, NEW p \in Producers, d_ring[p].known = 0,
           d_ring'[p] = [d_ring[p] EXCEPT !.pop_answer = <<>>]
    PROVE  FifoStep(p)
<1>1. /\ d_ring'[p].offered = d_ring[p].offered /\ d_ring'[p].queue = d_ring[p].queue
      /\ d_ring'[p].known = d_ring[p].known /\ d_ring'[p].unseen = d_ring[p].unseen
      /\ d_ring'[p].push_answer = d_ring[p].push_answer /\ d_ring'[p].pop_answer = <<>>
    BY RingFields DEF RingStates
<1>2. 0 \in d_ring[p].known..Len(d_ring[p].queue)
    BY RingFields
<1>3. Fifo(p)!PopNothing
    BY <1>1, <1>2 DEF Fifo!PopNothing
<1>4. QED BY <1>3 DEF FifoStep, Fifo!Next

-----------------------------------------------------------------------------
(* The threads that log.                                                   *)

\* A producer is the thread it is for and the number of the registration.
LEMMA ProducerPairs ==
    /\ \A p \in Producers :
          p = <<p[1], p[2]>> /\ p[1] \in Threads \union {"shared"} /\ p[2] \in Nat
    /\ \A p, q \in Producers : p[1] = q[1] /\ p[2] = q[2] => p = q
<1>1. \A p \in Producers :
          p = <<p[1], p[2]>> /\ p[1] \in Threads \union {"shared"} /\ p[2] \in Nat
    BY LoggerAssumption DEF Producers, Shared
<1>2. QED BY <1>1

\* The ring that a thread in a call uses, and is alone to use.
LEMMA OneCaller ==
    ASSUME OwnerInvariant, RingInvariant, NEW t \in Loggers,
           thread_at[t] \in HandleStates
    PROVE  /\ producer_of(t) \in Producers
           /\ \A u \in Loggers : thread_at[u] \in HandleStates /\ producer_of(u) = producer_of(t)
                 => u = t
<1>1. ThreadsOwn /\ OnePusher
    BY DEF OwnerInvariant, RingInvariant
<1>2. \A u \in Loggers : thread_at[u] \in HandleStates =>
          \/ /\ u \in Threads /\ u \notin ForeignThreads
             /\ producer_of(u) = <<u, registrations[u]>>
             /\ registrations[u] \in 1..MaxRegistrations
          \/ u \in ForeignThreads /\ producer_of(u) = Shared /\ d_shared_lock = u
    <2> SUFFICES ASSUME NEW u \in Loggers, thread_at[u] \in HandleStates
                 PROVE  \/ /\ u \in Threads /\ u \notin ForeignThreads
                           /\ producer_of(u) = <<u, registrations[u]>>
                           /\ registrations[u] \in 1..MaxRegistrations
                        \/ u \in ForeignThreads /\ producer_of(u) = Shared /\ d_shared_lock = u
        OBVIOUS
    <2>1. thread_at[u] \notin {"outside", "refused"}
        BY DEF HandleStates
    <2>2. CASE u \in Threads
        BY <1>1, <2>1, <2>2, ProducerOf, LoggerAssumption DEF ThreadsOwn
    <2>3. CASE u \in ForeignThreads
        BY <1>1, <2>1, <2>3 DEF OnePusher, producer_of
    <2>4. QED BY <2>2, <2>3 DEF Loggers
<1>3. producer_of(t) \in Producers
    BY <1>2, ProducerTypes
<1>4. \A u \in Loggers : thread_at[u] \in HandleStates /\ producer_of(u) = producer_of(t)
          => u = t
    BY <1>2, ProducerTypes
<1>5. QED BY <1>3, <1>4

\* It is alone to push to it.
LEMMA CallersRing ==
    ASSUME OwnerInvariant, RingInvariant, NEW t \in Loggers,
           thread_at[t] \in HandleStates
    PROVE  /\ producer_of(t) \in Producers
           /\ \A u \in Loggers : thread_at[u] = "pushing" /\ producer_of(u) = producer_of(t)
                 => u = t
BY OneCaller DEF HandleStates

\* A step that leaves the rings and the log alone.
LEMMA RingsUnchangedKeeps ==
    ASSUME RingInvariant, UNCHANGED <<d_ring, logged, written>>,
           \A t \in Loggers :
               /\ thread_at'[t] = "pushing" <=> thread_at[t] = "pushing"
               /\ thread_at[t] = "pushing" /\ t \notin ForeignThreads
                     => registrations'[t] = registrations[t],
           \A t \in ForeignThreads : thread_at'[t] # "outside" => d_shared_lock' = t
    PROVE  RingInvariant' /\ \A p \in Producers : FifoStep(p)
<1>1. RingTypes /\ OnePusher /\ RecordsInOrder /\ HandleOrder
    BY DEF RingInvariant
<1>2. RingTypes' /\ HandleOrder'
    BY <1>1 DEF RingTypes, HandleOrder
<1>3. RecordsInOrder'
    BY <1>1 DEF RecordsInOrder, HandedOver
<1>4. OnePusher'
    BY <1>1 DEF OnePusher, producer_of
<1>5. \A p \in Producers : FifoStep(p)
    BY UnchangedIsFifo
<1>6. QED BY <1>2, <1>3, <1>4, <1>5 DEF RingInvariant

\* A push begins of the next record.
LEMMA OfferKeeps ==
    ASSUME OwnerInvariant, RingInvariant, NEW t \in Loggers, Offer(t),
           NEW p \in Producers, p = producer_of(t), d_ring[p].offered = <<>>,
           UNCHANGED <<registrations, written>>,
           \A u \in ForeignThreads : thread_at'[u] # "outside" => d_shared_lock' = u
    PROVE  RingInvariant' /\ \A q \in Producers : FifoStep(q)
<1> DEFINE n == logged[p] + 1
<1>1. RingTypes /\ OnePusher /\ RecordsInOrder /\ HandleOrder
    BY DEF RingInvariant
<1>2. logged[p] \in Nat /\ n \in Records(p) /\ n \in Nat
    BY <1>1 DEF RingTypes, Offer
<1>3. /\ logged' = [logged EXCEPT ![p] = n]
      /\ logged'[p] = n /\ \A q \in Producers \ {p} : logged'[q] = logged[q]
    BY <1>1, <1>2 DEF Offer, RingTypes
<1>4. /\ d_ring' = [d_ring EXCEPT ![p] = Offered(d_ring[p], n)]
      /\ d_ring'[p] = Offered(d_ring[p], n)
      /\ \A q \in Producers \ {p} : d_ring'[q] = d_ring[q]
    BY <1>1, <1>3 DEF Offer, RingTypes
<1>5. /\ d_ring'[p].offered = <<n>> /\ d_ring'[p].queue = d_ring[p].queue
      /\ d_ring'[p].known = d_ring[p].known
    BY <1>1, <1>4, RingFields DEF Offered, RingStates
<1>6. thread_at'[t] = "pushing" /\ \A u \in Loggers \ {t} : thread_at'[u] = thread_at[u]
    BY DEF OwnerInvariant, OwnerTypes, Offer
<1>7. \A u \in Loggers : thread_at[u] = "pushing" => producer_of(u) # p
    BY <1>1 DEF OnePusher
<1>8. RingTypes'
    <2>1. Offered(d_ring[p], n) \in RingStates
        <3>1. <<n>> \in Seq(Nat)
            BY <1>2
        <3>2. d_ring[p] \in RingStates
            BY <1>1 DEF RingTypes
        <3>3. QED BY <3>1, <3>2 DEF Offered, RingStates
    <2>2. d_ring' \in [Producers -> RingStates]
        BY <1>1, <1>4, <2>1 DEF RingTypes
    <2>3. \A q \in Producers : d_ring'[q].known <= Len(d_ring'[q].queue)
        BY <1>1, <1>4, <1>5 DEF RingTypes
    <2>4. logged' \in [Producers -> Nat]
        BY <1>1, <1>2, <1>3 DEF RingTypes
    <2>5. QED BY <1>1, <2>2, <2>3, <2>4 DEF RingTypes
<1>9. OnePusher'
    <2>1. \A u \in Loggers : thread_at'[u] = "pushing" =>
              d_ring'[producer_of(u)].offered = <<logged'[producer_of(u)]>>
        <3> SUFFICES ASSUME NEW u \in Loggers, thread_at'[u] = "pushing"
                     PROVE  d_ring'[producer_of(u)].offered = <<logged'[producer_of(u)]>>
            OBVIOUS
        <3>1. CASE u = t
            BY <3>1, <1>3, <1>5
        <3>2. CASE u # t
            <4>1. thread_at[u] = "pushing" /\ thread_at[u] \in HandleStates
                BY <3>2, <1>6 DEF HandleStates
            <4>2. producer_of(u) \in Producers \ {p}
                BY <4>1, <1>7, CallersRing
            <4>3. QED BY <4>1, <4>2, <1>1, <1>3, <1>4 DEF OnePusher
        <3>3. QED BY <3>1, <3>2
    <2>2. \A q \in Producers : d_ring'[q].offered # <<>> =>
              \E u \in Loggers : thread_at'[u] = "pushing" /\ producer_of(u) = q
        <3>1. \A u \in Loggers : thread_at[u] = "pushing" => thread_at'[u] = "pushing"
            BY <1>6
        <3>2. QED BY <3>1, <1>1, <1>4, <1>6 DEF OnePusher
    <2>3. \A u \in Loggers : producer_of(u)' = producer_of(u)
        BY DEF producer_of
    <2>4. QED BY <2>1, <2>2, <2>3 DEF OnePusher, producer_of
<1>10. \A q \in Producers : d_ring'[q].queue = d_ring[q].queue /\ HandedOver(q)' = HandedOver(q)
    <2>1. HandedOver(p)' = HandedOver(p)
        BY <1>2, <1>3, <1>5 DEF HandedOver
    <2>2. \A q \in Producers \ {p} : HandedOver(q)' = HandedOver(q)
        BY <1>3, <1>4 DEF HandedOver
    <2> HIDE DEF n
    <2>3. QED BY <2>1, <2>2, <1>4, <1>5
<1>11. RecordsInOrder'
    BY <1>1, <1>10 DEF RecordsInOrder
<1>12. HandleOrder'
    BY <1>1 DEF HandleOrder
<1>13. \A q \in Producers : FifoStep(q)
    BY <1>1, <1>2, <1>4, OfferIsFifo, UnchangedIsFifo
<1>14. QED BY <1>8, <1>9, <1>11, <1>12, <1>13 DEF RingInvariant

\* The ring takes the record in hand, after those it holds.
LEMMA AcceptKeeps ==
    ASSUME OwnerInvariant, RingInvariant, NEW t \in Loggers, PushAccepted(t),
           NEW p \in Producers, p = producer_of(t)
    PROVE  RingInvariant' /\ \A q \in Producers : FifoStep(q)
<1> DEFINE ring == d_ring[p]
           n == Len(ring.queue)
<1>1. RingTypes /\ OnePusher /\ RecordsInOrder /\ HandleOrder
    BY DEF RingInvariant
<1>2. /\ thread_at[t] = "pushing" /\ RoomFor(ring) /\ LogReturns(t)
      /\ d_ring' = [d_ring EXCEPT ![p] = Accepted(ring)]
      /\ UNCHANGED <<registrations, logged, written>>
    BY DEF PushAccepted, logger_vars
<1>3. ring.offered = <<logged[p]>> /\ logged[p] \in Nat
    BY <1>1, <1>2 DEF OnePusher, RingTypes
<1>4. d_ring'[p] = Accepted(ring) /\ \A q \in Producers \ {p} : d_ring'[q] = d_ring[q]
    BY <1>1, <1>2 DEF RingTypes
<1>5. /\ d_ring'[p].offered = <<>> /\ d_ring'[p].queue = ring.queue \o <<logged[p]>>
      /\ d_ring'[p].known = ring.known
    BY <1>1, <1>3, <1>4, RingFields DEF Accepted, RingStates
<1>6. /\ n \in Nat /\ ring.queue \in Seq(Nat)
      /\ ring.queue \o <<logged[p]>> \in Seq(Nat) /\ Len(ring.queue \o <<logged[p]>>) = n + 1
      /\ \A i \in 1..n : (ring.queue \o <<logged[p]>>)[i] = ring.queue[i]
      /\ (ring.queue \o <<logged[p]>>)[n + 1] = logged[p]
    BY <1>1, <1>3, RingFields
<1>7. /\ thread_at'[t] # "pushing" /\ \A u \in Loggers \ {t} : thread_at'[u] = thread_at[u]
      /\ t \in ForeignThreads => thread_at'[t] = "outside"
    BY <1>2, LoggerAssumption DEF OwnerInvariant, OwnerTypes, LogReturns
<1>8. \A u \in Loggers : thread_at[u] = "pushing" /\ producer_of(u) = p => u = t
    BY <1>2, CallersRing DEF HandleStates
<1>9. RingTypes'
    <2>1. Accepted(ring) \in RingStates
        <3>1. ring \in RingStates /\ <<>> \in Seq(Nat) /\ ring.queue \o ring.offered \in Seq(Nat)
            BY <1>1, <1>3, <1>6 DEF RingTypes
        <3>2. QED BY <3>1 DEF Accepted, RingStates
    <2>2. d_ring' \in [Producers -> RingStates]
        BY <1>1, <1>2, <2>1 DEF RingTypes
    <2>3. d_ring'[p].known <= Len(d_ring'[p].queue)
        BY <1>1, <1>5, <1>6, RingFields
    <2>4. \A q \in Producers : d_ring'[q].known <= Len(d_ring'[q].queue)
        BY <1>1, <1>4, <2>3 DEF RingTypes
    <2>5. QED BY <1>1, <1>2, <2>2, <2>4 DEF RingTypes
<1>10. OnePusher'
    <2>1. \A u \in Loggers : thread_at'[u] = "pushing" =>
              d_ring'[producer_of(u)].offered = <<logged[producer_of(u)]>>
        <3> SUFFICES ASSUME NEW u \in Loggers, thread_at'[u] = "pushing"
                     PROVE  d_ring'[producer_of(u)].offered = <<logged[producer_of(u)]>>
            OBVIOUS
        <3>1. u # t /\ thread_at[u] = "pushing" /\ thread_at[u] \in HandleStates
            BY <1>7 DEF HandleStates
        <3>2. producer_of(u) \in Producers \ {p}
            BY <3>1, <1>8, CallersRing
        <3>3. QED BY <3>1, <3>2, <1>1, <1>4 DEF OnePusher
    <2>2. \A q \in Producers : d_ring'[q].offered # <<>> =>
              \E u \in Loggers : thread_at'[u] = "pushing" /\ producer_of(u) = q
        <3> SUFFICES ASSUME NEW q \in Producers, d_ring'[q].offered # <<>>
                     PROVE  \E u \in Loggers : thread_at'[u] = "pushing" /\ producer_of(u) = q
            OBVIOUS
        <3>1. q # p /\ d_ring[q].offered # <<>>
            BY <1>4, <1>5
        <3>2. PICK u \in Loggers : thread_at[u] = "pushing" /\ producer_of(u) = q
            BY <3>1, <1>1 DEF OnePusher
        <3>3. QED BY <3>1, <3>2, <1>7
    <2>3. \A u \in ForeignThreads : thread_at'[u] # "outside" => d_shared_lock' = u
        <3> SUFFICES ASSUME NEW u \in ForeignThreads, thread_at'[u] # "outside"
                     PROVE  d_shared_lock' = u
            OBVIOUS
        <3>1. u # t /\ u \in Loggers /\ thread_at[u] # "outside" /\ d_shared_lock = u
            BY <1>1, <1>7 DEF OnePusher, Loggers
        <3>2. t \in ForeignThreads => thread_at[t] # "outside" /\ d_shared_lock = t
            BY <1>1, <1>2 DEF OnePusher
        <3>3. t \in Threads
            BY <3>1, <3>2 DEF Loggers
        <3>4. QED BY <3>1, <3>3, <1>2 DEF LogReturns
    <2>4. QED BY <1>2, <2>1, <2>2, <2>3 DEF OnePusher, producer_of
<1>11. HandedOver(p) = logged[p] - 1 /\ HandedOver(p)' = logged[p]
    BY <1>2, <1>3, <1>5 DEF HandedOver
<1>12. \A q \in Producers \ {p} : HandedOver(q)' = HandedOver(q)
    BY <1>2, <1>4 DEF HandedOver
<1>13. RecordsInOrder'
    <2> SUFFICES ASSUME NEW q \in Producers
                 PROVE  /\ \A i \in 1..Len(d_ring'[q].queue) :
                              d_ring'[q].queue[i] <= HandedOver(q)'
                        /\ \A i, j \in 1..Len(d_ring'[q].queue) :
                              i < j => d_ring'[q].queue[i] < d_ring'[q].queue[j]
                        /\ \A i \in 1..Len(written[q[1]]) : written[q[1]][i][1] = q[2] =>
                              /\ written[q[1]][i][2] <= HandedOver(q)'
                              /\ \A j \in 1..Len(d_ring'[q].queue) :
                                    written[q[1]][i][2] < d_ring'[q].queue[j]
        BY <1>2 DEF RecordsInOrder
    <2>1. CASE q # p
        BY <2>1, <1>1, <1>4, <1>12 DEF RecordsInOrder
    <2>2. CASE q = p
        <3>1. \A i \in 1..n : ring.queue[i] \in Nat /\ ring.queue[i] <= logged[p] - 1
            <4>1. \A i \in 1..n : ring.queue[i] <= HandedOver(p)
                BY <1>1 DEF RecordsInOrder
            <4>2. \A i \in 1..n : ring.queue[i] \in Nat
                BY <1>6, ElementOfSeq
            <4>3. QED BY <4>1, <4>2, <1>11
        <3>2. \A i, j \in 1..n : i < j => ring.queue[i] < ring.queue[j]
            BY <1>1 DEF RecordsInOrder
        <3>3. \A i \in 1..(n + 1) : i \in 1..n \/ i = n + 1
            BY <1>6
        <3>4. \A i \in 1..(n + 1) : d_ring'[p].queue[i] <= logged[p]
            <4> TAKE i \in 1..(n + 1)
            <4>1. CASE i \in 1..n
                <5>1. d_ring'[p].queue[i] = ring.queue[i]
                    BY <4>1, <1>5, <1>6
                <5>2. QED BY <5>1, <4>1, <1>3, <3>1
            <4>2. CASE i = n + 1
                BY <4>2, <1>3, <1>5, <1>6
            <4>3. QED BY <4>1, <4>2, <3>3
        <3>5. \A i, j \in 1..(n + 1) : i < j => d_ring'[p].queue[i] < d_ring'[p].queue[j]
            <4> TAKE i, j \in 1..(n + 1)
            <4> HAVE i < j
            <4>1. i \in 1..n
                BY <1>6
            <4>2. CASE j \in 1..n
                BY <4>1, <4>2, <3>2, <1>5, <1>6
            <4>3. CASE j = n + 1
                BY <4>1, <4>3, <3>1, <1>3, <1>5, <1>6
            <4>4. QED BY <4>2, <4>3, <3>3
        <3>6. \A i \in 1..Len(written[p[1]]) : written[p[1]][i][1] = p[2] =>
                  /\ written[p[1]][i][2] <= logged[p]
                  /\ \A j \in 1..(n + 1) : written[p[1]][i][2] < d_ring'[p].queue[j]
            <4> SUFFICES ASSUME NEW i \in 1..Len(written[p[1]]), written[p[1]][i][1] = p[2]
                         PROVE  /\ written[p[1]][i][2] <= logged[p]
                                /\ \A j \in 1..(n + 1) : written[p[1]][i][2] < d_ring'[p].queue[j]
                OBVIOUS
            <4>1. written[p[1]] \in Seq(Nat \X Nat)
                BY <1>1, ProducerPairs DEF RingTypes
            <4>2. written[p[1]][i] \in Nat \X Nat
                BY <4>1
            <4>3. written[p[1]][i][2] \in Nat
                BY <4>2
            <4>4. /\ written[p[1]][i][2] <= logged[p] - 1
                  /\ \A j \in 1..n : written[p[1]][i][2] < ring.queue[j]
                BY <1>1, <1>11 DEF RecordsInOrder
            <4>5. written[p[1]][i][2] < logged[p]
                BY <4>3, <4>4, <1>3
            <4>6. \A j \in 1..n : written[p[1]][i][2] < d_ring'[p].queue[j]
                BY <4>4, <1>5, <1>6
            <4>7. written[p[1]][i][2] < d_ring'[p].queue[n + 1]
                BY <4>5, <1>5, <1>6
            <4>8. QED BY <4>3, <4>5, <4>6, <4>7, <3>3, <1>3
        <3>7. Len(d_ring'[p].queue) = n + 1
            BY <1>5, <1>6
        <3> HIDE DEF n
        <3>8. QED BY <2>2, <3>4, <3>5, <3>6, <3>7, <1>11
    <2>3. QED BY <2>1, <2>2
<1>14. HandleOrder'
    BY <1>1, <1>2 DEF HandleOrder
<1>15. \A q \in Producers : FifoStep(q)
    BY <1>1, <1>2, <1>3, <1>4, AcceptIsFifo, UnchangedIsFifo
<1>16. QED BY <1>9, <1>10, <1>13, <1>14, <1>15 DEF RingInvariant

\* The record in hand is dropped; the thread goes on to count it.
LEMMA RefuseKeeps ==
    ASSUME OwnerInvariant, RingInvariant, NEW t \in Loggers, PushRefused(t),
           NEW p \in Producers, p = producer_of(t)
    PROVE  RingInvariant' /\ \A q \in Producers : FifoStep(q)
<1> DEFINE ring == d_ring[p]
<1>1. RingTypes /\ OnePusher /\ RecordsInOrder /\ HandleOrder
    BY DEF RingInvariant
<1>2. /\ thread_at[t] = "pushing" /\ ~RoomFor(ring)
      /\ thread_at' = [thread_at EXCEPT ![t] = "dropping"]
      /\ d_ring' = [d_ring EXCEPT ![p] = Refused(ring, ring.unseen)]
      /\ UNCHANGED <<registrations, logged, written, d_shared_lock>>
    BY DEF PushRefused, logger_vars
<1>3. ring.offered = <<logged[p]>> /\ logged[p] \in Nat
    BY <1>1, <1>2 DEF OnePusher, RingTypes
<1>4. /\ d_ring'[p] = Refused(ring, ring.unseen)
      /\ \A q \in Producers \ {p} : d_ring'[q] = d_ring[q]
    BY <1>1, <1>2 DEF RingTypes
<1>5. /\ d_ring'[p].offered = <<>> /\ d_ring'[p].queue = ring.queue
      /\ d_ring'[p].known = ring.known
    BY <1>1, <1>4, RingFields DEF Refused, RingStates
<1>6. thread_at'[t] = "dropping" /\ \A u \in Loggers \ {t} : thread_at'[u] = thread_at[u]
    BY <1>2 DEF OwnerInvariant, OwnerTypes
<1>7. \A u \in Loggers : thread_at[u] = "pushing" /\ producer_of(u) = p => u = t
    BY <1>2, CallersRing DEF HandleStates
<1>8. RingTypes'
    <2>1. Refused(ring, ring.unseen) \in RingStates
        <3>1. ring \in RingStates /\ <<>> \in Seq(Nat) /\ ring.unseen \in Nat
            BY <1>1, RingFields
        <3>2. QED BY <3>1 DEF Refused, RingStates
    <2>2. d_ring' \in [Producers -> RingStates]
        BY <1>1, <1>2, <2>1 DEF RingTypes
    <2>3. \A q \in Producers : d_ring'[q].known <= Len(d_ring'[q].queue)
        BY <1>1, <1>4, <1>5 DEF RingTypes
    <2>4. QED BY <1>1, <1>2, <2>2, <2>3 DEF RingTypes
<1>9. OnePusher'
    <2>1. \A u \in Loggers : thread_at'[u] = "pushing" =>
              d_ring'[producer_of(u)].offered = <<logged[producer_of(u)]>>
        <3> SUFFICES ASSUME NEW u \in Loggers, thread_at'[u] = "pushing"
                     PROVE  d_ring'[producer_of(u)].offered = <<logged[producer_of(u)]>>
            OBVIOUS
        <3>1. u # t /\ thread_at[u] = "pushing" /\ thread_at[u] \in HandleStates
            BY <1>6 DEF HandleStates
        <3>2. producer_of(u) \in Producers \ {p}
            BY <3>1, <1>7, CallersRing
        <3>3. QED BY <3>1, <3>2, <1>1, <1>4 DEF OnePusher
    <2>2. \A q \in Producers : d_ring'[q].offered # <<>> =>
              \E u \in Loggers : thread_at'[u] = "pushing" /\ producer_of(u) = q
        <3> SUFFICES ASSUME NEW q \in Producers, d_ring'[q].offered # <<>>
                     PROVE  \E u \in Loggers : thread_at'[u] = "pushing" /\ producer_of(u) = q
            OBVIOUS
        <3>1. q # p /\ d_ring[q].offered # <<>>
            BY <1>4, <1>5
        <3>2. PICK u \in Loggers : thread_at[u] = "pushing" /\ producer_of(u) = q
            BY <3>1, <1>1 DEF OnePusher
        <3>3. QED BY <3>1, <3>2, <1>6
    <2>3. \A u \in ForeignThreads : thread_at'[u] # "outside" => d_shared_lock' = u
        <3>1. ForeignThreads \subseteq Loggers
            BY DEF Loggers
        <3>2. QED BY <3>1, <1>1, <1>2, <1>6 DEF OnePusher
    <2>4. QED BY <1>2, <2>1, <2>2, <2>3 DEF OnePusher, producer_of
<1>10. HandedOver(p) = logged[p] - 1 /\ HandedOver(p)' = logged[p]
    BY <1>2, <1>3, <1>5 DEF HandedOver
<1>11. \A q \in Producers \ {p} : HandedOver(q)' = HandedOver(q)
    BY <1>2, <1>4 DEF HandedOver
<1>12. RecordsInOrder'
    <2> SUFFICES ASSUME NEW q \in Producers
                 PROVE  /\ \A i \in 1..Len(d_ring[q].queue) :
                              d_ring[q].queue[i] <= HandedOver(q)'
                        /\ \A i, j \in 1..Len(d_ring[q].queue) :
                              i < j => d_ring[q].queue[i] < d_ring[q].queue[j]
                        /\ \A i \in 1..Len(written[q[1]]) : written[q[1]][i][1] = q[2] =>
                              /\ written[q[1]][i][2] <= HandedOver(q)'
                              /\ \A j \in 1..Len(d_ring[q].queue) :
                                    written[q[1]][i][2] < d_ring[q].queue[j]
        <3>1. \A q \in Producers : d_ring'[q].queue = d_ring[q].queue
            BY <1>4, <1>5
        <3>2. QED BY <3>1, <1>2 DEF RecordsInOrder
    <2>1. CASE q # p
        BY <2>1, <1>1, <1>11 DEF RecordsInOrder
    <2>2. CASE q = p
        <3>1. \A i \in 1..Len(ring.queue) : ring.queue[i] \in Nat
            BY <1>1, RingFields
        <3>2. written[p[1]] \in Seq(Nat \X Nat)
            BY <1>1, ProducerPairs DEF RingTypes
        <3>3. \A i \in 1..Len(written[p[1]]) : written[p[1]][i] \in Nat \X Nat
            BY <3>2
        <3>4. \A i \in 1..Len(written[p[1]]) : written[p[1]][i][2] \in Nat
            BY <3>3
        <3>5. \A k \in Nat : k <= logged[p] - 1 => k <= logged[p]
            BY <1>3
        <3>6. /\ \A i \in 1..Len(ring.queue) : ring.queue[i] <= logged[p] - 1
              /\ \A i, j \in 1..Len(ring.queue) : i < j => ring.queue[i] < ring.queue[j]
            BY <1>1, <1>10 DEF RecordsInOrder
        <3>7. \A i \in 1..Len(written[p[1]]) : written[p[1]][i][1] = p[2] =>
                  /\ written[p[1]][i][2] <= logged[p] - 1
                  /\ \A j \in 1..Len(ring.queue) : written[p[1]][i][2] < ring.queue[j]
            BY <1>1, <1>10 DEF RecordsInOrder
        <3>8. \A i \in 1..Len(ring.queue) : ring.queue[i] <= HandedOver(p)'
            BY <3>1, <3>5, <3>6, <1>10
        <3>9. \A i \in 1..Len(written[p[1]]) : written[p[1]][i][1] = p[2] =>
                  written[p[1]][i][2] <= HandedOver(p)'
            BY <3>4, <3>5, <3>7, <1>10
        <3>10. QED BY <2>2, <3>6, <3>7, <3>8, <3>9
    <2>3. QED BY <2>1, <2>2
<1>13. HandleOrder'
    BY <1>1, <1>2 DEF HandleOrder
<1>14. \A q \in Producers : FifoStep(q)
    BY <1>1, <1>2, <1>3, <1>4, RefuseIsFifo, UnchangedIsFifo
<1>15. QED BY <1>8, <1>9, <1>12, <1>13, <1>14 DEF RingInvariant

-----------------------------------------------------------------------------
(* What either side of a ring learns, and the pops.                        *)

\* A step that changes neither what is in the rings nor what is in hand.
LEMMA LearningKeeps ==
    ASSUME OwnerInvariant, RingInvariant,
           UNCHANGED <<thread_at, registrations, d_shared_lock, logged, written>>,
           d_ring' \in [Producers -> RingStates],
           \A p \in Producers :
               /\ d_ring'[p].queue = d_ring[p].queue /\ d_ring'[p].offered = d_ring[p].offered
               /\ d_ring'[p].known <= Len(d_ring[p].queue)
    PROVE  RingInvariant'
<1>1. RingTypes /\ OnePusher /\ RecordsInOrder /\ HandleOrder
    BY DEF RingInvariant
<1>2. RingTypes'
    BY <1>1 DEF RingTypes
<1>3. OnePusher'
    <2>1. \A t \in Loggers : thread_at[t] = "pushing" =>
              d_ring'[producer_of(t)].offered = <<logged[producer_of(t)]>>
        <3> SUFFICES ASSUME NEW t \in Loggers, thread_at[t] = "pushing"
                     PROVE  d_ring'[producer_of(t)].offered = <<logged[producer_of(t)]>>
            OBVIOUS
        <3>1. d_ring[producer_of(t)].offered = <<logged[producer_of(t)]>>
            BY <1>1 DEF OnePusher
        <3>2. producer_of(t) \in Producers
            BY CallersRing DEF HandleStates
        <3>3. QED BY <3>1, <3>2
    <2>2. QED BY <2>1, <1>1 DEF OnePusher, producer_of
<1>4. \A p \in Producers : HandedOver(p)' = HandedOver(p)
    BY DEF HandedOver
<1>5. RecordsInOrder'
    BY <1>1, <1>4 DEF RecordsInOrder
<1>6. HandleOrder'
    BY <1>1 DEF HandleOrder
<1>7. QED BY <1>2, <1>3, <1>5, <1>6 DEF RingInvariant

LEMMA LearnPopsKeeps ==
    ASSUME OwnerInvariant, RingInvariant, NEW t \in Loggers, LearnPops(t),
           NEW p \in Producers, p = producer_of(t)
    PROVE  RingInvariant' /\ \A q \in Producers : FifoStep(q)
<1>1. RingTypes
    BY DEF RingInvariant
<1>2. PICK unseen \in 0..(d_ring[p].unseen - 1) : d_ring' = [d_ring EXCEPT ![p].unseen = unseen]
    BY DEF LearnPops
<1>3. UNCHANGED <<thread_at, registrations, d_shared_lock, logged, written>>
    BY DEF LearnPops, thread_vars, logger_vars
<1>4. /\ d_ring'[p] = [d_ring[p] EXCEPT !.unseen = unseen]
      /\ \A q \in Producers \ {p} : d_ring'[q] = d_ring[q]
    BY <1>1, <1>2 DEF RingTypes
<1>5. unseen \in Nat
    BY <1>1, RingFields
<1>6. [d_ring[p] EXCEPT !.unseen = unseen] \in RingStates
    BY <1>1, <1>5 DEF RingTypes, RingStates
<1>7. d_ring' \in [Producers -> RingStates]
    BY <1>1, <1>2, <1>6 DEF RingTypes
<1>8. /\ d_ring'[p].queue = d_ring[p].queue /\ d_ring'[p].offered = d_ring[p].offered
      /\ d_ring'[p].known = d_ring[p].known
    BY <1>1, <1>4, RingFields DEF RingStates
<1>9. \A q \in Producers :
          /\ d_ring'[q].queue = d_ring[q].queue /\ d_ring'[q].offered = d_ring[q].offered
          /\ d_ring'[q].known <= Len(d_ring[q].queue)
    BY <1>1, <1>4, <1>8 DEF RingTypes
<1>10. RingInvariant'
    BY <1>3, <1>7, <1>9, LearningKeeps
<1>11. \A q \in Producers : FifoStep(q)
    BY <1>1, <1>4, LearnPopsIsFifo, UnchangedIsFifo
<1>12. QED BY <1>10, <1>11

\* The thread that drains learns of pushes to some rings.
LEMMA LearnPushesKeeps ==
    ASSUME OwnerInvariant, RingInvariant,
           UNCHANGED <<thread_at, registrations, d_shared_lock, logged, written>>,
           d_ring' \in [Producers -> RingStates],
           \A p \in Producers :
               \/ d_ring'[p] = d_ring[p]
               \/ \E seen \in d_ring[p].known..Len(d_ring[p].queue) :
                     d_ring'[p] = [d_ring[p] EXCEPT !.known = seen]
    PROVE  RingInvariant' /\ \A p \in Producers : FifoStep(p)
<1>1. RingTypes
    BY DEF RingInvariant
<1>2. \A p \in Producers :
          /\ d_ring'[p].queue = d_ring[p].queue /\ d_ring'[p].offered = d_ring[p].offered
          /\ d_ring'[p].known <= Len(d_ring[p].queue)
    <2> TAKE p \in Producers
    <2>1. CASE d_ring'[p] = d_ring[p]
        BY <2>1, <1>1 DEF RingTypes
    <2>2. ASSUME NEW seen \in d_ring[p].known..Len(d_ring[p].queue),
                 d_ring'[p] = [d_ring[p] EXCEPT !.known = seen]
          PROVE  /\ d_ring'[p].queue = d_ring[p].queue /\ d_ring'[p].offered = d_ring[p].offered
                 /\ d_ring'[p].known <= Len(d_ring[p].queue)
        <3>1. /\ d_ring'[p].queue = d_ring[p].queue /\ d_ring'[p].offered = d_ring[p].offered
              /\ d_ring'[p].known = seen
            BY <2>2, <1>1, RingFields DEF RingStates
        <3>2. seen <= Len(d_ring[p].queue)
            BY <1>1, RingFields
        <3>3. QED BY <3>1, <3>2
    <2>3. QED BY <2>1, <2>2
<1>3. RingInvariant'
    BY <1>2, LearningKeeps
<1>4. \A p \in Producers : FifoStep(p)
    BY <1>1, LearnPushesIsFifo, UnchangedIsFifo
<1>5. QED BY <1>3, <1>4

LEMMA PopNothingKeeps ==
    ASSUME OwnerInvariant, RingInvariant, NEW p \in Producers, d_ring[p].known = 0,
           UNCHANGED <<thread_at, registrations, d_shared_lock, logged, written>>,
           d_ring' = [d_ring EXCEPT ![p].pop_answer = <<>>]
    PROVE  RingInvariant' /\ \A q \in Producers : FifoStep(q)
<1>1. RingTypes
    BY DEF RingInvariant
<1>2. /\ d_ring'[p] = [d_ring[p] EXCEPT !.pop_answer = <<>>]
      /\ \A q \in Producers \ {p} : d_ring'[q] = d_ring[q]
    BY <1>1 DEF RingTypes
<1>3. [d_ring[p] EXCEPT !.pop_answer = <<>>] \in RingStates
    <2>1. d_ring[p] \in RingStates /\ <<>> \in Seq(Nat)
        BY <1>1 DEF RingTypes
    <2>2. QED BY <2>1 DEF RingStates
<1>4. d_ring' \in [Producers -> RingStates]
    BY <1>1, <1>3 DEF RingTypes
<1>5. /\ d_ring'[p].queue = d_ring[p].queue /\ d_ring'[p].offered = d_ring[p].offered
      /\ d_ring'[p].known = d_ring[p].known
    BY <1>1, <1>2, RingFields DEF RingStates
<1>6. \A q \in Producers :
          /\ d_ring'[q].queue = d_ring[q].queue /\ d_ring'[q].offered = d_ring[q].offered
          /\ d_ring'[q].known <= Len(d_ring[q].queue)
    BY <1>1, <1>2, <1>5 DEF RingTypes
<1>7. RingInvariant'
    BY <1>4, <1>6, LearningKeeps
<1>8. \A q \in Producers : FifoStep(q)
    BY <1>1, <1>2, PopNothingIsFifo, UnchangedIsFifo
<1>9. QED BY <1>7, <1>8

\* The oldest record of a ring follows those of it in the log, and the younger ones
\* will follow it.
LEMMA PopKeeps ==
    ASSUME OwnerInvariant, RingInvariant, NEW p \in Producers, d_ring[p].known > 0,
           UNCHANGED <<thread_at, registrations, d_shared_lock, logged>>,
           d_ring' = [d_ring EXCEPT ![p] = Popped(@)],
           written' = [written EXCEPT ![p[1]] = Append(@, <<p[2], Head(d_ring[p].queue)>>)]
    PROVE  RingInvariant' /\ \A q \in Producers : FifoStep(q)
<1> DEFINE ring == d_ring[p]
           n == Len(ring.queue)
           log == written[p[1]]
           entry == <<p[2], Head(ring.queue)>>
<1>1. RingTypes /\ OnePusher /\ RecordsInOrder /\ HandleOrder
    BY DEF RingInvariant
<1>2. d_ring'[p] = Popped(ring) /\ \A q \in Producers \ {p} : d_ring'[q] = d_ring[q]
    BY <1>1 DEF RingTypes
<1>3. /\ n \in Nat \ {0} /\ ring.queue \in Seq(Nat) /\ Head(ring.queue) = ring.queue[1]
      /\ ring.queue[1] \in Nat /\ Tail(ring.queue) \in Seq(Nat)
      /\ Len(Tail(ring.queue)) = n - 1
      /\ \A i \in 1..(n - 1) : Tail(ring.queue)[i] = ring.queue[i + 1]
    BY <1>1, RingFields
<1>4. /\ d_ring'[p].offered = ring.offered /\ d_ring'[p].queue = Tail(ring.queue)
      /\ d_ring'[p].known = ring.known - 1
    BY <1>1, <1>2, PoppedFields
<1>5. log \in Seq(Nat \X Nat) /\ Len(log) \in Nat /\ entry \in Nat \X Nat
    BY <1>1, <1>3, ProducerPairs DEF RingTypes
<1>6. /\ written'[p[1]] = Append(log, entry)
      /\ \A t \in (Threads \union {"shared"}) \ {p[1]} : written'[t] = written[t]
    BY <1>1, ProducerPairs DEF RingTypes
<1>7. /\ Len(Append(log, entry)) = Len(log) + 1
      /\ \A i \in 1..Len(log) : Append(log, entry)[i] = log[i]
      /\ Append(log, entry)[Len(log) + 1] = entry
      /\ Append(log, entry) \in Seq(Nat \X Nat)
    BY <1>5, AppendProperties
<1>8. RingTypes'
    <2>1. Popped(ring) \in RingStates
        <3>1. ring \in RingStates /\ <<Head(ring.queue)>> \in Seq(Nat)
            BY <1>1, <1>3 DEF RingTypes
        <3>2. ring.known - 1 \in Nat /\ ring.unseen + 1 \in Nat
            BY <1>1, RingFields
        <3>3. QED BY <3>1, <3>2, <1>3 DEF Popped, RingStates
    <2>2. d_ring' \in [Producers -> RingStates]
        BY <1>1, <2>1 DEF RingTypes
    <2>3. d_ring'[p].known <= Len(d_ring'[p].queue)
        <3>1. ring.known \in Nat /\ ring.known <= n
            BY <1>1, RingFields
        <3>2. ring.known - 1 <= n - 1
            BY <3>1, <1>3
        <3>3. QED BY <3>2, <1>3, <1>4
    <2>4. \A q \in Producers : d_ring'[q].known <= Len(d_ring'[q].queue)
        BY <1>1, <1>2, <2>3 DEF RingTypes
    <2>5. written' \in [Threads \union {"shared"} -> Seq(Nat \X Nat)]
        BY <1>1, <1>7 DEF RingTypes
    <2>6. QED BY <1>1, <2>2, <2>4, <2>5 DEF RingTypes
<1>9. OnePusher'
    <2>1. \A q \in Producers : d_ring'[q].offered = d_ring[q].offered
        BY <1>2, <1>4
    <2>2. \A t \in Loggers : thread_at[t] = "pushing" => producer_of(t) \in Producers
        BY CallersRing DEF HandleStates
    <2>3. \A t \in Loggers : thread_at[t] = "pushing" =>
              d_ring'[producer_of(t)].offered = <<logged[producer_of(t)]>>
        BY <1>1, <2>1, <2>2 DEF OnePusher
    <2>4. QED BY <1>1, <2>1, <2>3 DEF OnePusher, producer_of
<1>10. \A q \in Producers : HandedOver(q)' = HandedOver(q)
    <2>1. \A q \in Producers : d_ring'[q].offered = d_ring[q].offered
        BY <1>2, <1>4
    <2>2. QED BY <2>1 DEF HandedOver
<1>11. /\ \A i \in 1..n : ring.queue[i] <= HandedOver(p)
       /\ \A i, j \in 1..n : i < j => ring.queue[i] < ring.queue[j]
       /\ \A i \in 1..Len(log) : log[i][1] = p[2] =>
             /\ log[i][2] <= HandedOver(p)
             /\ \A j \in 1..n : log[i][2] < ring.queue[j]
    BY <1>1 DEF RecordsInOrder
<1>12. \A i \in 1..(Len(log) + 1) : i \in 1..Len(log) \/ i = Len(log) + 1
    BY <1>5
<1>13. entry[1] = p[2] /\ entry[2] = ring.queue[1]
    BY <1>3
<1> HIDE DEF log, entry
<1>14. RecordsInOrder'
    <2> SUFFICES ASSUME NEW q \in Producers
                 PROVE  /\ \A i \in 1..Len(d_ring'[q].queue) :
                              d_ring'[q].queue[i] <= HandedOver(q)
                        /\ \A i, j \in 1..Len(d_ring'[q].queue) :
                              i < j => d_ring'[q].queue[i] < d_ring'[q].queue[j]
                        /\ \A i \in 1..Len(written'[q[1]]) : written'[q[1]][i][1] = q[2] =>
                              /\ written'[q[1]][i][2] <= HandedOver(q)
                              /\ \A j \in 1..Len(d_ring'[q].queue) :
                                    written'[q[1]][i][2] < d_ring'[q].queue[j]
        BY <1>10 DEF RecordsInOrder
    <2>1. CASE q = p
        <3>1. \A i \in 1..(n - 1) : i + 1 \in 1..n
            BY <1>3
        <3>2. \A i \in 1..(n - 1) : d_ring'[p].queue[i] = ring.queue[i + 1]
            BY <1>3, <1>4
        <3>3. \A i \in 1..(n - 1) : d_ring'[p].queue[i] <= HandedOver(p)
            BY <1>11, <3>1, <3>2
        <3>4. \A i, j \in 1..(n - 1) : i < j => d_ring'[p].queue[i] < d_ring'[p].queue[j]
            <4>1. \A i, j \in 1..(n - 1) : i < j => i + 1 < j + 1
                OBVIOUS
            <4>2. QED BY <1>11, <3>1, <3>2, <4>1
        <3>5. \A i \in 1..Len(log) : log[i][1] = p[2] =>
                  /\ log[i][2] <= HandedOver(p)
                  /\ \A j \in 1..(n - 1) : log[i][2] < d_ring'[p].queue[j]
            BY <1>11, <3>1, <3>2
        <3>6. /\ ring.queue[1] <= HandedOver(p)
              /\ \A j \in 1..(n - 1) : ring.queue[1] < d_ring'[p].queue[j]
            <4>1. 1 \in 1..n /\ \A j \in 1..(n - 1) : 1 < j + 1
                BY <1>3
            <4>2. QED BY <4>1, <1>11, <3>1, <3>2
        <3>7. \A i \in 1..Len(written'[p[1]]) : written'[p[1]][i][1] = p[2] =>
                  /\ written'[p[1]][i][2] <= HandedOver(p)
                  /\ \A j \in 1..(n - 1) : written'[p[1]][i][2] < d_ring'[p].queue[j]
            <4> SUFFICES ASSUME NEW i \in 1..(Len(log) + 1), written'[p[1]][i][1] = p[2]
                         PROVE  /\ written'[p[1]][i][2] <= HandedOver(p)
                                /\ \A j \in 1..(n - 1) :
                                      written'[p[1]][i][2] < d_ring'[p].queue[j]
                BY <1>6, <1>7
            <4>1. CASE i \in 1..Len(log)
                <5>1. written'[p[1]][i] = log[i]
                    BY <4>1, <1>6, <1>7
                <5>2. QED BY <4>1, <5>1, <3>5
            <4>2. CASE i = Len(log) + 1
                <5>1. written'[p[1]][i][2] = ring.queue[1]
                    BY <4>2, <1>6, <1>7, <1>13
                <5>2. QED BY <5>1, <3>6
            <4>3. QED BY <4>1, <4>2, <1>12
        <3>8. Len(d_ring'[p].queue) = n - 1
            BY <1>3, <1>4
        <3> HIDE DEF n
        <3>9. QED BY <2>1, <3>3, <3>4, <3>7, <3>8
    <2>2. CASE q # p
        <3>1. /\ \A i \in 1..Len(d_ring'[q].queue) : d_ring'[q].queue[i] <= HandedOver(q)
              /\ \A i, j \in 1..Len(d_ring'[q].queue) :
                    i < j => d_ring'[q].queue[i] < d_ring'[q].queue[j]
              /\ \A i \in 1..Len(written[q[1]]) : written[q[1]][i][1] = q[2] =>
                    /\ written[q[1]][i][2] <= HandedOver(q)
                    /\ \A j \in 1..Len(d_ring'[q].queue) :
                          written[q[1]][i][2] < d_ring'[q].queue[j]
            BY <2>2, <1>1, <1>2 DEF RecordsInOrder
        <3>2. CASE q[1] # p[1]
            <4>1. written'[q[1]] = written[q[1]]
                BY <3>2, <1>6, ProducerPairs
            <4>2. QED BY <3>1, <4>1
        <3>3. CASE q[1] = p[1]
            <4>1. q[2] # entry[1]
                BY <2>2, <3>3, <1>13, ProducerPairs
            <4>2. written[q[1]] = log /\ written'[q[1]] = Append(log, entry)
                BY <3>3, <1>6 DEF log
            <4>3. \A i \in 1..Len(written'[q[1]]) : written'[q[1]][i][1] = q[2] =>
                      i \in 1..Len(written[q[1]]) /\ written'[q[1]][i] = written[q[1]][i]
                BY <4>1, <4>2, <1>7, <1>12
            <4>4. QED BY <3>1, <4>3
        <3>4. QED BY <3>2, <3>3
    <2>3. QED BY <2>1, <2>2
<1>15. HandleOrder'
    <2> SUFFICES ASSUME NEW t \in Threads \union {"shared"},
                        NEW i \in DOMAIN written'[t], NEW j \in DOMAIN written'[t],
                        i < j, written'[t][i][1] = written'[t][j][1]
                 PROVE  written'[t][i][2] < written'[t][j][2]
        <3>1. DOMAIN written' = Threads \union {"shared"}
            BY <1>1 DEF RingTypes
        <3>2. QED BY <3>1 DEF HandleOrder
    <2>1. \A k, l \in DOMAIN written[t] :
              k < l /\ written[t][k][1] = written[t][l][1] => written[t][k][2] < written[t][l][2]
        BY <1>1 DEF HandleOrder, RingTypes
    <2>2. CASE t # p[1]
        BY <2>1, <2>2, <1>6
    <2>3. CASE t = p[1]
        <3>1. /\ DOMAIN written'[t] = 1..(Len(log) + 1) /\ DOMAIN log = 1..Len(log)
              /\ written[t] = log /\ written'[t] = Append(log, entry)
            BY <2>3, <1>5, <1>6, <1>7 DEF log
        <3>2. i \in 1..Len(log)
            BY <3>1, <1>5
        <3>3. CASE j \in 1..Len(log)
            <4>1. written'[t][i] = written[t][i] /\ written'[t][j] = written[t][j]
                BY <3>1, <3>2, <3>3, <1>7
            <4>2. i \in DOMAIN written[t] /\ j \in DOMAIN written[t]
                BY <3>1, <3>2, <3>3
            <4>3. QED BY <2>1, <4>1, <4>2
        <3>4. CASE j = Len(log) + 1
            <4>1. 1 \in 1..n
                BY <1>3
            <4>2. written'[t][i] = log[i] /\ written'[t][j] = entry
                BY <3>1, <3>2, <3>4, <1>7
            <4>3. log[i][1] = p[2]
                BY <4>2, <1>13
            <4>4. QED BY <3>2, <4>1, <4>2, <4>3, <1>11, <1>13
        <3>5. QED BY <3>1, <3>3, <3>4, <1>12
    <2>4. QED BY <2>2, <2>3
<1>16. \A q \in Producers : FifoStep(q)
    BY <1>1, <1>2, PopIsFifo, UnchangedIsFifo
<1>17. QED BY <1>8, <1>9, <1>14, <1>15, <1>16 DEF RingInvariant

-----------------------------------------------------------------------------
(* Every step.                                                             *)

LEMMA InitIsInOrder == Init => RingInvariant /\ \A p \in Producers : Fifo(p)!Init
<1> SUFFICES ASSUME Init PROVE RingInvariant /\ \A p \in Producers : Fifo(p)!Init
    OBVIOUS
<1>1. /\ d_ring = [p \in Producers |-> EmptyRing] /\ thread_at = [t \in Loggers |-> "outside"]
      /\ logged = [p \in Producers |-> 0]
      /\ written = [t \in Threads \union {"shared"} |-> <<>>]
    BY DEF Init
<1>2. \A p \in Producers : d_ring[p] = EmptyRing
    BY <1>1
<1>3. EmptyRing \in RingStates
    <2>1. <<>> \in Seq(Nat) /\ 0 \in Nat /\ FALSE \in BOOLEAN
        OBVIOUS
    <2>2. QED BY <2>1 DEF EmptyRing, RingStates
<1>4. /\ EmptyRing.queue = <<>> /\ EmptyRing.known = 0 /\ EmptyRing.unseen = 0
      /\ EmptyRing.offered = <<>> /\ EmptyRing.push_answer = FALSE
      /\ EmptyRing.pop_answer = <<>>
    BY DEF EmptyRing
<1>5. RingTypes
    <2>1. <<>> \in Seq(Nat \X Nat) /\ Len(<<>>) = 0
        OBVIOUS
    <2>2. QED BY <1>1, <1>2, <1>3, <1>4, <2>1 DEF RingTypes
<1>6. OnePusher
    BY <1>1, <1>2, <1>4 DEF OnePusher, Loggers
<1>7. RecordsInOrder
    <2>1. \A p \in Producers : d_ring[p].queue = <<>> /\ written[p[1]] = <<>>
        BY <1>1, <1>2, <1>4, ProducerPairs
    <2>2. 1..Len(<<>>) = {}
        OBVIOUS
    <2>3. QED BY <2>1, <2>2 DEF RecordsInOrder
<1>8. HandleOrder
    BY <1>1 DEF HandleOrder
<1>9. \A p \in Producers : Fifo(p)!Init
    <2>1. 0..Len(<<>>) = {0}
        OBVIOUS
    <2>2. QED BY <1>2, <1>4, <2>1 DEF Fifo!Init
<1>10. QED BY <1>5, <1>6, <1>7, <1>8, <1>9 DEF RingInvariant

LEMMA ThreadKeepsOrder ==
    ASSUME OwnerInvariant, RingInvariant, NEW t \in Loggers,
           \/ t \in Threads /\ (RegisterBegin(t) \/ Close(t) \/ Log(t))
           \/ t \in ForeignThreads /\ LogLocked(t)
           \/ ThreadStep(t)
    PROVE  RingInvariant' /\ \A p \in Producers : FifoStep(p)
<1>1. RingTypes /\ OnePusher /\ thread_at \in [Loggers -> ThreadStates]
    BY DEF OwnerInvariant, RingInvariant, OwnerTypes
<1>2. Threads \intersect ForeignThreads = {} /\ ForeignThreads \subseteq Loggers
    BY LoggerAssumption DEF Loggers
<1>3. CASE t \in Threads /\ RegisterBegin(t)
    <2>1. /\ thread_at[t] = "outside" /\ thread_at' = [thread_at EXCEPT ![t] = "scanning"]
          /\ registrations' = [registrations EXCEPT ![t] = @ + 1]
          /\ UNCHANGED <<d_ring, logged, written, d_shared_lock>>
        BY <1>3 DEF RegisterBegin, logger_vars
    <2>2. \A u \in Threads \ {t} : registrations'[u] = registrations[u]
        BY <2>1 DEF OwnerInvariant, OwnerTypes
    <2>3. QED BY <1>1, <1>2, <1>3, <2>1, <2>2, RingsUnchangedKeeps DEF OnePusher, Loggers
<1>4. CASE t \in Threads /\ (Close(t) \/ TrySlot(t) \/ RegisterFails(t) \/ RefusalReturns(t))
    <2>1. /\ thread_at[t] # "pushing" /\ thread_at'[t] # "pushing"
          /\ \A u \in Loggers \ {t} : thread_at'[u] = thread_at[u]
        <3>1. /\ thread_at[t] # "pushing"
              /\ \/ \E place \in {"outside", "inside", "refused"} :
                      thread_at' = [thread_at EXCEPT ![t] = place]
                 \/ thread_at' = thread_at
            BY <1>4 DEF Close, TrySlot, RegisterFails, RefusalReturns
        <3>2. QED BY <1>1, <3>1
    <2>2. UNCHANGED <<d_ring, logged, written, d_shared_lock, registrations>>
        BY <1>4 DEF Close, TrySlot, RegisterFails, RefusalReturns, logger_vars
    <2>3. QED BY <1>1, <1>2, <1>4, <2>1, <2>2, RingsUnchangedKeeps DEF OnePusher
<1>5. CASE t \in Threads /\ Log(t)
    <2>1. /\ thread_at[t] = "inside" /\ Offer(t)
          /\ UNCHANGED <<registrations, written, d_shared_lock>>
        BY <1>5 DEF Log, logger_vars
    <2>2. PICK p \in Producers : p = producer_of(t)
        BY <2>1, CallersRing DEF HandleStates
    <2>3. d_ring[p].offered = <<>>
        BY <1>1, <2>1, <2>2, CallersRing DEF OnePusher, HandleStates
    <2>4. \A u \in ForeignThreads : thread_at'[u] # "outside" => d_shared_lock' = u
        BY <1>1, <1>2, <1>5, <2>1 DEF OnePusher, Offer
    <2>5. QED BY <2>1, <2>2, <2>3, <2>4, OfferKeeps
<1>6. CASE t \in ForeignThreads /\ LogLocked(t)
    <2>1. /\ d_shared_lock = Null /\ d_shared_lock' = t /\ Offer(t)
          /\ UNCHANGED <<registrations, written>>
        BY <1>6 DEF LogLocked, logger_vars
    <2>2. \A u \in ForeignThreads : thread_at[u] = "outside"
        BY <1>1, <2>1, NullAssumption DEF OnePusher
    <2>3. PICK p \in Producers : p = producer_of(t) /\ p = Shared
        BY <1>6, ProducerTypes DEF producer_of
    <2>4. d_ring[p].offered = <<>>
        <3>1. SUFFICES ASSUME d_ring[p].offered # <<>> PROVE FALSE
            OBVIOUS
        <3>2. PICK u \in Loggers : thread_at[u] = "pushing" /\ producer_of(u) = Shared
            BY <1>1, <2>3, <3>1 DEF OnePusher
        <3>3. u \in Threads
            BY <2>2, <3>2 DEF Loggers
        <3>4. producer_of(u) = <<u, registrations[u]>> /\ registrations[u] \in 1..MaxRegistrations
            BY <3>2, <3>3, ProducerOf DEF OwnerInvariant, ThreadsOwn
        <3>5. QED BY <3>2, <3>3, <3>4, ProducerTypes
    <2>5. \A u \in ForeignThreads : thread_at'[u] # "outside" => d_shared_lock' = u
        BY <1>1, <1>2, <2>1, <2>2 DEF Offer
    <2>6. QED BY <2>1, <2>3, <2>4, <2>5, OfferKeeps
<1>7. CASE LearnPops(t) \/ PushAccepted(t) \/ PushRefused(t)
    <2>1. thread_at[t] \in HandleStates
        BY <1>7 DEF LearnPops, PushAccepted, PushRefused, HandleStates
    <2>2. PICK p \in Producers : p = producer_of(t)
        BY <2>1, CallersRing
    <2>3. QED BY <1>7, <2>2, LearnPopsKeeps, AcceptKeeps, RefuseKeeps
<1>8. CASE LoadDropped(t)
    <2>1. /\ thread_at[t] = "dropping" /\ thread_at' = [thread_at EXCEPT ![t] = "counting"]
          /\ UNCHANGED <<d_ring, logged, written, d_shared_lock, registrations>>
        BY <1>8 DEF LoadDropped, logger_vars
    <2>2. thread_at'[t] = "counting" /\ \A u \in Loggers \ {t} : thread_at'[u] = thread_at[u]
        BY <1>1, <2>1
    <2>3. QED BY <1>1, <1>2, <2>1, <2>2, RingsUnchangedKeeps DEF OnePusher
<1>9. CASE StoreDropped(t)
    <2>1. /\ thread_at[t] = "counting" /\ LogReturns(t)
          /\ UNCHANGED <<d_ring, logged, written, registrations>>
        BY <1>9 DEF StoreDropped, logger_vars
    <2>2. /\ thread_at'[t] = IF t \in Threads THEN "inside" ELSE "outside"
          /\ \A u \in Loggers \ {t} : thread_at'[u] = thread_at[u]
        BY <1>1, <2>1 DEF LogReturns
    <2>3. \A u \in ForeignThreads : thread_at'[u] # "outside" => d_shared_lock' = u
        <3> SUFFICES ASSUME NEW u \in ForeignThreads, thread_at'[u] # "outside"
                     PROVE  d_shared_lock' = u
            OBVIOUS
        <3>1. u # t /\ thread_at[u] # "outside" /\ d_shared_lock = u
            BY <1>1, <1>2, <2>2 DEF OnePusher
        <3>2. t \in Threads
            BY <1>1, <2>1, <3>1 DEF OnePusher, Loggers
        <3>3. QED BY <2>1, <3>1, <3>2 DEF LogReturns
    <2>4. QED BY <2>1, <2>2, <2>3, RingsUnchangedKeeps
<1>10. QED BY <1>3, <1>4, <1>5, <1>6, <1>7, <1>8, <1>9 DEF ThreadStep

LEMMA DrainedRing ==
    ASSUME OwnerInvariant, logger_at \in DrainStates
    PROVE  producer \in Producers
<1>1. slot \in Slots => producer \in Producers
    BY DEF OwnerInvariant, OwnerTypes, DrainerHolds, Registered
<1>2. slot \notin Slots => producer \in Producers
    BY ProducerTypes DEF OwnerInvariant, DrainerHolds
<1>3. QED BY <1>1, <1>2

LEMMA LoggerKeepsOrder ==
    ASSUME OwnerInvariant, RingInvariant,
           LoggerStep \/ LearnPushes \/ RequestStop \/ Join \/ UNCHANGED vars
    PROVE  RingInvariant' /\ \A p \in Producers : FifoStep(p)
<1>1. RingTypes /\ OnePusher
    BY DEF RingInvariant
<1>2. CASE CheckStop \/ LoadSlot \/ TakeDropped \/ FreeProducer \/ ClearSlot \/ Rest
    <2>1. UNCHANGED <<d_ring, logged, written, thread_at, registrations, d_shared_lock>>
        BY <1>2 DEF CheckStop, LoadSlot, TakeDropped, FreeProducer, ClearSlot, Rest,
                    DrainUnchanged, thread_vars
    <2>2. QED BY <1>1, <2>1, RingsUnchangedKeeps DEF OnePusher
<1>3. CASE RequestStop \/ UNCHANGED vars
    <2>1. UNCHANGED <<d_ring, logged, written, thread_at, registrations, d_shared_lock>>
        BY <1>3 DEF RequestStop, vars, thread_vars, logger_vars
    <2>2. QED BY <1>1, <2>1, RingsUnchangedKeeps DEF OnePusher
<1>4. CASE ReadPhase
    <2>1. producer \in Producers
        BY <1>4, DrainedRing DEF ReadPhase, DrainStates
    <2>2. UNCHANGED <<thread_at, registrations, d_shared_lock, logged, written>>
        BY <1>4 DEF ReadPhase, DrainUnchanged, thread_vars
    <2> DEFINE ring == d_ring[producer]
               seen == Len(ring.queue)
    <2>3. d_ring' = d_ring \/ d_ring' = [d_ring EXCEPT ![producer] = Synchronized(ring)]
        BY <1>4 DEF ReadPhase
    <2>4. seen \in ring.known..Len(ring.queue) /\ seen \in Nat
        BY <1>1, <2>1, RingFields
    <2>5. Synchronized(ring) = [ring EXCEPT !.known = seen] /\ Synchronized(ring) \in RingStates
        BY <1>1, <2>1, <2>4 DEF Synchronized, RingStates, RingTypes
    <2>6. d_ring' \in [Producers -> RingStates]
        BY <1>1, <2>3, <2>5 DEF RingTypes
    <2>7. \A p \in Producers :
              \/ d_ring'[p] = d_ring[p]
              \/ \E k \in d_ring[p].known..Len(d_ring[p].queue) :
                    d_ring'[p] = [d_ring[p] EXCEPT !.known = k]
        <3> TAKE p \in Producers
        <3>1. CASE p # producer
            BY <3>1, <1>1, <2>3 DEF RingTypes
        <3>2. CASE p = producer
            BY <3>2, <1>1, <2>3, <2>4, <2>5 DEF RingTypes
        <3>3. QED BY <3>1, <3>2
    <2>8. QED BY <2>2, <2>6, <2>7, LearnPushesKeeps
<1>5. CASE LearnPushes
    <2>1. producer \in Producers
        BY <1>5, DrainedRing DEF LearnPushes, DrainStates
    <2>2. UNCHANGED <<thread_at, registrations, d_shared_lock, logged, written>>
        BY <1>5 DEF LearnPushes, DrainUnchanged, thread_vars
    <2>3. PICK seen \in 1..Len(d_ring[producer].queue) :
              d_ring' = [d_ring EXCEPT ![producer].known = seen]
        BY <1>5 DEF LearnPushes
    <2>4. seen \in d_ring[producer].known..Len(d_ring[producer].queue) /\ seen \in Nat
        BY <1>1, <1>5, <2>1, RingFields DEF LearnPushes
    <2>5. [d_ring[producer] EXCEPT !.known = seen] \in RingStates
        BY <1>1, <2>1, <2>4 DEF RingStates, RingTypes
    <2>6. d_ring' \in [Producers -> RingStates]
        BY <1>1, <2>3, <2>5 DEF RingTypes
    <2>7. \A p \in Producers :
              \/ d_ring'[p] = d_ring[p]
              \/ \E k \in d_ring[p].known..Len(d_ring[p].queue) :
                    d_ring'[p] = [d_ring[p] EXCEPT !.known = k]
        <3> TAKE p \in Producers
        <3>1. CASE p # producer
            BY <3>1, <1>1, <2>3 DEF RingTypes
        <3>2. CASE p = producer
            BY <3>2, <1>1, <2>3, <2>4 DEF RingTypes
        <3>3. QED BY <3>1, <3>2
    <2>8. QED BY <2>2, <2>6, <2>7, LearnPushesKeeps
<1>6. CASE Join
    <2>1. UNCHANGED <<thread_at, registrations, d_shared_lock, logged, written>>
        BY <1>6 DEF Join, thread_vars
    <2>2. d_ring' = [p \in Producers |-> Synchronized(d_ring[p])]
        BY <1>6 DEF Join
    <2>3. \A p \in Producers :
              /\ Len(d_ring[p].queue) \in d_ring[p].known..Len(d_ring[p].queue)
              /\ Len(d_ring[p].queue) \in Nat /\ d_ring[p] \in RingStates
        BY <1>1, RingFields
    <2>4. \A p \in Producers :
              /\ d_ring'[p] = [d_ring[p] EXCEPT !.known = Len(d_ring[p].queue)]
              /\ d_ring'[p] \in RingStates
        BY <2>2, <2>3 DEF Synchronized, RingStates
    <2>5. d_ring' \in [Producers -> RingStates]
        BY <2>2, <2>4
    <2>6. QED BY <2>1, <2>3, <2>4, <2>5, LearnPushesKeeps
<1>7. CASE PopRecord
    <2>1. producer \in Producers
        BY <1>7, DrainedRing DEF PopRecord, DrainStates
    <2>2. PICK p \in Producers : p = producer
        BY <2>1
    <2>3. /\ UNCHANGED <<thread_at, registrations, d_shared_lock, logged>>
          /\ d_ring[p].known > 0
          /\ d_ring' = [d_ring EXCEPT ![p] = Popped(@)]
          /\ written' = [written EXCEPT ![p[1]] = Append(@, <<p[2], Head(d_ring[p].queue)>>)]
        BY <1>7, <2>2 DEF PopRecord, DrainUnchanged, thread_vars
    <2>4. QED BY <2>3, PopKeeps
<1>8. CASE PopsEnd
    <2>1. producer \in Producers
        BY <1>8, DrainedRing DEF PopsEnd, DrainStates
    <2>2. PICK p \in Producers : p = producer
        BY <2>1
    <2>3. UNCHANGED <<thread_at, registrations, d_shared_lock, logged, written>>
        BY <1>8 DEF PopsEnd, DrainUnchanged, thread_vars
    <2>4. CASE UNCHANGED d_ring
        BY <1>1, <2>3, <2>4, RingsUnchangedKeeps DEF OnePusher
    <2>5. CASE d_ring[p].known = 0 /\ d_ring' = [d_ring EXCEPT ![p].pop_answer = <<>>]
        BY <2>3, <2>5, PopNothingKeeps
    <2>6. QED BY <1>8, <2>2, <2>4, <2>5 DEF PopsEnd
<1>9. QED BY <1>2, <1>3, <1>4, <1>5, <1>6, <1>7, <1>8 DEF LoggerStep

LEMMA NextKeepsOrder ==
    ASSUME OwnerInvariant, RingInvariant, [Next]_vars
    PROVE  RingInvariant' /\ \A p \in Producers : FifoStep(p)
<1>1. CASE \E t \in Threads : RegisterBegin(t) \/ Close(t) \/ Log(t)
    BY <1>1, ThreadKeepsOrder, ProducerOf
<1>2. CASE \E t \in ForeignThreads : LogLocked(t)
    BY <1>2, ThreadKeepsOrder DEF Loggers
<1>3. CASE \E t \in Loggers : ThreadStep(t)
    BY <1>3, ThreadKeepsOrder
<1>4. CASE LoggerStep \/ LearnPushes \/ RequestStop \/ Join \/ Terminated \/ UNCHANGED vars
    BY <1>4, LoggerKeepsOrder DEF Terminated
<1>5. QED BY <1>1, <1>2, <1>3, <1>4 DEF Next

-----------------------------------------------------------------------------
(* The theorems.                                                           *)

\* What the threads do with their rings, foreign threads that share one included, is
\* what SpscFifo allows one producer and one consumer (:59-60, :91-96).
THEOREM RingsAreFifos == Spec => RingsAreUsedAsPromised
<1>1. OwnerInvariant /\ RingInvariant /\ [Next]_vars
          => RingInvariant' /\ [\A p \in Producers : [Fifo(p)!Next]_(Fifo(p)!fifo_vars)]_vars
    BY NextKeepsOrder DEF FifoStep
<1>2. QED BY <1>1, InitIsInOrder, OwnersAgree, PTL DEF Spec, RingsAreUsedAsPromised

\* At every moment one thread at most pushes to a ring, and the ring's records follow
\* those of it in the log (:40, :91-96).
THEOREM RingsAreInOrder == Spec => []RingInvariant
<1>1. OwnerInvariant /\ RingInvariant /\ [Next]_vars => RingInvariant'
    BY NextKeepsOrder
<1>2. QED BY <1>1, InitIsInOrder, OwnersAgree, PTL DEF Spec

\* The records logged through one handle come out in order, however the threads
\* interleave and whatever is dropped (:40).
THEOREM RecordsComeOutInOrder == Spec => []HandleOrder
<1>1. RingInvariant => HandleOrder
    BY DEF RingInvariant
<1>2. QED BY <1>1, RingsAreInOrder, PTL
=============================================================================
