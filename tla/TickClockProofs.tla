-------------------------- MODULE TickClockProofs ---------------------------
(***************************************************************************)
(* Theorems about TickClock, for every rate and every width of the words.  *)
(***************************************************************************)
EXTENDS TickClock, TLAPS

-----------------------------------------------------------------------------
(* Arithmetic.                                                             *)

LEMMA Divided ==
    ASSUME NEW a \in Nat, NEW d \in Nat, 1 <= d
    PROVE  /\ a \div d \in Nat /\ a % d \in 0..(d - 1)
           /\ a = d * (a \div d) + (a % d)
OBVIOUS

LEMMA ProductType ==
    ASSUME NEW a \in Nat, NEW b \in Nat
    PROVE  a * b \in Nat
OBVIOUS

LEMMA ProductGrows ==
    ASSUME NEW a \in Nat, NEW b \in Nat, NEW n \in Nat, a <= b
    PROVE  a * n <= b * n
<1>1. (b - a) * n \in Nat
    BY ProductType
<1>2. (b - a) * n = b * n - a * n
    OBVIOUS
<1>3. QED BY <1>1, <1>2, ProductType

LEMMA NoSmallMultiple ==
    ASSUME NEW d \in Nat, 1 <= d, NEW k \in Int, -d < d * k, d * k < d
    PROVE  k = 0
<1>1. CASE k >= 1
    <2>1. d * k >= d
        BY <1>1, ProductGrows
    <2>2. QED BY <2>1
<1>2. CASE k <= -1
    <2>1. d * k = -(d * (-k))
        OBVIOUS
    <2>2. d * (-k) >= d
        BY <1>2, ProductGrows
    <2>3. QED BY <2>1, <2>2
<1>3. QED BY <1>1, <1>2

\* A quotient is known by its remainder.
LEMMA Quotient ==
    ASSUME NEW a \in Nat, NEW d \in Nat, 1 <= d, NEW q \in Nat, NEW r \in 0..(d - 1),
           a = d * q + r
    PROVE  a \div d = q
<1> DEFINE p == a \div d
           s == a % d
<1>1. p \in Nat /\ s \in 0..(d - 1) /\ a = d * p + s
    BY Divided
<1> HIDE DEF p, s
<1>2. d * (p - q) = d * p - d * q
    BY <1>1
<1>3. -d < d * (p - q) /\ d * (p - q) < d
    BY <1>1, <1>2, ProductType
<1>4. p = q
    BY <1>1, <1>3, NoSmallMultiple
<1>5. QED BY <1>4 DEF p

LEMMA QuotientGrows ==
    ASSUME NEW a \in Nat, NEW b \in Nat, NEW d \in Nat, 1 <= d, a <= b
    PROVE  a \div d <= b \div d
<1> DEFINE p == a \div d
           q == b \div d
<1>1. p \in Nat /\ q \in Nat /\ d * p <= a /\ b < d * q + d
    BY Divided
<1> HIDE DEF p, q
<1>2. SUFFICES ASSUME q + 1 <= p PROVE FALSE
    BY <1>1 DEF p, q
<1>3. (q + 1) * d <= p * d
    BY <1>1, <1>2, ProductGrows
<1>4. (q + 1) * d = d * q + d /\ p * d = d * p
    BY <1>1
<1>5. QED BY <1>1, <1>3, <1>4, ProductType

LEMMA Remainder ==
    ASSUME NEW a \in Nat, NEW m \in Nat, 1 <= m
    PROVE  /\ a % m \in 0..(m - 1) /\ a % m <= a
           /\ a < m => a % m = a
OBVIOUS

-----------------------------------------------------------------------------
(* The conversion.                                                         *)

\* Scaling the quotient and the remainder apart scales the whole.
LEMMA Split ==
    ASSUME NEW e \in Nat, NEW n \in Nat, NEW d \in Nat, 1 <= d
    PROVE  (e * n) \div d = (e \div d) * n + ((e % d) * n) \div d
<1> DEFINE q == e \div d
           r == e % d
           s == (r * n) \div d
           t == (r * n) % d
<1>1. q \in Nat /\ r \in Nat /\ e = d * q + r
    BY Divided
<1>2. r * n \in Nat
    BY <1>1, ProductType
<1>3. s \in Nat /\ t \in 0..(d - 1) /\ r * n = d * s + t
    BY <1>2, Divided
<1> HIDE DEF q, r, s, t
<1>4. q * n \in Nat /\ e * n \in Nat
    BY <1>1, ProductType
<1>5. e * n = d * (q * n) + r * n
    BY <1>1
<1> DEFINE u == q * n
<1>6. d * (u + s) = d * u + d * s
    BY <1>3, <1>4
<1> HIDE DEF u
<1>7. e * n = d * (u + s) + t
    BY <1>3, <1>5, <1>6, <1>4, ProductType DEF u
<1>8. u + s \in Nat
    BY <1>3, <1>4 DEF u
<1>9. (e * n) \div d = u + s
    BY <1>3, <1>4, <1>7, <1>8, Quotient
<1>10. QED BY <1>9 DEF q, r, s, u

\* The remainder, scaled, fits in a word: this is what the split is for.
LEMMA RestFits ==
    ASSUME NEW n \in 0..(TermSpace - 1), NEW d \in 1..(TermSpace - 1), NEW r \in 0..(d - 1)
    PROVE  r * n \in Nat /\ r * n < WordSpace
<1>1. r * n \in Nat /\ n * r = r * n
    BY TickClockAssumption, ProductType
<1>2. n * r <= TermSpace * r
    BY TickClockAssumption, ProductGrows
<1>3. r * TermSpace <= (TermSpace - 1) * TermSpace
    BY TickClockAssumption, ProductGrows
<1>4. TermSpace * r = r * TermSpace
      /\ (TermSpace - 1) * TermSpace = TermSpace * TermSpace - TermSpace
    BY TickClockAssumption
<1>5. (TermSpace - 1) * TermSpace < WordSpace
    BY <1>4, TickClockAssumption, ProductType
<1>6. QED BY <1>1, <1>2, <1>3, <1>4, <1>5, TickClockAssumption, ProductType

\* The code computes the exact quotient when it fits in a word, and never more.
THEOREM ScalingIsExact ==
    ASSUME NEW e \in Nat, NEW n \in 0..(TermSpace - 1), NEW d \in 1..(TermSpace - 1)
    PROVE  /\ SplitScaled(e, n, d) \in 0..(WordSpace - 1)
           /\ SplitScaled(e, n, d) <= (e * n) \div d
           /\ (e * n) \div d < WordSpace => SplitScaled(e, n, d) = (e * n) \div d
<1> DEFINE W == WordSpace
           q == e \div d
           r == e % d
           u == q * n
           v == r * n
           s == v \div d
           x == (e * n) \div d
<1>1. W \in Nat /\ 1 <= W /\ n \in Nat /\ d \in Nat /\ 1 <= d
    BY TickClockAssumption
<1>2. q \in Nat /\ r \in 0..(d - 1)
    BY <1>1, Divided
<1>3. v \in Nat /\ v < W
    BY <1>2, RestFits
<1>4. u \in Nat /\ s \in Nat
    BY <1>1, <1>2, <1>3, ProductType, Divided
<1>5. x = u + s
    BY <1>1, Split
<1>6. v % W = v
    BY <1>1, <1>3, Remainder
<1>7. SplitScaled(e, n, d) = ((u % W) + s) % W
    BY <1>6 DEF SplitScaled
<1> HIDE DEF W, q, r, u, v, s, x
<1>8. u % W \in 0..(W - 1) /\ u % W <= u /\ (u < W => u % W = u)
    BY <1>1, <1>4, Remainder
<1> DEFINE y == (u % W) + s
<1>9. y \in Nat /\ y <= u + s /\ (u < W => y = u + s)
    BY <1>1, <1>4, <1>8
<1> HIDE DEF y
<1>10. y % W \in 0..(W - 1) /\ y % W <= y /\ (y < W => y % W = y)
    BY <1>1, <1>9, Remainder
<1>11. SplitScaled(e, n, d) = y % W
    BY <1>7 DEF y
<1>12. /\ y % W <= x
       /\ x < W => y % W = x
    BY <1>1, <1>4, <1>5, <1>9, <1>10
<1>13. QED BY <1>10, <1>11, <1>12 DEF W, x

-----------------------------------------------------------------------------
(* The records.                                                            *)

\* No record was made before the start, which is what keeps a time from being
\* shown late: a tick that is before the start lost its high bits.
TimeInvariant ==
    /\ TypeOK
    /\ d_start <= now
    /\ \A t \in Threads : \A i \in 1..Len(pending[t]) : d_start <= pending[t][i]
    /\ \A t \in Threads : d_start <= shown[t].tick
    /\ ExactTime
    /\ NeverLate

LEMMA ConstantTypes ==
    /\ LastTick \in Nat /\ LastTick < WordSpace
    /\ WordSpace \in Nat /\ 1 <= WordSpace
    /\ TickSpace \in Nat /\ 1 <= TickSpace
BY TickClockAssumption

LEMMA RateTypes ==
    ASSUME <<d_num, d_denom>> \in Rates
    PROVE  d_num \in 0..(TermSpace - 1) /\ d_denom \in 1..(TermSpace - 1)
BY TickClockAssumption

LEMMA ElapsedType ==
    ASSUME NEW n \in Nat, NEW d \in Nat, 1 <= d, NEW e \in Nat
    PROVE  e * n \in Nat /\ (e * n) \div d \in Nat
BY ProductType, Divided

\* The time of one tick, shown by the code, against the exact one.
LEMMA OneTime ==
    ASSUME TypeOK, NEW tick \in 0..LastTick, d_start <= tick
    PROVE  LET ns == ns_elapsed_since_start(ticks_of(tick)) IN
           /\ ns \in 0..(WordSpace - 1)
           /\ ns <= Elapsed(tick)
           /\ tick < TickSpace /\ Elapsed(tick) < WordSpace => ns = Elapsed(tick)
<1> DEFINE cut == ticks_of(tick)
           ns == ns_elapsed_since_start(cut)
           e == tick - d_start
<1>1. d_start \in Nat /\ e \in Nat /\ tick \in Nat
    BY ConstantTypes DEF TypeOK
<1>2. d_num \in 0..(TermSpace - 1) /\ d_denom \in 1..(TermSpace - 1)
    BY RateTypes DEF TypeOK
<1>3. d_num \in Nat /\ d_denom \in Nat /\ 1 <= d_denom
    BY <1>2, TickClockAssumption
<1>4. cut \in Nat /\ cut <= tick /\ (tick < TickSpace => cut = tick)
    BY <1>1, ConstantTypes, Remainder DEF ticks_of
<1>5. Elapsed(tick) = (e * d_num) \div d_denom /\ Elapsed(tick) \in Nat
    BY <1>1, <1>3, ElapsedType DEF Elapsed
<1> HIDE DEF cut
<1>6. CASE cut <= d_start
    <2>1. ns = 0
        BY <1>6 DEF ns_elapsed_since_start
    <2>2. ASSUME tick < TickSpace PROVE Elapsed(tick) = 0
        <3>1. e = 0
            BY <1>1, <1>4, <1>6, <2>2
        <3>2. (0 * d_num) \div d_denom = 0
            BY <1>3, Quotient
        <3>3. QED BY <1>5, <3>1, <3>2
    <2>3. QED BY <1>5, <2>1, <2>2, ConstantTypes DEF cut
<1>7. CASE d_start < cut
    <2> DEFINE f == cut - d_start
               x == (f * d_num) \div d_denom
    <2>1. f \in Nat /\ f <= e /\ (tick < TickSpace => f = e)
        BY <1>1, <1>4, <1>7
    <2>2. ns = SplitScaled(f, d_num, d_denom)
        BY <1>1, <1>4, <1>7 DEF ns_elapsed_since_start
    <2> HIDE DEF f
    <2>3. /\ ns \in 0..(WordSpace - 1)
          /\ ns <= x
          /\ x < WordSpace => ns = x
        BY <1>2, <2>1, <2>2, ScalingIsExact
    <2>4. f * d_num <= e * d_num /\ f * d_num \in Nat /\ e * d_num \in Nat
        BY <1>1, <1>3, <2>1, ProductGrows, ProductType
    <2>5. x \in Nat /\ x <= (e * d_num) \div d_denom
        BY <1>3, <2>4, QuotientGrows, Divided
    <2>6. tick < TickSpace => x = (e * d_num) \div d_denom
        BY <2>1
    <2> HIDE DEF x, ns
    <2>7. ns <= Elapsed(tick)
        BY <1>5, <2>3, <2>5
    <2>8. QED BY <1>5, <2>3, <2>6, <2>7 DEF cut, ns
<1>8. QED BY <1>1, <1>4, <1>6, <1>7

LEMMA TimeInit == Init => TimeInvariant
<1> SUFFICES ASSUME Init PROVE TimeInvariant
    OBVIOUS
<1>1. now \in 0..LastTick /\ d_start = now
    BY DEF Init
<1>2. <<d_num, d_denom>> \in Rates
    <2>1. PICK rate \in Rates : d_num = rate[1] /\ d_denom = rate[2]
        BY DEF Init
    <2>2. rate = <<rate[1], rate[2]>>
        BY TickClockAssumption
    <2>3. QED BY <2>1, <2>2
<1>3. /\ pending = [t \in Threads |-> <<>>]
      /\ shown = [t \in Threads |-> [tick |-> d_start, ns |-> 0]]
    BY DEF Init
<1>4. TypeOK
    BY <1>1, <1>2, <1>3, ConstantTypes DEF TypeOK
<1>5. Elapsed(d_start) = 0
    <2>1. d_num \in Nat /\ d_denom \in Nat /\ 1 <= d_denom
        BY <1>2, RateTypes, TickClockAssumption
    <2>2. (d_start - d_start) * d_num = 0
        BY <1>1, <2>1, ConstantTypes
    <2>3. 0 \div d_denom = 0
        BY <2>1, Quotient
    <2>4. QED BY <2>2, <2>3 DEF Elapsed
<1>6. ExactTime /\ NeverLate
    BY <1>3, <1>5 DEF ExactTime, NeverLate
<1>7. QED BY <1>1, <1>3, <1>4, <1>6, ConstantTypes DEF TimeInvariant

LEMMA AdvanceKeeps == TimeInvariant /\ Advance => TimeInvariant'
<1> SUFFICES ASSUME TimeInvariant, Advance PROVE TimeInvariant'
    OBVIOUS
<1>1. now' \in 0..LastTick /\ d_start <= now'
    BY ConstantTypes DEF TimeInvariant, TypeOK, Advance
<1>2. QED BY <1>1
    DEF TimeInvariant, TypeOK, Advance, ExactTime, NeverLate, Elapsed

LEMMA LogKeeps ==
    ASSUME NEW t \in Threads
    PROVE  TimeInvariant /\ Log(t) => TimeInvariant'
<1> SUFFICES ASSUME TimeInvariant, Log(t) PROVE TimeInvariant'
    OBVIOUS
<1>1. /\ pending[t] \in Seq(0..LastTick) /\ now \in 0..LastTick
      /\ pending' = [pending EXCEPT ![t] = Append(@, now)]
    BY DEF TimeInvariant, TypeOK, Log
<1>2. pending' \in [Threads -> Seq(0..LastTick)]
    BY <1>1 DEF TimeInvariant, TypeOK
<1>3. ASSUME NEW u \in Threads, NEW i \in 1..Len(pending'[u])
      PROVE  d_start <= pending'[u][i]
    <2>1. CASE u # t
        BY <1>1, <2>1 DEF TimeInvariant, TypeOK
    <2>2. CASE u = t
        <3>1. pending'[u] = Append(pending[t], now)
            BY <1>1, <2>2 DEF TimeInvariant, TypeOK
        <3>2. CASE i = Len(pending[t]) + 1
            BY <1>1, <3>1, <3>2 DEF TimeInvariant
        <3>3. CASE i # Len(pending[t]) + 1
            <4>1. i \in 1..Len(pending[t])
                BY <1>1, <3>1, <3>3
            <4>2. pending'[u][i] = pending[t][i]
                BY SMTT(30), <1>1, <3>1, <4>1
            <4>3. QED BY <4>1, <4>2 DEF TimeInvariant
        <3>4. QED BY <3>2, <3>3
    <2>3. QED BY <2>1, <2>2
<1>4. QED BY <1>2, <1>3
    DEF TimeInvariant, TypeOK, Log, ExactTime, NeverLate, Elapsed

LEMMA FirstOfSome ==
    ASSUME NEW S, NEW s \in Seq(S), s # <<>>
    PROVE  Head(s) \in S /\ Head(s) = s[1] /\ 1 \in 1..Len(s)
OBVIOUS

LEMMA ShowKeeps ==
    ASSUME NEW t \in Threads
    PROVE  TimeInvariant /\ Show(t) => TimeInvariant'
<1> SUFFICES ASSUME TimeInvariant, Show(t) PROVE TimeInvariant'
    OBVIOUS
<1> DEFINE tick == Head(pending[t])
           ns == ns_elapsed_since_start(ticks_of(tick))
<1>1. pending[t] \in Seq(0..LastTick) /\ pending[t] # <<>>
    BY DEF TimeInvariant, TypeOK, Show
<1>2. tick \in 0..LastTick /\ tick = pending[t][1] /\ 1 \in 1..Len(pending[t])
    BY <1>1, FirstOfSome
<1>3. d_start <= tick
    BY <1>2 DEF TimeInvariant
<1>4. /\ ns \in 0..(WordSpace - 1)
      /\ ns <= Elapsed(tick)
      /\ tick < TickSpace /\ Elapsed(tick) < WordSpace => ns = Elapsed(tick)
    BY <1>2, <1>3, OneTime DEF TimeInvariant
<1>5. /\ shown' = [shown EXCEPT ![t] = [tick |-> tick, ns |-> ns]]
      /\ pending' = [pending EXCEPT ![t] = Tail(@)]
      /\ UNCHANGED <<now, d_start, d_num, d_denom>>
    BY DEF Show
<1> HIDE DEF tick, ns
<1>6. TypeOK'
    BY <1>1, <1>2, <1>4, <1>5 DEF TimeInvariant, TypeOK
<1>7. ASSUME NEW u \in Threads
      PROVE  \A i \in 1..Len(pending'[u]) : d_start <= pending'[u][i]
    <2>1. CASE u # t
        BY <1>5, <2>1 DEF TimeInvariant, TypeOK
    <2>2. CASE u = t
        <3>1. pending'[u] = Tail(pending[t])
            BY <1>5, <2>2 DEF TimeInvariant, TypeOK
        <3>2. ASSUME NEW i \in 1..Len(Tail(pending[t]))
              PROVE  d_start <= Tail(pending[t])[i]
            <4>1. i + 1 \in 1..Len(pending[t]) /\ Tail(pending[t])[i] = pending[t][i + 1]
                BY <1>1
            <4>2. QED BY <4>1 DEF TimeInvariant
        <3>3. QED BY <3>1, <3>2
    <2>3. QED BY <2>1, <2>2
<1>8. ASSUME NEW u \in Threads
      PROVE  shown'[u] = IF u = t THEN [tick |-> tick, ns |-> ns] ELSE shown[u]
    BY <1>5 DEF TimeInvariant, TypeOK
<1>9. \A u \in Threads : d_start <= shown'[u].tick
    BY <1>3, <1>8 DEF TimeInvariant
<1>10. \A k : Elapsed(k)' = Elapsed(k)
    BY <1>5 DEF Elapsed
<1>11. ExactTime' /\ NeverLate'
    BY <1>4, <1>5, <1>8 DEF TimeInvariant, ExactTime, NeverLate, Elapsed
<1>12. QED BY <1>5, <1>6, <1>7, <1>9, <1>11 DEF TimeInvariant

LEMMA TimeStep == TimeInvariant /\ [Next]_vars => TimeInvariant'
<1> SUFFICES ASSUME TimeInvariant, [Next]_vars PROVE TimeInvariant'
    OBVIOUS
<1>1. CASE Advance
    BY <1>1, AdvanceKeeps
<1>2. ASSUME NEW t \in Threads, Log(t) PROVE TimeInvariant'
    BY <1>2, LogKeeps
<1>3. ASSUME NEW t \in Threads, Show(t) PROVE TimeInvariant'
    BY <1>3, ShowKeeps
<1>4. CASE UNCHANGED vars
    BY <1>4 DEF vars, TimeInvariant, TypeOK, ExactTime, NeverLate, Elapsed
<1>5. QED BY <1>1, <1>2, <1>3, <1>4 DEF Next

\* What the logger shows is the exact time, for every width of the words and
\* every rate, while ticks fit in a record: ns_elapsed_since_start
\* (core_clock.h:229-243) on the ticks of LogRecord.
THEOREM TimesAreExact == Spec => []ExactTime
<1>1. TimeInvariant => ExactTime
    BY DEF TimeInvariant
<1>2. QED BY <1>1, TimeInit, TimeStep, PTL DEF Spec

\* And never more than the exact time, even of a tick that lost high bits.
THEOREM TimesAreNeverLate == Spec => []NeverLate
<1>1. TimeInvariant => NeverLate
    BY DEF TimeInvariant
<1>2. QED BY <1>1, TimeInit, TimeStep, PTL DEF Spec

=============================================================================
