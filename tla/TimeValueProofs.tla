--------------------------- MODULE TimeValueProofs ---------------------------
(***************************************************************************)
(* The clock arithmetic is exact for every length of a second, every width *)
(* of a word, every start, duration and number of re-arms.                 *)
(***************************************************************************)
EXTENDS MCTimeValue, TLAPS

USE TimeValueAssumption, BoundsAssumption

\* What a quotient and a remainder are.
LEMMA DivMod ==
  ASSUME NEW a \in Nat, NEW m \in Nat \ {0}
  PROVE  a \div m \in Nat /\ a % m \in 0..(m - 1) /\ a = m * (a \div m) + (a % m)
<1>1. a \div m \in Nat
  OBVIOUS
<1>2. a % m \in 0..(m - 1)
  OBVIOUS
<1>3. a = m * (a \div m) + (a % m)
  BY Z3
<1> QED BY <1>1, <1>2, <1>3

\* A number below the modulus is its own remainder.
LEMMA SmallMod ==
  ASSUME NEW m \in Nat \ {0}, NEW r \in 0..(m - 1)
  PROVE  r % m = r
OBVIOUS

\* Moments that differ in their seconds differ by a second at least.
LEMMA WholeSeconds ==
  ASSUME NEW p \in Nat, NEW q \in Nat, p < q
  PROVE  MsPerSec * p + MsPerSec <= MsPerSec * q
<1>1. MsPerSec * (p + 1) <= MsPerSec * q
  OBVIOUS
<1>2. MsPerSec * (p + 1) = MsPerSec * p + MsPerSec
  OBVIOUS
<1>3. MsPerSec * p \in Nat /\ MsPerSec * q \in Nat /\ MsPerSec * (p + 1) \in Nat
  OBVIOUS
<1> QED BY <1>1, <1>2, <1>3

\* The seconds of a number of milliseconds do not exceed those of a larger one.
LEMMA SecondsGrow ==
  ASSUME NEW a \in Nat, NEW b \in Nat, a <= b
  PROVE  a \div MsPerSec <= b \div MsPerSec
<1>1. /\ a \div MsPerSec \in Nat /\ a % MsPerSec \in 0..(MsPerSec - 1)
      /\ a = MsPerSec * (a \div MsPerSec) + (a % MsPerSec)
  BY DivMod
<1>2. /\ b \div MsPerSec \in Nat /\ b % MsPerSec \in 0..(MsPerSec - 1)
      /\ b = MsPerSec * (b \div MsPerSec) + (b % MsPerSec)
  BY DivMod
<1> DEFINE p == a \div MsPerSec
           q == b \div MsPerSec
<1>3. ASSUME q < p PROVE FALSE
  <2>1. MsPerSec * q + MsPerSec <= MsPerSec * p
    BY <1>1, <1>2, <1>3, WholeSeconds
  <2>2. MsPerSec * q \in Nat /\ MsPerSec * p \in Nat
    BY <1>1, <1>2
  <2> HIDE DEF p, q
  <2> QED BY <1>1, <1>2, <2>1, <2>2 DEF p, q
<1> QED BY <1>1, <1>2, <1>3

\* The seconds of a smaller number fit if those of a larger one do.
LEMMA SecondsFit ==
  ASSUME NEW a \in Nat, NEW b \in Nat, a <= b, b \div MsPerSec < Word
  PROVE  a \div MsPerSec < Word
<1>1. \A p, q \in Nat : p <= q /\ q < Word => p < Word
  OBVIOUS
<1>2. a \div MsPerSec \in Nat /\ b \div MsPerSec \in Nat
  BY DivMod
<1>3. a \div MsPerSec <= b \div MsPerSec
  BY SecondsGrow
<1> QED BY <1>1, <1>2, <1>3

\* Moments as the timer stores them: the milliseconds may be a whole second.
Stored == {tv \in TimeValues : tv.milisecond <= MsPerSec}

\* The fields of a stored moment.
LEMMA StoredFields ==
  ASSUME NEW tv \in Stored
  PROVE  /\ tv.second \in 0..(Word - 1) /\ tv.second \in Nat
         /\ tv.milisecond \in 0..MsPerSec /\ tv.milisecond \in Nat
         /\ MsPerSec * tv.second \in Nat /\ Ms(tv) \in Nat
         /\ Ms(tv) = MsPerSec * tv.second + tv.milisecond
<1>1. tv.second \in 0..(Word - 1) /\ tv.milisecond \in 0..MsPerSec
  BY DEF Stored, TimeValues
<1>2. tv.second \in Nat /\ tv.milisecond \in Nat
  BY <1>1
<1>3. MsPerSec * tv.second \in Nat /\ tv.second * MsPerSec = MsPerSec * tv.second
  BY <1>2
<1> QED BY <1>1, <1>2, <1>3 DEF Ms

\* GetMonoTime is exact as long as the seconds do not wrap.
LEMMA MonoTimeExact ==
  ASSUME NEW t \in Nat, t \div MsPerSec < Word
  PROVE  /\ GetMonoTime(t) \in Stored
         /\ GetMonoTime(t).milisecond < MsPerSec
         /\ Ms(GetMonoTime(t)) = t
<1>1. /\ t \div MsPerSec \in Nat /\ t % MsPerSec \in 0..(MsPerSec - 1)
      /\ t = MsPerSec * (t \div MsPerSec) + (t % MsPerSec)
  BY DivMod
<1>2. (t \div MsPerSec) % Word = t \div MsPerSec
  BY <1>1, SmallMod
<1> DEFINE q == t \div MsPerSec
           r == t % MsPerSec
<1>3. GetMonoTime(t) = [second |-> q, milisecond |-> r]
  BY <1>2 DEF GetMonoTime
<1>4. q \in 0..(Word - 1) /\ r \in 0..(Word - 1) /\ r < MsPerSec /\ r <= MsPerSec
  BY <1>1
<1> HIDE DEF q, r
<1>5. GetMonoTime(t) \in Stored
  BY <1>3, <1>4 DEF Stored, TimeValues
<1> QED BY <1>1, <1>3, <1>4, <1>5, StoredFields DEF q, r

\* Reading the clock gives a moment in normal form, wrapped or not.
LEMMA MonoTimeStored ==
  ASSUME NEW t \in Nat
  PROVE  GetMonoTime(t) \in Stored /\ GetMonoTime(t).milisecond < MsPerSec
<1>1. t \div MsPerSec \in Nat /\ t % MsPerSec \in 0..(MsPerSec - 1)
  BY DivMod
<1> DEFINE q == t \div MsPerSec
           r == t % MsPerSec
<1>2. q % Word \in 0..(Word - 1)
  BY <1>1
<1>3. r \in 0..(Word - 1) /\ r < MsPerSec /\ r <= MsPerSec
  BY <1>1
<1>4. GetMonoTime(t) = [second |-> q % Word, milisecond |-> r]
  BY DEF GetMonoTime
<1> HIDE DEF q, r
<1> QED BY <1>2, <1>3, <1>4 DEF Stored, TimeValues

\* What SetTimer and LoopTimer store may be the start of the next addition, whether
\* a sum has wrapped or not (timer.cpp:567, 612).
LEMMA CarryStored ==
  ASSUME NEW tv \in Stored, NEW d \in Nat
  PROVE  AddDuration(tv, d) \in Stored
<1> DEFINE ms == (tv.milisecond + d) % Word
           s == tv.second + ms \div MsPerSec
           r == ms % MsPerSec
<1>1. tv.second \in 0..(Word - 1) /\ tv.second \in Nat /\ tv.milisecond \in Nat
  BY StoredFields
<1>2. ms \in 0..(Word - 1) /\ ms \in Nat
  BY <1>1
<1>3. ms \div MsPerSec \in Nat /\ r \in 0..(MsPerSec - 1)
  BY <1>2, DivMod
<1>4. s \in Nat
  BY <1>1, <1>3
<1>5. s % Word \in 0..(Word - 1)
  BY <1>4
<1>6. r \in 0..(Word - 1) /\ r <= MsPerSec
  BY <1>3
<1>7. AddDuration(tv, d) = IF ms > MsPerSec
                            THEN [second |-> s % Word, milisecond |-> r]
                            ELSE [second |-> tv.second, milisecond |-> ms]
  BY DEF AddDuration, Carry
<1>8. ~(ms > MsPerSec) => ms <= MsPerSec
  BY <1>2
<1> HIDE DEF ms, s, r
<1> QED BY <1>1, <1>2, <1>5, <1>6, <1>7, <1>8 DEF Stored, TimeValues

\* The carry of SetTimer and LoopTimer loses nothing as long as the result fits
\* (timer.cpp:568, 613).
LEMMA CarryExact ==
  ASSUME NEW tv \in Stored, NEW d \in Nat, MsPerSec + d < Word,
         (Ms(tv) + d) \div MsPerSec < Word
  PROVE  AddDuration(tv, d) \in Stored /\ Ms(AddDuration(tv, d)) = Ms(tv) + d
<1> DEFINE sum == tv.milisecond + d
           c == sum \div MsPerSec
           r == sum % MsPerSec
           s == tv.second + c
<1>1. /\ tv.second \in Nat /\ tv.second \in 0..(Word - 1) /\ tv.milisecond \in 0..MsPerSec
      /\ MsPerSec * tv.second \in Nat /\ Ms(tv) \in Nat
      /\ Ms(tv) = MsPerSec * tv.second + tv.milisecond
  BY StoredFields
<1>2. sum \in Nat /\ sum \in 0..(Word - 1)
  BY <1>1
<1>3. sum % Word = sum
  BY <1>2, SmallMod
<1>4. AddDuration(tv, d) = Carry(tv, sum)
  BY <1>3 DEF AddDuration
<1>5. c \in Nat /\ r \in 0..(MsPerSec - 1) /\ sum = MsPerSec * c + r
  BY <1>2, DivMod
<1>6. CASE ~(sum > MsPerSec)
  <2>1. AddDuration(tv, d) = [second |-> tv.second, milisecond |-> sum]
    BY <1>4, <1>6 DEF Carry
  <2>2. AddDuration(tv, d) \in Stored
    BY <1>1, <1>2, <1>6, <2>1 DEF Stored, TimeValues
  <2> QED BY <1>1, <2>1, <2>2, StoredFields
<1>7. CASE sum > MsPerSec
  <2>1. s \in Nat /\ MsPerSec * s = MsPerSec * tv.second + MsPerSec * c
        /\ MsPerSec * c \in Nat /\ MsPerSec * s \in Nat
    BY <1>1, <1>5
  <2>2. Ms(tv) + d = MsPerSec * s + r
    <3>1. \A p, x, y, k, m \in Nat : x + y = k + m => (p + x) + y = (p + k) + m
      OBVIOUS
    <3>2. /\ tv.milisecond \in Nat /\ r \in Nat /\ MsPerSec * c \in Nat
          /\ tv.milisecond + d = MsPerSec * c + r
      <4>1. tv.milisecond \in Nat
        BY <1>1
      <4>2. r \in Nat
        BY <1>5
      <4> HIDE DEF c, r
      <4> QED BY <1>5, <2>1, <4>1, <4>2, Zenon
    <3> HIDE DEF c, r, s
    <3>3. (MsPerSec * tv.second + tv.milisecond) + d = (MsPerSec * tv.second + MsPerSec * c) + r
      BY <1>1, <3>1, <3>2
    <3> QED BY <1>1, <2>1, <3>3
  <2>3. s < Word
    <3> DEFINE e == Ms(tv) + d
               u == e \div MsPerSec
    <3>1. e \in Nat /\ u < Word
      BY <1>1
    <3>2. e = MsPerSec * s + r
      BY <2>2
    <3> HIDE DEF e
    <3>3. u \in Nat /\ e % MsPerSec \in 0..(MsPerSec - 1) /\ e = MsPerSec * u + (e % MsPerSec)
      BY <3>1, DivMod
    <3>4. ASSUME u < s PROVE FALSE
      <4>1. MsPerSec * u + MsPerSec <= MsPerSec * s
        BY <2>1, <3>3, <3>4, WholeSeconds
      <4>2. MsPerSec * u \in Nat /\ e % MsPerSec \in Nat /\ e % MsPerSec < MsPerSec
            /\ r \in Nat /\ MsPerSec * s \in Nat
        <5>1. \A x \in 0..(MsPerSec - 1) : x \in Nat /\ x < MsPerSec
          OBVIOUS
        <5>2. MsPerSec * u \in Nat
          BY <3>3
        <5> HIDE DEF u, s, r
        <5> QED BY <1>5, <2>1, <3>3, <5>1, <5>2, Zenon
      <4>3. \A p, q, x, y \in Nat : p + x = q + y /\ x < MsPerSec => ~(p + MsPerSec <= q)
        OBVIOUS
      <4> HIDE DEF u, s, r
      <4> QED BY <3>2, <3>3, <4>1, <4>2, <4>3
    <3>5. \A p, q \in Nat : ~(p < q) /\ p < Word => q < Word
      OBVIOUS
    <3> HIDE DEF u, s
    <3> QED BY <2>1, <3>1, <3>3, <3>4, <3>5
  <2>4. s % Word = s
    BY <2>1, <2>3, SmallMod
  <2>5. AddDuration(tv, d) = [second |-> s, milisecond |-> r]
    BY <1>4, <1>7, <2>4 DEF Carry
  <2> HIDE DEF s, r
  <2>6. AddDuration(tv, d) \in Stored
    BY <1>5, <2>1, <2>3, <2>5 DEF Stored, TimeValues
  <2>7. Ms(AddDuration(tv, d)) = MsPerSec * s + r
    BY <2>5, <2>6, StoredFields
  <2> QED BY <2>2, <2>6, <2>7
<1> QED BY <1>6, <1>7

\* The order of the scan table is that of the milliseconds, when a moment of the
\* clock is compared with a stored one (timer.cpp:446).
LEMMA LessIsLess ==
  ASSUME NEW now \in Stored, NEW tv \in Stored, now.milisecond < MsPerSec
  PROVE  TimeLess(now, tv) <=> Ms(now) < Ms(tv)
<1>1. /\ now.second \in Nat /\ now.milisecond \in Nat /\ MsPerSec * now.second \in Nat
      /\ Ms(now) = MsPerSec * now.second + now.milisecond
  BY StoredFields
<1>2. /\ tv.second \in Nat /\ tv.milisecond \in 0..MsPerSec /\ MsPerSec * tv.second \in Nat
      /\ Ms(tv) = MsPerSec * tv.second + tv.milisecond
  BY StoredFields
<1>3. CASE now.second < tv.second
  <2>1. MsPerSec * now.second + MsPerSec <= MsPerSec * tv.second
    BY <1>1, <1>2, <1>3, WholeSeconds
  <2> QED BY <1>1, <1>2, <1>3, <2>1 DEF TimeLess
<1>4. CASE tv.second < now.second
  <2>1. MsPerSec * tv.second + MsPerSec <= MsPerSec * now.second
    BY <1>1, <1>2, <1>4, WholeSeconds
  <2> QED BY <1>1, <1>2, <1>4, <2>1 DEF TimeLess
<1>5. CASE now.second = tv.second
  BY <1>1, <1>2, <1>5 DEF TimeLess
<1>6. now.second < tv.second \/ tv.second < now.second \/ now.second = tv.second
  <2>1. \A p, q \in Nat : p < q \/ q < p \/ p = q
    OBVIOUS
  <2> QED BY <1>1, <1>2, <2>1
<1> QED BY <1>3, <1>4, <1>5, <1>6

\* The scan table is in the order of the milliseconds; of two forms of one moment
\* either may come first.
LEMMA LessIsNotLater ==
  ASSUME NEW one \in Stored, NEW other \in Stored, TimeLess(one, other)
  PROVE  Ms(one) <= Ms(other)
<1>1. /\ one.second \in Nat /\ one.milisecond \in 0..MsPerSec
      /\ MsPerSec * one.second \in Nat
      /\ Ms(one) = MsPerSec * one.second + one.milisecond
  BY StoredFields
<1>2. /\ other.second \in Nat /\ other.milisecond \in 0..MsPerSec
      /\ MsPerSec * other.second \in Nat
      /\ Ms(other) = MsPerSec * other.second + other.milisecond
  BY StoredFields
<1>3. CASE one.second < other.second
  <2>1. MsPerSec * one.second + MsPerSec <= MsPerSec * other.second
    BY <1>1, <1>2, <1>3, WholeSeconds
  <2> QED BY <1>1, <1>2, <2>1
<1>4. CASE one.second = other.second /\ one.milisecond < other.milisecond
  BY <1>1, <1>2, <1>4
<1> QED BY <1>3, <1>4 DEF TimeLess

\* Moments up to the last millisecond that the two fields can hold are in range.
LEMMA Representable ==
  ASSUME NEW t \in Nat, t <= Word * MsPerSec - 1
  PROVE  t \div MsPerSec < Word
<1>1. /\ t \div MsPerSec \in Nat /\ t % MsPerSec \in 0..(MsPerSec - 1)
      /\ t = MsPerSec * (t \div MsPerSec) + (t % MsPerSec)
  BY DivMod
<1> DEFINE q == t \div MsPerSec
           r == t % MsPerSec
<1>2. MsPerSec * q \in Nat /\ MsPerSec * Word \in Nat /\ Word * MsPerSec = MsPerSec * Word
  BY <1>1
<1>3. ASSUME ~(q < Word) PROVE MsPerSec * Word <= MsPerSec * q
  <2>1. \A p, k \in Nat : p <= k => MsPerSec * p <= MsPerSec * k
    OBVIOUS
  <2>2. q \in Nat /\ Word <= q
    BY <1>1, <1>3
  <2> HIDE DEF q
  <2> QED BY <2>1, <2>2
<1>4. r \in Nat
  BY <1>1
<1> HIDE DEF q, r
<1> QED BY <1>1, <1>2, <1>3, <1>4 DEF q, r

\* GetRemainedTime is exact before the expiry (timer.cpp:748).
LEMMA RemainedExact ==
  ASSUME NEW now \in Stored, NEW tv \in Stored, now.milisecond < MsPerSec, TimeLess(now, tv)
  PROVE  Ms(Remained(tv, now)) = Ms(tv) - Ms(now)
<1>1. /\ now.second \in 0..(Word - 1) /\ now.milisecond \in Nat /\ MsPerSec * now.second \in Nat
      /\ Ms(now) = MsPerSec * now.second + now.milisecond
  BY StoredFields
<1>2. /\ tv.second \in 0..(Word - 1) /\ tv.milisecond \in 0..MsPerSec
      /\ MsPerSec * tv.second \in Nat /\ Ms(tv) = MsPerSec * tv.second + tv.milisecond
  BY StoredFields
<1>3. \A sec \in 0..(Word - 1), ms \in 0..MsPerSec :
        Ms([second |-> sec, milisecond |-> ms]) = MsPerSec * sec + ms
  BY DEF Ms
<1>4. CASE tv.milisecond < now.milisecond
  <2> DEFINE sec == tv.second - now.second - 1
             ms == tv.milisecond + MsPerSec - now.milisecond
  <2>1. now.second < tv.second
    BY <1>1, <1>2, <1>4 DEF TimeLess
  <2>2. sec \in 0..(Word - 1) /\ ms \in 0..MsPerSec /\ ms \in 0..(Word - 1)
    BY <1>1, <1>2, <1>4, <2>1
  <2>3. sec % Word = sec /\ ms % Word = ms
    BY <2>2, SmallMod
  <2>4. Remained(tv, now) = [second |-> sec, milisecond |-> ms]
    <3>1. Remained(tv, now) = [second |-> sec % Word, milisecond |-> ms % Word]
      <4>1. /\ tv.milisecond < now.milisecond
            /\ tv.second \in Nat /\ tv.milisecond \in Nat
            /\ now.second \in Nat /\ now.milisecond \in Nat
        BY <1>1, <1>2, <1>4
      <4> QED BY <4>1 DEF Remained
    <3> QED BY <2>3, <3>1, Zenon
  <2>5. MsPerSec * sec = MsPerSec * tv.second - MsPerSec * now.second - MsPerSec
    BY <1>1, <1>2
  <2>6. Ms(Remained(tv, now)) = MsPerSec * sec + ms
    BY <1>3, <2>2, <2>4
  <2> QED BY <1>1, <1>2, <2>5, <2>6
<1>5. CASE ~(tv.milisecond < now.milisecond)
  <2> DEFINE sec == tv.second - now.second
             ms == tv.milisecond - now.milisecond
  <2>1. sec \in 0..(Word - 1) /\ ms \in 0..MsPerSec /\ ms \in 0..(Word - 1)
    BY <1>1, <1>2, <1>5 DEF TimeLess
  <2>2. sec % Word = sec /\ ms % Word = ms
    BY <2>1, SmallMod
  <2>3. Remained(tv, now) = [second |-> sec, milisecond |-> ms]
    BY <1>5, <2>2 DEF Remained
  <2>4. MsPerSec * sec = MsPerSec * tv.second - MsPerSec * now.second
    BY <1>1, <1>2
  <2>5. Ms(Remained(tv, now)) = MsPerSec * sec + ms
    BY <1>3, <2>1, <2>3
  <2> QED BY <1>1, <1>2, <2>4, <2>5
<1> QED BY <1>4, <1>5

-----------------------------------------------------------------------------
\* The expiry of a timer is stored in a form that the next re-arm may start from,
\* and as long as nothing has wrapped it is where it should be.
ExpiryInv ==
  /\ start \in Nat /\ at \in Nat /\ loops \in Nat /\ duration \in Nat
  /\ start <= MaxStart /\ start <= at /\ (at = start \/ at <= MaxAt)
  /\ InRange => timeout \in Stored /\ Ms(timeout) = Due

\* The due moment after one more period.
LEMMA DueGrows ==
  ASSUME NEW s \in Nat, NEW n \in Nat, NEW d \in Nat
  PROVE  /\ s + (n + 1) * d \in Nat /\ s <= s + (n + 1) * d
         /\ s + ((n + 1) + 1) * d = (s + (n + 1) * d) + d
<1>1. (n + 1) * d \in Nat
  OBVIOUS
<1>2. ((n + 1) + 1) * d = (n + 1) * d + d
  OBVIOUS
<1> QED BY <1>1, <1>2

\* The invariant holds when a timer is set and is kept by LoopTimer and by the clock.
LEMMA ExpiryInvariant == Spec => []ExpiryInv
<1>1. Init => ExpiryInv
  <2> SUFFICES ASSUME Init PROVE ExpiryInv
    OBVIOUS
  <2>1. /\ start \in Nat /\ start <= MaxStart /\ duration \in Nat /\ loops = 0 /\ at = start
        /\ timeout = AddDuration(GetMonoTime(start), duration)
    BY DEF Init
  <2>2. Due = start + duration
    BY <2>1 DEF Due
  <2>3. ASSUME InRange PROVE timeout \in Stored /\ Ms(timeout) = Due
    <3>1. MsPerSec + duration < Word /\ (start + duration) \div MsPerSec < Word
      BY <2>2, <2>3 DEF InRange
    <3>2. start \div MsPerSec < Word
      <4>1. start + duration \in Nat /\ start <= start + duration
        BY <2>1
      <4> QED BY <2>1, <3>1, <4>1, SecondsFit
    <3>3. GetMonoTime(start) \in Stored /\ Ms(GetMonoTime(start)) = start
      BY <2>1, <3>2, MonoTimeExact
    <3> QED BY <2>1, <2>2, <3>1, <3>3, CarryExact
  <2> QED BY <2>1, <2>3 DEF ExpiryInv
<1>2. ExpiryInv /\ [Next]_vars => ExpiryInv'
  <2> SUFFICES ASSUME ExpiryInv, [Next]_vars PROVE ExpiryInv'
    OBVIOUS
  <2> USE DEF ExpiryInv
  <2>1. CASE Loop
    <3>1. loops' = loops + 1 /\ timeout' = AddDuration(timeout, duration)
          /\ UNCHANGED <<start, duration, at>>
      BY <2>1 DEF Loop
    <3>2. Due \in Nat /\ Due' = Due + duration
      BY <3>1, DueGrows DEF Due
    <3>3. ASSUME InRange' PROVE timeout' \in Stored /\ Ms(timeout') = Due'
      <4>1. MsPerSec + duration < Word /\ (Due + duration) \div MsPerSec < Word
        BY <3>1, <3>2, <3>3 DEF InRange
      <4>2. Due \div MsPerSec < Word
        <5>1. Due + duration \in Nat /\ Due <= Due + duration
          BY <3>2
        <5> QED BY <3>2, <4>1, <5>1, SecondsFit
      <4>3. timeout \in Stored /\ Ms(timeout) = Due
        BY <4>1, <4>2 DEF InRange
      <4> QED BY <3>1, <3>2, <4>1, <4>3, CarryExact
    <3> QED BY <3>1, <3>3
  <2>2. CASE Clock
    BY <2>2 DEF Clock, InRange, Due
  <2>3. CASE UNCHANGED vars
    BY <2>3 DEF vars, InRange, Due
  <2> QED BY <2>1, <2>2, <2>3 DEF Next
<1> QED BY <1>1, <1>2, PTL DEF Spec

\* The clock does not reach the end of its seconds: 2^32 of them are 136 years.
ClockInRange == MaxStart \div MsPerSec < Word /\ MaxAt \div MsPerSec < Word

\* A loop timer does not drift and is found expired at the first millisecond at which
\* it is due (timer.cpp:446, 568, 613), for every duration, every number of periods and
\* every width of the fields.
THEOREM ExpiryCorrect ==
  ASSUME ClockInRange
  PROVE  Spec => []ExpiryIsExact
<1>1. ExpiryInv => ExpiryIsExact
  <2> SUFFICES ASSUME ExpiryInv, InRange
               PROVE  Ms(timeout) = Due /\ (Expired(timeout, GetMonoTime(at)) <=> at >= Due)
    BY DEF ExpiryIsExact
  <2>1. timeout \in Stored /\ Ms(timeout) = Due /\ at \in Nat
    BY DEF ExpiryInv
  <2>2. at \div MsPerSec < Word
    <3>1. PICK b \in {MaxStart, MaxAt} : at <= b
      BY DEF ExpiryInv
    <3> QED BY <2>1, <3>1, SecondsFit DEF ClockInRange
  <2>3. /\ GetMonoTime(at) \in Stored /\ GetMonoTime(at).milisecond < MsPerSec
        /\ Ms(GetMonoTime(at)) = at
    BY <2>1, <2>2, MonoTimeExact
  <2>4. TimeLess(GetMonoTime(at), timeout) <=> at < Due
    BY <2>1, <2>3, LessIsLess
  <2>5. Due \in Nat
    BY <2>1, StoredFields
  <2> QED BY <2>1, <2>4, <2>5 DEF Expired
<1> QED BY <1>1, ExpiryInvariant, PTL

\* GetRemainedTime returns the time left as long as the timer is not due (timer.cpp:748),
\* for every duration, every number of periods and every width of the fields.
THEOREM RemainedCorrect == Spec => []RemainedIsExact
<1>1. ExpiryInv => RemainedIsExact
  <2> SUFFICES ASSUME ExpiryInv, InRange, at < Due
               PROVE  Ms(Remained(timeout, GetMonoTime(at))) = Due - at
    BY DEF RemainedIsExact
  <2>1. timeout \in Stored /\ Ms(timeout) = Due /\ at \in Nat
    BY DEF ExpiryInv
  <2>2. Due \in Nat
    BY <2>1, StoredFields
  <2>3. at \div MsPerSec < Word
    BY <2>1, <2>2, SecondsFit DEF InRange
  <2>4. /\ GetMonoTime(at) \in Stored /\ GetMonoTime(at).milisecond < MsPerSec
        /\ Ms(GetMonoTime(at)) = at
    BY <2>1, <2>3, MonoTimeExact
  <2>5. TimeLess(GetMonoTime(at), timeout)
    BY <2>1, <2>4, LessIsLess
  <2> QED BY <2>1, <2>4, <2>5, RemainedExact
<1> QED BY <1>1, ExpiryInvariant, PTL
=============================================================================
