-------------------------- MODULE PeripheryProofs --------------------------
(***************************************************************************)
(* Theorems of the components around the Poster and the Reader.  The       *)
(* Poster's rate limiter: any window and limit, any signers and stamps.    *)
(* The clients: any number of retries, rows and widget steps.  The         *)
(* starting of the services: any files, environment, command line, chain   *)
(* and database.  The routes of the services and of the applications: any  *)
(* rows, requests, pages and replies.  The explorer: any tabs, settings    *)
(* and loads.                                                              *)
(***************************************************************************)
EXTENDS Intake, Clients, Startup, Explorer, FiniteSetTheorems,
        FunctionTheorems, SequenceTheorems, NaturalsInduction, WellFoundedInduction, TLAPS

-----------------------------------------------------------------------------
(* The rate limiter *)

\* A part of 1 .. n with everything below its members is the numbers up to its size.
LEMMA InitialPart ==
  ASSUME NEW n \in Nat, NEW S \in SUBSET (1 .. n),
         \A i \in S, j \in 1 .. n : j <= i => j \in S
  PROVE  Cardinality(S) \in 0 .. n /\ S = 1 .. Cardinality(S)
  <1> DEFINE gaps == {m \in 1 .. n + 1 : m \notin S}
  <1>1. gaps \in SUBSET Nat /\ n + 1 \in gaps
    OBVIOUS
  <1>2. PICK c \in gaps : \A m \in gaps : ~(m < c)
    <2> HIDE DEF gaps
    <2>1. PICK c \in gaps : \A m \in gaps : ~(<<m, c>> \in OpToRel(<, Nat))
      BY <1>1, NatLessThanWellFounded, WFMin
    <2>2. QED
      BY <1>1, <2>1 DEF OpToRel
  <1>3. c \in 1 .. n + 1 /\ c - 1 \in 0 .. n
    OBVIOUS
  <1>4. S = 1 .. c - 1
    <2>1. ASSUME NEW m \in S PROVE m \in 1 .. c - 1
      <3>1. m # c /\ ~(c <= m)
        BY <1>3
      <3>2. QED
        BY <1>3, <3>1
    <2>2. ASSUME NEW m \in 1 .. c - 1 PROVE m \in S
      BY <1>2, <1>3
    <2>3. QED
      BY <2>1, <2>2
  <1>5. Cardinality(1 .. c - 1) = c - 1
    BY <1>3, FS_Interval
  <1>6. QED
    BY <1>3, <1>4, <1>5

Buckets == Senders \cup {NobodysKey}
StampsIn(timestamps, k) == IF k \in DOMAIN timestamps THEN timestamps[k] ELSE <<>>
StampsPast(stamps, t) == {i \in DOMAIN stamps : stamps[i] > t}
AdmittedPast(admitted, k, t) == {e \in admitted : e[3] = k /\ e[2] > t}

Ascending(stamps, now) ==
    /\ stamps \in Seq(Nat)
    /\ \A i \in DOMAIN stamps : stamps[i] <= now
    /\ \A i, j \in DOMAIN stamps : i <= j => stamps[i] <= stamps[j]

\* The entry of a key has a timestamp for each submission admitted within the
\* window, wherever in it one counts from.
Metered(timestamps, now, admitted) ==
    \A k \in Buckets :
        /\ Ascending(StampsIn(timestamps, k), now)
        /\ \A t \in Int : t >= now - RateWindow =>
              Cardinality(StampsPast(StampsIn(timestamps, k), t))
                  = Cardinality(AdmittedPast(admitted, k, t))

Admissions(admitted, now, n) ==
    /\ IsFiniteSet(admitted)
    /\ \A e \in admitted : e \in Nat \X Nat \X Buckets /\ e[1] < n /\ e[2] <= now

\* What is left of an entry, once its stale timestamps are dropped.
Left(stamps, now) ==
    SubSeq(stamps, Cardinality({i \in DOMAIN stamps : ~(stamps[i] > now - RateWindow)}) + 1, Len(stamps))

LEMMA StampsLeft ==
  ASSUME NEW now \in Nat, NEW stamps, Ascending(stamps, now)
  PROVE  /\ Ascending(Left(stamps, now), now)
         /\ \A i \in DOMAIN Left(stamps, now) : Left(stamps, now)[i] > now - RateWindow
         /\ \A t \in Int : t >= now - RateWindow =>
               Cardinality(StampsPast(Left(stamps, now), t)) = Cardinality(StampsPast(stamps, t))
         /\ Len(Left(stamps, now)) = Cardinality(StampsPast(stamps, now - RateWindow))
  <1> DEFINE start == now - RateWindow
             stale == {i \in DOMAIN stamps : ~(stamps[i] > start)}
             c == Cardinality(stale)
             n == Len(stamps)
             left == Left(stamps, now)
  <1>1. /\ n \in Nat /\ DOMAIN stamps = 1 .. n /\ start \in Int /\ stamps \in Seq(Nat)
        /\ \A i \in 1 .. n : stamps[i] \in Nat
    BY IntakeAssumption DEF Ascending
  <1>2. c \in 0 .. n /\ stale = 1 .. c
    <2>1. stale \in SUBSET (1 .. n)
      BY <1>1
    <2>2. \A i \in stale, j \in 1 .. n : j <= i => j \in stale
      BY <1>1, SMTT(30) DEF Ascending
    <2> HIDE DEF stale, n
    <2>3. QED
      BY <1>1, <2>1, <2>2, InitialPart
  <1>3. left = SubSeq(stamps, c + 1, n)
    BY DEF Left
  <1>4. \A i \in 1 .. n : i > c <=> stamps[i] > start
    <2>1. \A i \in 1 .. n : i \in stale <=> ~(stamps[i] > start)
      BY <1>1
    <2> HIDE DEF stale, c, n, start
    <2>2. \A i \in 1 .. n : i \in 1 .. c <=> ~(i > c)
      BY <1>1, <1>2
    <2>3. QED
      BY <1>2, <2>1, <2>2
  <1> HIDE DEF stale, c, n, left, start
  <1>5. /\ left \in Seq(Nat) /\ Len(left) = n - c /\ DOMAIN left = 1 .. n - c
        /\ \A i \in 1 .. n - c : left[i] = stamps[c + i] /\ c + i \in c + 1 .. n /\ c + i \in 1 .. n
    BY <1>1, <1>2, <1>3
  <1>6. Ascending(left, now)
    <2>1. \A i \in DOMAIN left : left[i] <= now
      BY <1>1, <1>5 DEF Ascending
    <2>2. ASSUME NEW i \in DOMAIN left, NEW j \in DOMAIN left, i <= j PROVE left[i] <= left[j]
      <3>1. c + i <= c + j
        BY <1>2, <1>5, <2>2
      <3>2. QED
        BY <1>1, <1>5, <3>1 DEF Ascending
    <2>3. QED
      BY <1>5, <2>1, <2>2 DEF Ascending
  <1>7. ASSUME NEW i \in DOMAIN left PROVE left[i] > start
    <2>1. c + i \in 1 .. n /\ c + i > c /\ left[i] = stamps[c + i]
      BY <1>1, <1>2, <1>5, SMTT(30)
    <2>2. QED
      BY <1>4, <2>1
  <1>8. ASSUME NEW t \in Int, t >= start
        PROVE  Cardinality(StampsPast(left, t)) = Cardinality(StampsPast(stamps, t))
    <2> DEFINE L == StampsPast(left, t)
               S == StampsPast(stamps, t)
               shift == [i \in L |-> c + i]
    <2>1. IsFiniteSet(L)
      <3>1. L \subseteq 1 .. n - c /\ IsFiniteSet(1 .. n - c)
        BY <1>1, <1>2, <1>5, FS_Interval DEF StampsPast
      <3>2. QED
        BY <3>1, FS_Subset
    <2>2. \A i \in L : c + i \in S
      BY <1>1, <1>5 DEF StampsPast
    <2>3. ASSUME NEW m \in S PROVE m - c \in L /\ c + (m - c) = m
      <3>1. m \in 1 .. n /\ stamps[m] > t /\ stamps[m] \in Nat
        BY <1>1 DEF StampsPast
      <3>2. stamps[m] > start
        BY <1>1, <1>8, <3>1
      <3>3. m > c
        BY <1>4, <3>1, <3>2
      <3>4. m - c \in 1 .. n - c /\ c + (m - c) = m
        BY <1>1, <1>2, <3>1, <3>3
      <3>5. QED
        BY <1>5, <3>1, <3>4 DEF StampsPast
    <2>4. \A i, j \in L : c + i = c + j => i = j
      BY <1>2, <1>5 DEF StampsPast
    <2> HIDE DEF L, S
    <2>5. shift \in Bijection(L, S)
      <3>1. shift \in [L -> S] /\ \A i, j \in L : shift[i] = shift[j] => i = j
        BY <2>2, <2>4
      <3>2. \A m \in S : \E i \in L : shift[i] = m
        BY <2>3
      <3>3. QED
        BY <3>1, <3>2 DEF Bijection, Injection, Surjection, IsInjective
    <2>6. ExistsBijection(L, S)
      BY <2>5 DEF ExistsBijection
    <2>7. Cardinality(S) = Cardinality(L)
      BY <2>1, <2>6, FS_Bijection
    <2>8. QED
      BY <2>7 DEF L, S
  <1>9. Len(left) = Cardinality(StampsPast(stamps, start))
    <2>1. StampsPast(left, start) = 1 .. n - c
      BY <1>5, <1>7 DEF StampsPast
    <2>2. Cardinality(1 .. n - c) = n - c
      BY <1>1, <1>2, FS_Interval
    <2>3. start >= start
      BY <1>1
    <2>4. QED
      BY <1>1, <1>5, <1>8, <2>1, <2>2, <2>3
  <1>10. QED
    BY <1>6, <1>7, <1>8, <1>9 DEF left, start

\* One check of a key keeps the entries metered, and refuses by the number of
\* its submissions admitted within the window.
LEMMA LimiterChecks ==
  ASSUME NEW now \in Nat, NEW timestamps, NEW lastSweep, NEW admitted, NEW n \in Nat, NEW k \in Buckets,
         Metered(timestamps, now, admitted), Admissions(admitted, now, n),
         NEW checked, checked = RateLimited(timestamps, lastSweep, now, k)
  PROVE  /\ checked.refused <=>
               Cardinality(AdmittedPast(admitted, k, now - RateWindow)) >= MaxPerWindow
         /\ checked.refused => Metered(checked.timestamps, now, admitted)
         /\ ~checked.refused =>
               Metered(checked.timestamps, now, admitted \cup {<<n, now, k>>})
  <1> DEFINE start == now - RateWindow
             stamps == StampsIn(timestamps, k)
             left == Left(stamps, now)
             added == Append(left, now)
             e == <<n, now, k>>
             kept == {j \in DOMAIN timestamps \ {k} :
                        ~(now - lastSweep >= RateWindow)
                        \/ timestamps[j][Len(timestamps[j])] > start}
             entry == IF checked.refused THEN left ELSE added
  <1>1. /\ checked.refused = (Len(left) >= MaxPerWindow)
        /\ checked.timestamps = [j \in kept \cup {k} |-> IF j # k THEN timestamps[j] ELSE entry]
    BY DEF RateLimited, Left, StampsIn
  <1>2. /\ Ascending(stamps, now) /\ start \in Int /\ start >= now - RateWindow
        /\ \A t \in Int : t >= start =>
              Cardinality(StampsPast(stamps, t)) = Cardinality(AdmittedPast(admitted, k, t))
    BY IntakeAssumption DEF Metered
  <1>3. /\ Ascending(left, now)
        /\ \A t \in Int : t >= start =>
              Cardinality(StampsPast(left, t)) = Cardinality(AdmittedPast(admitted, k, t))
        /\ Len(left) = Cardinality(AdmittedPast(admitted, k, start))
    <2> HIDE DEF stamps, start
    <2>1. /\ Ascending(left, now)
          /\ \A t \in Int : t >= now - RateWindow =>
                Cardinality(StampsPast(left, t)) = Cardinality(StampsPast(stamps, t))
          /\ Len(left) = Cardinality(StampsPast(stamps, now - RateWindow))
      BY <1>2, StampsLeft
    <2>2. QED
      BY <1>2, <2>1 DEF start
  <1>4. checked.refused <=> Cardinality(AdmittedPast(admitted, k, start)) >= MaxPerWindow
    <2> HIDE DEF left, start
    <2>1. QED
      BY <1>1, <1>3
  <1>5. /\ StampsIn(checked.timestamps, k) = entry
        /\ \A j \in Buckets : j # k =>
              \/ StampsIn(checked.timestamps, j) = StampsIn(timestamps, j)
              \/ /\ StampsIn(checked.timestamps, j) = <<>> /\ j \in DOMAIN timestamps
                 /\ ~(timestamps[j][Len(timestamps[j])] > start)
    <2> HIDE DEF entry, start
    <2>1. /\ DOMAIN checked.timestamps = {k} \cup kept
          /\ checked.timestamps[k] = entry
          /\ \A j \in kept : checked.timestamps[j] = timestamps[j]
      BY <1>1
    <2>2. QED
      BY <2>1 DEF StampsIn
  <1> DEFINE MeteredAt(list, j, set) ==
        /\ Ascending(list, now)
        /\ \A t \in Int : t >= start =>
              Cardinality(StampsPast(list, t)) = Cardinality(AdmittedPast(set, j, t))
  <1>6. ASSUME NEW j \in Buckets, j # k
        PROVE  MeteredAt(StampsIn(checked.timestamps, j), j, admitted)
    <2> DEFINE old == StampsIn(timestamps, j)
    <2>1. MeteredAt(old, j, admitted)
      BY DEF Metered
    <2>2. CASE /\ StampsIn(checked.timestamps, j) = <<>> /\ j \in DOMAIN timestamps
               /\ ~(timestamps[j][Len(timestamps[j])] > start)
      <3>1. old = timestamps[j]
        BY <2>2 DEF StampsIn
      <3>2. ASSUME NEW t \in Int, t >= start PROVE StampsPast(old, t) = {} /\ StampsPast(<<>>, t) = {}
        <4>1. SUFFICES ASSUME NEW i \in DOMAIN old, old[i] > t PROVE FALSE
          BY DEF StampsPast
        <4>2. /\ i \in 1 .. Len(old) /\ Len(old) \in DOMAIN old /\ i <= Len(old)
              /\ old[i] \in Nat /\ old[Len(old)] \in Nat
          BY <2>1, <4>1 DEF Ascending
        <4>3. old[i] <= old[Len(old)]
          BY <2>1, <4>2 DEF Ascending
        <4>4. ~(old[Len(old)] > start)
          BY <2>2, <3>1
        <4> HIDE DEF old, start
        <4>5. QED
          BY <1>2, <3>2, <4>1, <4>2, <4>3, <4>4
      <3>3. Ascending(<<>>, now)
        BY DEF Ascending
      <3> HIDE DEF old, start
      <3>4. QED
        BY <2>1, <2>2, <3>2, <3>3
    <2>3. QED
      BY <1>5, <1>6, <2>1, <2>2
  <1>7. ASSUME NEW j \in Buckets, j # k, NEW t
        PROVE  AdmittedPast(admitted \cup {e}, j, t) = AdmittedPast(admitted, j, t)
    BY <1>7 DEF AdmittedPast
  <1>8. MeteredAt(added, k, admitted \cup {e})
    <2>1. /\ left \in Seq(Nat) /\ Len(left) \in Nat /\ DOMAIN left = 1 .. Len(left)
          /\ \A i \in 1 .. Len(left) : left[i] \in Nat /\ left[i] <= now
      <3> HIDE DEF left
      <3>1. QED
        BY <1>3 DEF Ascending
    <2> HIDE DEF left
    <2>2. /\ added \in Seq(Nat) /\ DOMAIN added = 1 .. Len(left) + 1 /\ added[Len(left) + 1] = now
          /\ \A i \in 1 .. Len(left) : added[i] = left[i]
      BY <2>1
    <2> HIDE DEF added
    <2>3. \A i \in DOMAIN added : i = Len(left) + 1 \/ i \in 1 .. Len(left)
      BY <2>1, <2>2
    <2>4. Ascending(added, now)
      <3>1. \A i \in DOMAIN added : added[i] <= now /\ added[i] \in Nat
        BY <2>1, <2>2, <2>3
      <3>2. ASSUME NEW i \in DOMAIN added, NEW j \in DOMAIN added, i <= j PROVE added[i] <= added[j]
        <4>1. CASE j = Len(left) + 1
          BY <2>2, <3>1, <4>1
        <4>2. CASE j \in 1 .. Len(left)
          <5>1. i \in 1 .. Len(left)
            BY <2>1, <2>2, <3>2, <4>2
          <5>2. QED
            BY <1>3, <2>1, <2>2, <3>2, <4>2, <5>1 DEF Ascending
        <4>3. QED
          BY <2>3, <4>1, <4>2
      <3>3. QED
        BY <2>2, <3>1, <3>2 DEF Ascending
    <2>5. ASSUME NEW t \in Int, t >= start
          PROVE  Cardinality(StampsPast(added, t)) = Cardinality(AdmittedPast(admitted \cup {e}, k, t))
      <3>1. /\ IsFiniteSet(StampsPast(left, t)) /\ IsFiniteSet(AdmittedPast(admitted, k, t))
            /\ Cardinality(StampsPast(left, t)) = Cardinality(AdmittedPast(admitted, k, t))
        <4>1. StampsPast(left, t) \subseteq 1 .. Len(left) /\ IsFiniteSet(1 .. Len(left))
          BY <2>1, FS_Interval DEF StampsPast
        <4>2. AdmittedPast(admitted, k, t) \subseteq admitted /\ IsFiniteSet(admitted)
          BY DEF AdmittedPast, Admissions
        <4>3. QED
          BY <1>3, <2>5, <4>1, <4>2, FS_Subset
      <3>2. CASE now > t
        <4>1. StampsPast(added, t) = StampsPast(left, t) \cup {Len(left) + 1}
          BY <2>1, <2>2, <2>3, <3>2 DEF StampsPast
        <4>2. Len(left) + 1 \notin StampsPast(left, t)
          BY <2>1 DEF StampsPast
        <4>3. AdmittedPast(admitted \cup {e}, k, t) = AdmittedPast(admitted, k, t) \cup {e}
          BY <3>2 DEF AdmittedPast
        <4>4. e \notin AdmittedPast(admitted, k, t)
          <5>1. e[1] = n
            OBVIOUS
          <5>2. \A d \in admitted : d[1] # n
            BY DEF Admissions
          <5>3. QED
            BY <5>1, <5>2 DEF AdmittedPast
        <4> HIDE DEF e
        <4>5. Cardinality(StampsPast(added, t)) = Cardinality(StampsPast(left, t)) + 1
          BY <3>1, <4>1, <4>2, FS_AddElement
        <4>6. Cardinality(AdmittedPast(admitted \cup {e}, k, t)) = Cardinality(AdmittedPast(admitted, k, t)) + 1
          BY <3>1, <4>3, <4>4, FS_AddElement
        <4>7. QED
          BY <3>1, <4>5, <4>6
      <3>3. CASE ~(now > t)
        <4>1. StampsPast(added, t) = {}
          BY <2>1, <2>2, <2>3, <3>3 DEF StampsPast
        <4>2. AdmittedPast(admitted \cup {e}, k, t) = {}
          <5>1. \A d \in admitted : d[2] \in Nat /\ d[2] <= now
            BY DEF Admissions
          <5>2. e[2] = now
            OBVIOUS
          <5> HIDE DEF e
          <5>3. QED
            BY <3>3, <5>1, <5>2 DEF AdmittedPast
        <4>3. QED
          BY <4>1, <4>2
      <3>4. QED
        BY <3>2, <3>3
    <2>6. QED
      BY <2>4, <2>5
  <1>9. checked.refused => Metered(checked.timestamps, now, admitted)
    <2>1. MeteredAt(left, k, admitted)
      BY <1>3
    <2> HIDE DEF left, start, e
    <2>2. SUFFICES ASSUME checked.refused, NEW j \in Buckets
                   PROVE  MeteredAt(StampsIn(checked.timestamps, j), j, admitted)
      BY DEF Metered, start
    <2>3. QED
      BY <1>5, <1>6, <2>1, <2>2
  <1>10. ~checked.refused => Metered(checked.timestamps, now, admitted \cup {e})
    <2> HIDE DEF left, start, e, added
    <2>1. SUFFICES ASSUME ~checked.refused, NEW j \in Buckets
                   PROVE  MeteredAt(StampsIn(checked.timestamps, j), j, admitted \cup {e})
      BY DEF Metered, start
    <2>2. CASE j = k
      BY <1>5, <1>8, <2>1, <2>2
    <2>3. CASE j # k
      <3>1. MeteredAt(StampsIn(checked.timestamps, j), j, admitted)
        BY <1>6, <2>3
      <3>2. QED
        BY <1>7, <2>3, <3>1
    <2>4. QED
      BY <2>2, <2>3
  <1>11. QED
    BY <1>4, <1>9, <1>10 DEF start, e

LimiterFields ==
    {"clock", "timestamps", "lastSweep", "last", "submissions", "reply", "from", "admitted"}
LimiterTypeOK ==
    /\ limiter = [f \in LimiterFields |-> limiter[f]]
    /\ limiter.clock \in Nat /\ limiter.submissions \in Nat

\* What a signer had admitted in the window of any time.
Within(k, now) == {e \in limiter.admitted : e[3] = k /\ e[2] > now - RateWindow /\ e[2] <= now}

Bounded ==
    \A k \in Buckets, now \in 0 .. limiter.clock : Cardinality(Within(k, now)) <= MaxPerWindow
RefusedFull ==
    limiter.reply = "rate_limited" =>
        Cardinality(Within(limiter.from, limiter.clock)) = MaxPerWindow

LimiterInv ==
    limiter.reply # "no limiter" =>
        /\ LimiterTypeOK
        /\ Admissions(limiter.admitted, limiter.clock, limiter.submissions)
        /\ Metered(limiter.timestamps, limiter.clock, limiter.admitted)
        /\ Bounded /\ RefusedFull

LEMMA LimiterStart == ASSUME LimiterInit \/ NoLimiter PROVE LimiterInv
  <1>1. ASSUME LimiterInit PROVE LimiterInv
    <2>1. /\ LimiterTypeOK /\ limiter.reply = "none" /\ limiter.admitted = {} /\ limiter.clock = 0
          /\ limiter.timestamps = [k \in {} |-> <<>>]
      BY <1>1 DEF LimiterInit, LimiterTypeOK, LimiterFields
    <2>2. Admissions(limiter.admitted, limiter.clock, limiter.submissions)
      BY <2>1, FS_EmptySet DEF Admissions
    <2>3. Metered(limiter.timestamps, limiter.clock, limiter.admitted)
      <3>1. \A k, t : /\ StampsIn(limiter.timestamps, k) = <<>> /\ StampsPast(<<>>, t) = {}
                      /\ AdmittedPast(limiter.admitted, k, t) = {}
        BY <2>1 DEF StampsIn, StampsPast, AdmittedPast
      <3>2. Ascending(<<>>, limiter.clock)
        BY DEF Ascending
      <3>3. QED
        BY <3>1, <3>2 DEF Metered
    <2>4. Bounded
      <3>1. \A k, now : Within(k, now) = {}
        BY <2>1 DEF Within
      <3>2. QED
        BY <3>1, FS_EmptySet, IntakeAssumption DEF Bounded
    <2>5. QED
      BY <2>1, <2>2, <2>3, <2>4 DEF LimiterInv, RefusedFull
  <1>2. ASSUME NoLimiter PROVE LimiterInv
    BY <1>2 DEF NoLimiter, LimiterInv
  <1>3. QED
    BY <1>1, <1>2

\* A key's window now has what was admitted past its start.
LEMMA WindowNow ==
  ASSUME NEW k, Admissions(limiter.admitted, limiter.clock, limiter.submissions)
  PROVE  /\ Within(k, limiter.clock) = AdmittedPast(limiter.admitted, k, limiter.clock - RateWindow)
         /\ \A now : IsFiniteSet(Within(k, now)) /\ Cardinality(Within(k, now)) \in Nat
  <1>1. \A now : Within(k, now) \subseteq limiter.admitted
    BY DEF Within
  <1>2. \A now : IsFiniteSet(Within(k, now))
    BY <1>1, FS_Subset DEF Admissions
  <1>3. Within(k, limiter.clock) = AdmittedPast(limiter.admitted, k, limiter.clock - RateWindow)
    BY DEF Within, AdmittedPast, Admissions
  <1>4. QED
    BY <1>2, <1>3, FS_CardinalityType

LEMMA TimeKept == ASSUME LimiterInv, LimiterTime PROVE LimiterInv'
  <1>1. /\ LimiterTypeOK /\ Admissions(limiter.admitted, limiter.clock, limiter.submissions)
        /\ Metered(limiter.timestamps, limiter.clock, limiter.admitted) /\ Bounded
    BY DEF LimiterInv, LimiterTime
  <1>2. /\ LimiterTypeOK' /\ limiter'.clock = limiter.clock + 1 /\ limiter'.reply = "none"
        /\ limiter'.timestamps = limiter.timestamps /\ limiter'.admitted = limiter.admitted
        /\ limiter'.submissions = limiter.submissions /\ limiter.clock \in Nat
    <2>1. limiter' = [limiter EXCEPT !.clock = @ + 1, !.reply = "none", !.from = "none"]
      BY DEF LimiterTime
    <2>2. limiter = [f \in LimiterFields |-> limiter[f]] /\ limiter.clock \in Nat /\ limiter.submissions \in Nat
      BY <1>1 DEF LimiterTypeOK
    <2>3. /\ limiter' = [f \in LimiterFields |-> limiter'[f]]
          /\ limiter'.clock = limiter.clock + 1 /\ limiter'.reply = "none"
          /\ limiter'.timestamps = limiter.timestamps /\ limiter'.admitted = limiter.admitted
          /\ limiter'.submissions = limiter.submissions
      BY <2>1, <2>2 DEF LimiterFields
    <2>4. QED
      BY <2>2, <2>3 DEF LimiterTypeOK
  <1>3. Admissions(limiter.admitted, limiter.clock + 1, limiter.submissions)
    <2>1. \A e \in limiter.admitted : e[2] \in Nat /\ e[2] <= limiter.clock
      BY <1>1 DEF Admissions
    <2>2. \A e \in limiter.admitted : e[2] <= limiter.clock + 1
      BY <1>2, <2>1
    <2>3. QED
      BY <1>1, <2>2 DEF Admissions
  <1>4. Metered(limiter.timestamps, limiter.clock + 1, limiter.admitted)
    <2>1. ASSUME NEW list, Ascending(list, limiter.clock) PROVE Ascending(list, limiter.clock + 1)
      <3>1. \A i \in DOMAIN list : list[i] \in Nat /\ list[i] <= limiter.clock
        BY <2>1 DEF Ascending
      <3>2. \A i \in DOMAIN list : list[i] <= limiter.clock + 1
        BY <1>2, <3>1
      <3>3. QED
        BY <2>1, <3>2 DEF Ascending
    <2>2. \A t \in Int : t >= (limiter.clock + 1) - RateWindow => t >= limiter.clock - RateWindow
      BY <1>2, IntakeAssumption
    <2>3. \A k \in Buckets : Ascending(StampsIn(limiter.timestamps, k), limiter.clock + 1)
      BY <1>1, <2>1 DEF Metered
    <2> DEFINE later == limiter.clock + 1
    <2>4. \A t \in Int : t >= later - RateWindow => t >= limiter.clock - RateWindow
      BY <2>2
    <2>5. \A k \in Buckets : Ascending(StampsIn(limiter.timestamps, k), later)
      BY <2>3
    <2> HIDE DEF later
    <2>6. Metered(limiter.timestamps, later, limiter.admitted)
      BY <1>1, <2>4, <2>5 DEF Metered
    <2>7. QED
      BY <2>6 DEF later
  <1>5. Bounded'
    <2>1. \A k, now : Within(k, now)' = Within(k, now)
      BY <1>2 DEF Within
    <2>2. ASSUME NEW k \in Buckets PROVE Cardinality(Within(k, limiter.clock + 1)) <= MaxPerWindow
      <3>1. Within(k, limiter.clock + 1) \subseteq Within(k, limiter.clock)
        <4>1. \A e \in limiter.admitted : e[2] \in Nat /\ e[2] <= limiter.clock
          BY <1>1 DEF Admissions
        <4>2. QED
          BY <1>2, <4>1, IntakeAssumption DEF Within
      <3>2. Cardinality(Within(k, limiter.clock + 1)) <= Cardinality(Within(k, limiter.clock))
        BY <1>1, <3>1, WindowNow, FS_Subset
      <3>3. Cardinality(Within(k, limiter.clock)) <= MaxPerWindow
        BY <1>1, <1>2 DEF Bounded
      <3>4. QED
        BY <1>1, <3>2, <3>3, WindowNow, IntakeAssumption
    <2>3. 0 .. limiter.clock + 1 = (0 .. limiter.clock) \cup {limiter.clock + 1}
      BY <1>2
    <2>4. QED
      BY <1>1, <1>2, <2>1, <2>2, <2>3 DEF Bounded
  <1>6. QED
    BY <1>2, <1>3, <1>4, <1>5 DEF LimiterInv, RefusedFull

LEMMA SubmissionKept == ASSUME LimiterInv, Submit PROVE LimiterInv'
  <1>1. PICK s \in Submissions :
        LET checked == RateLimited(limiter.timestamps, limiter.lastSweep, limiter.clock, RateLimitKey(s))
            answered(reply) == [limiter EXCEPT !.submissions = @ + 1, !.reply = reply,
                                    !.from = IF s.signed THEN s.sender ELSE NobodysKey]
            metered(reply) == [answered(reply) EXCEPT !.timestamps = checked.timestamps,
                                                      !.lastSweep = checked.lastSweep]
        IN \/ /\ s.shape \in {"oversized", "contents too large"}
              /\ limiter' = answered("message_too_large")
           \/ s.shape = "malformed" /\ limiter' = answered("malformed")
           \/ s.shape = "good" /\ ~s.allowlisted /\ limiter' = answered("unknown_tag")
           \/ /\ s.shape = "good" /\ s.allowlisted /\ checked.refused
              /\ limiter' = metered("rate_limited")
           \/ /\ s.shape = "good" /\ s.allowlisted /\ ~checked.refused
              /\ LET reply == StoreReply(s)
                 IN limiter' = [metered(reply) EXCEPT
                        !.admitted = @ \cup {<<limiter.submissions, limiter.clock,
                                               IF s.signed THEN s.sender ELSE NobodysKey>>},
                        !.last[s.sender] = IF reply = "accepted"
                                           THEN [nonce |-> s.nonce, hash |-> s.hash] ELSE @]
    BY Zenon DEF Submit
  <1> DEFINE n == limiter.submissions
             now == limiter.clock
             k == RateLimitKey(s)
             e == <<n, now, k>>
             checked == RateLimited(limiter.timestamps, limiter.lastSweep, now, k)
             Moved == /\ LimiterTypeOK' /\ limiter'.clock = now /\ limiter'.submissions = n + 1
                      /\ limiter'.from = k
  <1>2. /\ LimiterTypeOK /\ Admissions(limiter.admitted, now, n)
        /\ Metered(limiter.timestamps, now, limiter.admitted) /\ Bounded
        /\ now \in Nat /\ n \in Nat
    BY DEF LimiterInv, Submit, LimiterTypeOK
  <1>3. k \in Buckets /\ k = (IF s.signed THEN s.sender ELSE NobodysKey)
    BY ZenonT(60) DEF RateLimitKey, Buckets, Submissions
  <1>4. \/ /\ Moved /\ limiter'.reply \in {"message_too_large", "malformed", "unknown_tag"}
           /\ limiter'.timestamps = limiter.timestamps /\ limiter'.admitted = limiter.admitted
        \/ /\ Moved /\ limiter'.reply = "rate_limited" /\ checked.refused
           /\ limiter'.timestamps = checked.timestamps /\ limiter'.admitted = limiter.admitted
        \/ /\ Moved /\ limiter'.reply \in {"accepted", "stale_nonce", "bad_signature"} /\ ~checked.refused
           /\ limiter'.timestamps = checked.timestamps /\ limiter'.admitted = limiter.admitted \cup {e}
    <2>1. limiter = [f \in LimiterFields |-> limiter[f]] /\ now \in Nat /\ n \in Nat
      BY <1>2 DEF LimiterTypeOK
    <2> DEFINE answered(reply) == [limiter EXCEPT !.submissions = @ + 1, !.reply = reply, !.from = k]
               metered(reply) == [answered(reply) EXCEPT !.timestamps = checked.timestamps,
                                                         !.lastSweep = checked.lastSweep]
    <2>2. ASSUME NEW reply, limiter' = answered(reply)
          PROVE  /\ Moved /\ limiter'.reply = reply
                 /\ limiter'.timestamps = limiter.timestamps /\ limiter'.admitted = limiter.admitted
      <3> HIDE DEF k, checked
      <3>1. /\ limiter' = [f \in LimiterFields |-> limiter'[f]]
            /\ limiter'.clock = now /\ limiter'.submissions = n + 1 /\ limiter'.from = k
            /\ limiter'.reply = reply
            /\ limiter'.timestamps = limiter.timestamps /\ limiter'.admitted = limiter.admitted
        BY <2>1, <2>2 DEF LimiterFields
      <3>2. QED
        BY <2>1, <3>1 DEF LimiterTypeOK
    <2>3. ASSUME NEW reply, limiter' = metered(reply)
          PROVE  /\ Moved /\ limiter'.reply = reply
                 /\ limiter'.timestamps = checked.timestamps /\ limiter'.admitted = limiter.admitted
      <3> HIDE DEF k, checked
      <3>1. /\ limiter' = [f \in LimiterFields |-> limiter'[f]]
            /\ limiter'.clock = now /\ limiter'.submissions = n + 1 /\ limiter'.from = k
            /\ limiter'.reply = reply
            /\ limiter'.timestamps = checked.timestamps /\ limiter'.admitted = limiter.admitted
        BY <2>1, <2>3 DEF LimiterFields
      <3>2. QED
        BY <2>1, <3>1 DEF LimiterTypeOK
    <2>4. ASSUME NEW reply, NEW add, NEW last,
                 limiter' = [metered(reply) EXCEPT !.admitted = @ \cup {add}, !.last[s.sender] = last]
          PROVE  /\ Moved /\ limiter'.reply = reply
                 /\ limiter'.timestamps = checked.timestamps /\ limiter'.admitted = limiter.admitted \cup {add}
      <3> HIDE DEF k, checked
      <3>1. /\ limiter' = [f \in LimiterFields |-> limiter'[f]]
            /\ limiter'.clock = now /\ limiter'.submissions = n + 1 /\ limiter'.from = k
            /\ limiter'.reply = reply
            /\ limiter'.timestamps = checked.timestamps /\ limiter'.admitted = limiter.admitted \cup {add}
        BY <2>1, <2>4 DEF LimiterFields
      <3>2. QED
        BY <2>1, <3>1 DEF LimiterTypeOK
    <2>5. StoreReply(s) \in {"accepted", "stale_nonce", "bad_signature"}
      BY DEF StoreReply
    <2>6. CASE checked.refused /\ limiter' = metered("rate_limited")
      BY <2>3, <2>6
    <2>7. CASE \E reply \in {"message_too_large", "malformed", "unknown_tag"} : limiter' = answered(reply)
      <3>1. PICK reply \in {"message_too_large", "malformed", "unknown_tag"} : limiter' = answered(reply)
        BY <2>7
      <3> HIDE DEF answered
      <3>2. QED
        BY <2>2, <3>1
    <2>8. CASE /\ ~checked.refused
               /\ \E last : limiter' = [metered(StoreReply(s)) EXCEPT !.admitted = @ \cup {e},
                                                                      !.last[s.sender] = last]
      <3>1. PICK last : limiter' = [metered(StoreReply(s)) EXCEPT !.admitted = @ \cup {e},
                                                                  !.last[s.sender] = last]
        BY <2>8
      <3> HIDE DEF Moved, e, checked
      <3>2. /\ Moved /\ limiter'.reply = StoreReply(s)
            /\ limiter'.timestamps = checked.timestamps /\ limiter'.admitted = limiter.admitted \cup {e}
        BY <2>4, <3>1
      <3>3. QED
        BY <2>5, <2>8, <3>2
    <2>9. QED
      BY <1>1, <1>3, <2>6, <2>7, <2>8
  <1> HIDE DEF n, now, k, e, checked
  <1>5. ASSUME Moved, limiter'.admitted = limiter.admitted PROVE Bounded'
    <2>1. \A j, at : Within(j, at)' = Within(j, at)
      BY <1>5 DEF Within
    <2>2. QED
      BY <1>2, <1>5, <2>1 DEF Bounded, now
  <1>6. CASE /\ Moved /\ limiter'.reply \in {"message_too_large", "malformed", "unknown_tag"}
             /\ limiter'.timestamps = limiter.timestamps /\ limiter'.admitted = limiter.admitted
    <2>1. Admissions(limiter.admitted, now, n + 1)
      BY <1>2 DEF Admissions
    <2>2. QED
      BY <1>2, <1>5, <1>6, <2>1 DEF LimiterInv, RefusedFull
  <1>7. /\ checked.refused <=>
              Cardinality(AdmittedPast(limiter.admitted, k, now - RateWindow)) >= MaxPerWindow
        /\ checked.refused => Metered(checked.timestamps, now, limiter.admitted)
        /\ ~checked.refused => Metered(checked.timestamps, now, limiter.admitted \cup {e})
    BY <1>2, <1>3, LimiterChecks DEF checked, e
  <1>8. /\ Within(k, now) = AdmittedPast(limiter.admitted, k, now - RateWindow)
        /\ Cardinality(Within(k, now)) \in Nat /\ Cardinality(Within(k, now)) <= MaxPerWindow
    <2>1. now \in 0 .. now
      BY <1>2
    <2>2. QED
      BY <1>2, <1>3, <2>1, WindowNow DEF Bounded, now, n
  <1>9. CASE /\ Moved /\ limiter'.reply = "rate_limited" /\ checked.refused
             /\ limiter'.timestamps = checked.timestamps /\ limiter'.admitted = limiter.admitted
    <2>1. Admissions(limiter.admitted, now, n + 1)
      BY <1>2 DEF Admissions
    <2>2. Cardinality(Within(k, now)) = MaxPerWindow
      BY <1>7, <1>8, <1>9, IntakeAssumption
    <2>3. Within(limiter.from, limiter.clock)' = Within(k, now)
      BY <1>9 DEF Within
    <2>4. RefusedFull'
      BY <2>2, <2>3 DEF RefusedFull
    <2>5. QED
      BY <1>2, <1>5, <1>7, <1>9, <2>1, <2>4 DEF LimiterInv
  <1>10. CASE /\ Moved /\ limiter'.reply \in {"accepted", "stale_nonce", "bad_signature"} /\ ~checked.refused
              /\ limiter'.timestamps = checked.timestamps /\ limiter'.admitted = limiter.admitted \cup {e}
    <2>1. Admissions(limiter.admitted \cup {e}, now, n + 1)
      <3>1. IsFiniteSet(limiter.admitted \cup {e})
        BY <1>2, FS_AddElement DEF Admissions
      <3>2. e \in Nat \X Nat \X Buckets /\ e[1] = n /\ e[2] = now
        BY <1>2, <1>3 DEF e
      <3>3. QED
        BY <1>2, <3>1, <3>2 DEF Admissions
    <2>2. Bounded'
      <3>0. now' = now
        BY <1>10 DEF now
      <3>1. ASSUME NEW j \in Buckets, NEW at \in 0 .. now, j # k \/ at # now
            PROVE  Within(j, at)' = Within(j, at)
        <4>1. ~(e[3] = j /\ e[2] <= at)
          BY <1>2, <3>1 DEF e
        <4>2. QED
          BY <1>10, <4>1 DEF Within
      <3>2. Cardinality(Within(k, now)') <= MaxPerWindow
        <4>1. Within(k, now)' \subseteq Within(k, now) \cup {e}
          BY <1>10, <3>0 DEF Within
        <4>2. IsFiniteSet(Within(k, now)) /\ Cardinality(Within(k, now)) < MaxPerWindow
          BY <1>2, <1>7, <1>8, <1>10, WindowNow, IntakeAssumption DEF now, n
        <4>3. /\ IsFiniteSet(Within(k, now) \cup {e})
              /\ Cardinality(Within(k, now) \cup {e}) <= Cardinality(Within(k, now)) + 1
          BY <1>8, <4>2, FS_AddElement
        <4>4. /\ Cardinality(Within(k, now)') <= Cardinality(Within(k, now) \cup {e})
              /\ Cardinality(Within(k, now)') \in Nat /\ Cardinality(Within(k, now) \cup {e}) \in Nat
          BY <4>1, <4>3, FS_Subset, FS_CardinalityType
        <4>5. QED
          BY <1>8, <4>2, <4>3, <4>4, IntakeAssumption
      <3>3. SUFFICES ASSUME NEW j \in Buckets, NEW at \in 0 .. now
                     PROVE  Cardinality(Within(j, at)') <= MaxPerWindow
        BY <1>10 DEF Bounded
      <3>4. CASE j = k /\ at = now
        BY <3>0, <3>2, <3>4
      <3>5. CASE j # k \/ at # now
        BY <1>2, <3>1, <3>5 DEF Bounded, now
      <3>6. QED
        BY <3>4, <3>5
    <2>3. QED
      BY <1>2, <1>7, <1>10, <2>1, <2>2 DEF LimiterInv, RefusedFull
  <1>11. QED
    BY <1>4, <1>6, <1>9, <1>10

\* Whoever signs is refused for its own submissions only, and no signer is
\* admitted more often than the limit within any window: any senders, window and
\* limit, any order of submissions.
THEOREM SignerIsNotCrowdedOut == IntakeSpec => []SignerNotCrowdedOut
  <1>1. IntakeInit => LimiterInv
    BY LimiterStart DEF IntakeInit
  <1>2. LimiterInv /\ [IntakeNext]_intakeVars => LimiterInv'
    <2> SUFFICES ASSUME LimiterInv, [IntakeNext]_intakeVars PROVE LimiterInv'
      OBVIOUS
    <2>1. ASSUME UNCHANGED limiter PROVE LimiterInv'
      BY <2>1 DEF LimiterInv, LimiterTypeOK, Bounded, RefusedFull, Within
    <2>2. LimiterTime \/ Submit \/ UNCHANGED limiter
      BY DEF IntakeNext, intakeVars, Arrive, PlannerTime, Tick, Included, Retryable, Permanent, ReorgedBack
    <2>3. QED
      BY <2>1, <2>2, TimeKept, SubmissionKept
  <1>3. LimiterInv => SignerNotCrowdedOut
    BY DEF LimiterInv, SignerNotCrowdedOut, Bounded, RefusedFull, Within, Buckets
  <1>4. QED
    BY <1>1, <1>2, <1>3, PTL DEF IntakeSpec

-----------------------------------------------------------------------------
(* The comments widget *)

Submission == [epoch : Nat, draft : Nat]
WidgetFields ==
    {"account", "manual", "connects", "epoch", "composing", "drafts", "submitting", "error", "under",
     "steps", "clobbered"}
WidgetTypeOK ==
    /\ widget = [f \in WidgetFields |-> widget[f]]
    /\ widget.submitting \in BOOLEAN /\ widget.clobbered \in BOOLEAN
    /\ widget.epoch \in Nat /\ widget.drafts \in Nat /\ widget.composing \in {NoDraft} \cup Nat
    /\ widget.under \subseteq Submission

\* A form is busy with the one submission of its session; while it is, the
\* draft can be closed and opened again, but not written to.
OneUnderWay ==
    /\ \A run \in widget.under : run.epoch <= widget.epoch
    /\ \A run, other \in widget.under :
          run.epoch = widget.epoch /\ other.epoch = widget.epoch => run = other
    /\ \A run \in widget.under :
          run.epoch = widget.epoch => widget.composing \in {NoDraft, 0, run.draft}
    /\ widget.submitting <=> \E run \in widget.under : run.epoch = widget.epoch
    /\ ~widget.clobbered

WidgetInv ==
    /\ widget.steps \in Nat
    /\ widget.steps <= MaxWidgetSteps => WidgetTypeOK /\ OneUnderWay

WidgetMoves ==
    \/ OnConnect \/ Connected \/ OnDisconnect \/ AccountsChanged \/ OnStartCompose
    \/ OnCancelCompose \/ OnDraftChange \/ OnSubmit \/ SubmitEnds

LEMMA WidgetStart == ASSUME WidgetInit \/ NoWidget PROVE WidgetInv
  <1>1. ASSUME WidgetInit PROVE WidgetInv
    BY <1>1, ClientsAssumption DEF WidgetInit, WidgetInv, WidgetTypeOK, WidgetFields, OneUnderWay, NoDraft
  <1>2. ASSUME NoWidget PROVE WidgetInv
    BY <1>2, ClientsAssumption DEF NoWidget, WidgetInv
  <1>3. QED
    BY <1>1, <1>2

\* A step of the widget itself is one of a widget there is.
LEMMA WidgetIsThere ==
  ASSUME WidgetInv, widget.steps < MaxWidgetSteps
  PROVE  WidgetTypeOK /\ OneUnderWay /\ widget.steps + 1 <= MaxWidgetSteps
  BY ClientsAssumption DEF WidgetInv

LEMMA WidgetStays == ASSUME WidgetInv, WidgetMoves PROVE WidgetInv'
  <1> USE DEF WidgetStep
  <1>1. WidgetTypeOK /\ OneUnderWay /\ widget.steps + 1 <= MaxWidgetSteps /\ widget.steps \in Nat
    <2>1. widget.steps < MaxWidgetSteps
      BY Zenon DEF WidgetMoves, OnConnect, Connected, OnDisconnect, AccountsChanged,
             OnStartCompose, OnCancelCompose, OnDraftChange, OnSubmit, SubmitEnds, Superseded
    <2>2. QED
      BY <2>1, WidgetIsThere DEF WidgetInv
  <1>2. SUFFICES widget'.steps = widget.steps + 1 /\ WidgetTypeOK' /\ OneUnderWay'
    BY <1>1 DEF WidgetInv
  <1> DEFINE Fields == WidgetTypeOK /\ widget' = [f \in WidgetFields |-> widget'[f]]
                       /\ widget'.steps = widget.steps + 1
             Same(f) == widget'[f] = widget[f]
  <1> USE <1>1 DEF WidgetFields
  <1>3. CASE OnConnect
    <2>1. /\ Fields /\ Same("epoch") /\ Same("drafts") /\ Same("composing") /\ Same("submitting")
          /\ Same("clobbered") /\ Same("under")
      BY <1>3 DEF OnConnect, WidgetTypeOK
    <2>2. QED
      BY <2>1 DEF WidgetTypeOK, OneUnderWay
  <1>4. CASE Connected
    <2>1. /\ Fields /\ Same("epoch") /\ Same("drafts") /\ Same("composing") /\ Same("submitting")
          /\ Same("clobbered") /\ Same("under")
      BY <1>4 DEF Connected, WidgetTypeOK
    <2>2. QED
      BY <2>1 DEF WidgetTypeOK, OneUnderWay
  <1>5. CASE OnDisconnect
    <2>1. /\ Fields /\ Same("drafts") /\ Same("clobbered") /\ Same("under")
          /\ widget'.epoch = widget.epoch + 1 /\ widget'.composing = NoDraft /\ ~widget'.submitting
          /\ widget'.submitting \in BOOLEAN
      BY <1>5 DEF OnDisconnect, WidgetTypeOK
    <2>2. WidgetTypeOK' /\ \A run \in widget'.under : run.epoch < widget'.epoch /\ run.epoch \in Nat
      BY <2>1 DEF WidgetTypeOK, OneUnderWay, Submission
    <2>3. \A run \in widget'.under : run.epoch # widget'.epoch /\ run.epoch <= widget'.epoch
      BY <2>2 DEF WidgetTypeOK
    <2>4. QED
      BY <2>1, <2>2, <2>3 DEF OneUnderWay
  <1>6. CASE AccountsChanged
    <2>1. /\ Fields /\ Same("epoch") /\ Same("drafts") /\ Same("submitting")
          /\ Same("clobbered") /\ Same("under") /\ (Same("composing") \/ widget'.composing = NoDraft)
      BY <1>6 DEF AccountsChanged, WidgetTypeOK
    <2>2. QED
      BY <2>1 DEF WidgetTypeOK, OneUnderWay
  <1>7. CASE OnStartCompose
    <2>1. /\ Fields /\ Same("epoch") /\ Same("drafts") /\ Same("submitting") /\ Same("clobbered")
          /\ Same("under")
          /\ widget'.composing = IF widget.composing = NoDraft THEN 0 ELSE widget.composing
      BY <1>7 DEF OnStartCompose, WidgetTypeOK
    <2>2. QED
      BY <2>1 DEF WidgetTypeOK, OneUnderWay
  <1>8. CASE OnCancelCompose
    <2>1. /\ Fields /\ Same("epoch") /\ Same("drafts") /\ Same("submitting")
          /\ Same("clobbered") /\ Same("under") /\ widget'.composing = NoDraft
      BY <1>8 DEF OnCancelCompose, WidgetTypeOK
    <2>2. QED
      BY <2>1 DEF WidgetTypeOK, OneUnderWay
  <1>9. CASE OnDraftChange
    <2>1. /\ Fields /\ Same("epoch") /\ Same("submitting") /\ Same("clobbered") /\ Same("under")
          /\ widget'.drafts = widget.drafts + 1 /\ widget'.composing = widget.drafts + 1
          /\ ~widget.submitting
      BY <1>9 DEF OnDraftChange, WidgetTypeOK
    <2>2. QED
      BY <2>1 DEF WidgetTypeOK, OneUnderWay
  <1>10. CASE OnSubmit
    <2>1. /\ Fields /\ Same("epoch") /\ Same("drafts") /\ Same("composing") /\ Same("clobbered")
          /\ widget'.under = widget.under \cup {[epoch |-> widget.epoch, draft |-> widget.composing]}
          /\ widget'.submitting = TRUE /\ ~widget.submitting /\ widget.composing > 0
      BY <1>10 DEF OnSubmit, WidgetTypeOK
    <2>2. [epoch |-> widget.epoch, draft |-> widget.composing] \in Submission
      BY <2>1 DEF WidgetTypeOK, Submission, NoDraft
    <2>3. WidgetTypeOK'
      BY <2>1, <2>2 DEF WidgetTypeOK
    <2>4. \A run \in widget.under : run.epoch < widget.epoch
      <3>1. \A run \in widget.under : run.epoch # widget.epoch /\ run.epoch <= widget.epoch
        BY <2>1 DEF OneUnderWay
      <3>2. \A run \in widget.under : run.epoch \in Nat
        BY DEF WidgetTypeOK, Submission
      <3>3. QED
        BY <3>1, <3>2 DEF WidgetTypeOK
    <2>5. \A run \in widget'.under :
            \/ run.epoch < widget.epoch
            \/ run = [epoch |-> widget.epoch, draft |-> widget.composing]
      BY <2>1, <2>4
    <2>6. \E run \in widget'.under : run.epoch = widget.epoch
      <3>1. [epoch |-> widget.epoch, draft |-> widget.composing] \in widget'.under
        BY <2>1
      <3>2. QED
        BY <3>1
    <2>7. OneUnderWay'
      <3>1. \A run \in widget'.under : run.epoch \in Nat /\ widget.epoch \in Nat
        BY <2>3, <2>1 DEF WidgetTypeOK, Submission
      <3>2. ~widget.clobbered
        BY DEF OneUnderWay
      <3>3. QED
        BY <2>1, <2>5, <2>6, <3>1, <3>2 DEF OneUnderWay
    <2>8. QED
      BY <2>1, <2>3, <2>7
  <1>11. CASE SubmitEnds
    <2>1. PICK run \in widget.under :
            /\ Fields /\ Same("epoch") /\ Same("drafts") /\ widget'.under = widget.under \ {run}
            /\ \/ run.epoch # widget.epoch /\ Same("composing") /\ Same("submitting") /\ Same("clobbered")
               \/ /\ run.epoch = widget.epoch /\ ~widget'.submitting /\ widget'.submitting \in BOOLEAN
                  /\ \/ /\ widget'.composing = NoDraft
                        /\ widget'.clobbered = (widget.clobbered \/ widget.composing \notin {NoDraft, 0, run.draft})
                     \/ Same("composing") /\ Same("clobbered")
      BY <1>11, ZenonT(60) DEF SubmitEnds, Superseded, WidgetTypeOK
    <2>2. WidgetTypeOK'
      BY <2>1 DEF WidgetTypeOK
    <2>3. OneUnderWay'
      BY <2>1 DEF WidgetTypeOK, OneUnderWay
    <2>4. QED
      BY <2>1, <2>2, <2>3
  <1>12. QED
    BY <1>3, <1>4, <1>5, <1>6, <1>7, <1>8, <1>9, <1>10, <1>11 DEF WidgetMoves

-----------------------------------------------------------------------------
(* The wallet's submissions *)

RunFields == {"phase", "nonce", "first", "attempt", "told"}
RunTypeOK(run) ==
    /\ run = [f \in RunFields |-> run[f]]
    /\ run.phase \in {"nonce", "posting", "ok", "stale", "refused", "over"}
    /\ run.nonce \in Int /\ run.first \in Int /\ run.attempt \in Nat
    /\ run.told = "nothing" <=> run.phase # "over"

WalletTypeOK ==
    /\ wallet = [f \in {"accepted", "late", "run"} |-> wallet[f]]
    /\ wallet.run = [r \in DOMAIN wallet.run |-> wallet.run[r]]
    /\ wallet.accepted \in Seq(DOMAIN wallet.run)
    /\ wallet.late \subseteq (DOMAIN wallet.run) \X Nat
    /\ \A r \in DOMAIN wallet.run : RunTypeOK(wallet.run[r])

NotAccepted(r) == \A n \in DOMAIN wallet.accepted : wallet.accepted[n] # r

\* A message is accepted once; a request under way is of a run given up, and the
\* only one of it.
AcceptedOnce ==
    /\ \A m, n \in DOMAIN wallet.accepted : wallet.accepted[m] = wallet.accepted[n] => m = n
    /\ \A q \in wallet.late :
          /\ NotAccepted(q[1]) /\ wallet.run[q[1]].told = "error"
          /\ \A other \in wallet.late : other[1] = q[1] => other = q

\* The wallet's nonces have gone on since the run's first, once for each attempt.
Outrun(run, by) == 0 <= run.first /\ run.first + by <= NextNonce
Posted(r, run) ==
    \E n \in DOMAIN wallet.accepted : TextOf[wallet.accepted[n]] = TextOf[r] /\ n > run.first

\* What a run knows, and what its user is told, of the wallet's messages.
Knows(r, run) ==
    /\ run.phase \in {"nonce", "posting", "stale", "refused"} => NotAccepted(r)
    /\ run.told \in {"stale_nonce", "refused"} => NotAccepted(r)
    /\ run.phase = "nonce" => run.attempt = 0 \/ Outrun(run, run.attempt)
    /\ run.phase = "posting" =>
          Outrun(run, run.attempt) /\ run.first + run.attempt <= run.nonce /\ run.nonce <= NextNonce
    /\ run.phase = "stale" => Outrun(run, run.attempt + 1)
    /\ run.phase = "ok" \/ run.told = "sent" => Posted(r, run)
    /\ run.told = "stale_nonce" => Outrun(run, MaxStaleRetries + 1)

WalletInv ==
    WalletTypeOK /\ AcceptedOnce /\ \A r \in DOMAIN wallet.run : Knows(r, wallet.run[r])

WalletMoves ==
    \/ NextNonceForSender \/ Deliver \/ Decline \/ RawFetchTimeout \/ DeliverLate \/ React

LEMMA WalletStart == ASSUME WalletInit \/ NoWallet PROVE WalletInv
  <1> USE DEF WalletInv, WalletTypeOK, RunTypeOK, RunFields, NotAccepted, AcceptedOnce, Knows
  <1>1. ASSUME WalletInit PROVE WalletInv
    <2>1. /\ wallet.accepted = <<>> /\ wallet.late = {} /\ DOMAIN wallet.run = Runs
          /\ wallet = [f \in {"accepted", "late", "run"} |-> wallet[f]]
          /\ \A r \in Runs : wallet.run[r] =
               [phase |-> "nonce", nonce |-> -1, first |-> -1, attempt |-> 0, told |-> "nothing"]
          /\ wallet.run = [r \in Runs |-> wallet.run[r]]
      BY <1>1 DEF WalletInit
    <2>2. WalletTypeOK /\ AcceptedOnce
      BY <2>1
    <2>3. QED
      BY <2>1, <2>2
  <1>2. ASSUME NoWallet PROVE WalletInv
    BY <1>2 DEF NoWallet
  <1>3. QED
    BY <1>1, <1>2

\* One run changes, the wallet's messages do not.
LEMMA RunMoves ==
  ASSUME WalletInv, NEW r \in DOMAIN wallet.run, NEW new,
         wallet' = [wallet EXCEPT !.run = [wallet.run EXCEPT ![r] = new]],
         \A q \in wallet.late : q[1] # r,
         RunTypeOK(new), Knows(r, new)
  PROVE  WalletInv'
  <1> USE DEF WalletInv
  <1>1. /\ wallet' = [f \in {"accepted", "late", "run"} |-> wallet'[f]]
        /\ wallet'.run = [wallet.run EXCEPT ![r] = new]
        /\ wallet'.accepted = wallet.accepted /\ wallet'.late = wallet.late
    BY DEF WalletTypeOK
  <1>2. /\ DOMAIN wallet'.run = DOMAIN wallet.run
        /\ wallet'.run = [s \in DOMAIN wallet'.run |-> wallet'.run[s]]
        /\ wallet'.run[r] = new
        /\ \A s \in DOMAIN wallet.run : s # r => wallet'.run[s] = wallet.run[s]
    BY <1>1 DEF WalletTypeOK
  <1>3. WalletTypeOK'
    BY <1>1, <1>2 DEF WalletTypeOK
  <1>4. AcceptedOnce'
    BY <1>1, <1>2 DEF WalletTypeOK, AcceptedOnce, NotAccepted
  <1>5. /\ \A s : NotAccepted(s)' = NotAccepted(s)
        /\ NextNonce' = NextNonce
    BY <1>1 DEF NotAccepted, NextNonce
  <1>6. ASSUME NEW s \in DOMAIN wallet.run PROVE Knows(s, wallet.run[s])'
    <2>1. Knows(s, wallet'.run[s])
      BY <1>2
    <2>2. QED
      BY <1>1, <1>5, <2>1 DEF Knows, Outrun, Posted
  <1>7. QED
    BY <1>2, <1>3, <1>4, <1>6

\* A run that is not given up has no request under way.
LEMMA NoneUnderWay ==
  ASSUME WalletInv, NEW r \in DOMAIN wallet.run, wallet.run[r].phase # "over"
  PROVE  \A q \in wallet.late : q[1] # r
  BY DEF WalletInv, WalletTypeOK, RunTypeOK, AcceptedOnce

\* Telling the user something of its run.
LEMMA RunIsOver ==
  ASSUME WalletInv, NEW r \in DOMAIN wallet.run, wallet.run[r].phase # "over",
         NEW what \in {"error", "sent", "refused", "stale_nonce"},
         wallet' = Told(r, what),
         what = "sent" => wallet.run[r].phase = "ok",
         what \in {"refused", "stale_nonce"} => wallet.run[r].phase \in {"refused", "stale"},
         what = "stale_nonce" =>
            wallet.run[r].phase = "stale" /\ wallet.run[r].attempt = MaxStaleRetries
  PROVE  WalletInv'
  <1> DEFINE new == [wallet.run[r] EXCEPT !.phase = "over", !.told = what]
  <1>1. RunTypeOK(wallet.run[r]) /\ Knows(r, wallet.run[r])
    BY DEF WalletInv, WalletTypeOK
  <1>2. /\ RunTypeOK(new) /\ new.phase = "over" /\ new.told = what
        /\ new.first = wallet.run[r].first
    BY <1>1 DEF RunTypeOK, RunFields
  <1>3. Knows(r, new)
    BY <1>1, <1>2 DEF Knows, Outrun, Posted
  <1>4. wallet' = [wallet EXCEPT !.run = [wallet.run EXCEPT ![r] = new]]
    BY DEF Told, WalletInv, WalletTypeOK
  <1> HIDE DEF new
  <1>5. QED
    BY <1>2, <1>3, <1>4, RunMoves, NoneUnderWay

LEMMA NonceKept == ASSUME WalletInv, NextNonceForSender PROVE WalletInv'
  <1>1. PICK r \in DOMAIN wallet.run :
          /\ wallet.run[r].phase = "nonce"
          /\ \/ wallet' = [wallet EXCEPT
                  !.run[r].phase = "posting",
                  !.run[r].nonce = NextNonce,
                  !.run[r].first = IF wallet.run[r].attempt = 0 THEN NextNonce ELSE @]
             \/ wallet' = Told(r, "error")
    BY DEF NextNonceForSender
  <1>2. CASE wallet' = Told(r, "error")
    BY <1>1, <1>2, RunIsOver
  <1>3. CASE wallet' = [wallet EXCEPT
                  !.run[r].phase = "posting",
                  !.run[r].nonce = NextNonce,
                  !.run[r].first = IF wallet.run[r].attempt = 0 THEN NextNonce ELSE @]
    <2> DEFINE new == [wallet.run[r] EXCEPT !.phase = "posting", !.nonce = NextNonce,
                         !.first = IF wallet.run[r].attempt = 0 THEN NextNonce ELSE @]
          run == wallet.run[r]
    <2>1. RunTypeOK(run) /\ Knows(r, run) /\ NextNonce \in Nat /\ run.phase = "nonce"
      BY <1>1 DEF WalletInv, WalletTypeOK, NextNonce
    <2>a. new = [run EXCEPT !.phase = "posting", !.nonce = NextNonce,
                   !.first = IF run.attempt = 0 THEN NextNonce ELSE @]
      OBVIOUS
    <2>2. /\ RunTypeOK(new) /\ new.phase = "posting" /\ new.told = "nothing"
          /\ new.nonce = NextNonce /\ new.attempt = run.attempt
          /\ new.first = IF run.attempt = 0 THEN NextNonce ELSE run.first
      <3> HIDE DEF run, new
      <3>1. /\ new = [f \in RunFields |-> new[f]] /\ new.told = run.told
            /\ new.phase = "posting" /\ new.nonce = NextNonce /\ new.attempt = run.attempt
            /\ new.first = IF run.attempt = 0 THEN NextNonce ELSE run.first
        BY <2>1, <2>a DEF RunTypeOK, RunFields
      <3>2. run.told = "nothing" /\ run.first \in Int /\ run.attempt \in Nat
        BY <2>1 DEF RunTypeOK
      <3>3. new.first \in Int
        BY <2>1, <3>1, <3>2
      <3>4. QED
        BY <2>1, <3>1, <3>2, <3>3 DEF RunTypeOK
    <2>3. Knows(r, new)
      <3> HIDE DEF run, new
      <3>1. QED
        BY <2>1, <2>2 DEF Knows, Outrun, RunTypeOK
    <2>4. wallet' = [wallet EXCEPT !.run = [wallet.run EXCEPT ![r] = new]]
      BY <1>3, ZenonT(60) DEF WalletInv, WalletTypeOK
    <2> HIDE DEF new
    <2>5. QED
      BY <1>1, <2>2, <2>3, <2>4, RunMoves, NoneUnderWay
  <1>4. QED
    BY <1>1, <1>2, <1>3

LEMMA ReactionKept == ASSUME WalletInv, React PROVE WalletInv'
  <1>1. PICK r \in DOMAIN wallet.run :
          \/ wallet.run[r].phase = "ok" /\ wallet' = Told(r, "sent")
          \/ wallet.run[r].phase = "refused" /\ wallet' = Told(r, "refused")
          \/ /\ wallet.run[r].phase = "stale" /\ wallet.run[r].attempt = MaxStaleRetries
             /\ wallet' = Told(r, "stale_nonce")
          \/ /\ wallet.run[r].phase = "stale" /\ wallet.run[r].attempt < MaxStaleRetries
             /\ wallet' = TryAgain(r)
    BY DEF React
  <1>2. CASE wallet.run[r].phase = "stale" /\ wallet' = TryAgain(r)
    <2> DEFINE new == [wallet.run[r] EXCEPT !.phase = "nonce", !.attempt = @ + 1]
          run == wallet.run[r]
    <2>1. RunTypeOK(run) /\ Knows(r, run) /\ NextNonce \in Nat /\ run.phase = "stale"
      BY <1>2 DEF WalletInv, WalletTypeOK, NextNonce
    <2>a. new = [run EXCEPT !.phase = "nonce", !.attempt = @ + 1]
      OBVIOUS
    <2>2. /\ RunTypeOK(new) /\ new.phase = "nonce" /\ new.told = "nothing"
          /\ new.attempt = run.attempt + 1 /\ new.first = run.first
      <3> HIDE DEF run, new
      <3>1. /\ new = [f \in RunFields |-> new[f]] /\ new.told = run.told
            /\ new.phase = "nonce" /\ new.nonce = run.nonce /\ new.attempt = run.attempt + 1
            /\ new.first = run.first
        BY <2>1, <2>a DEF RunTypeOK, RunFields
      <3>2. run.told = "nothing" /\ run.first \in Int /\ run.attempt \in Nat /\ run.nonce \in Int
        BY <2>1 DEF RunTypeOK
      <3>3. QED
        BY <2>1, <3>1, <3>2 DEF RunTypeOK
    <2>3. Knows(r, new)
      <3> HIDE DEF run, new
      <3>1. QED
        BY <2>1, <2>2 DEF Knows, Outrun, RunTypeOK
    <2>4. wallet' = [wallet EXCEPT !.run = [wallet.run EXCEPT ![r] = new]]
      BY <1>2 DEF TryAgain, WalletInv, WalletTypeOK
    <2> HIDE DEF new
    <2>5. QED
      BY <1>2, <2>2, <2>3, <2>4, RunMoves, NoneUnderWay
  <1>3. QED
    BY <1>1, <1>2, RunIsOver

\* The Poster takes a message of a run that had none.
LEMMA MessageTaken ==
  ASSUME WalletInv, NEW r \in DOMAIN wallet.run, NotAccepted(r),
         wallet' = [f \in {"accepted", "late", "run"} |-> wallet'[f]],
         wallet'.accepted = Append(wallet.accepted, r),
         wallet'.late \subseteq wallet.late, \A q \in wallet'.late : q[1] # r,
         DOMAIN wallet'.run = DOMAIN wallet.run,
         wallet'.run = [s \in DOMAIN wallet.run |-> wallet'.run[s]],
         \A s \in DOMAIN wallet.run : s # r => wallet'.run[s] = wallet.run[s],
         RunTypeOK(wallet'.run[r]),
         wallet'.run[r].phase \in {"ok", "over"}, wallet'.run[r].told \in {"nothing", "error"},
         wallet'.run[r].phase = "ok" =>
            0 <= wallet'.run[r].first /\ wallet'.run[r].first <= NextNonce
  PROVE  WalletInv'
  <1> USE DEF WalletInv
  <1>1. /\ wallet.accepted \in Seq(DOMAIN wallet.run) /\ NextNonce \in Nat
        /\ NextNonce' = NextNonce + 1
        /\ DOMAIN wallet'.accepted = 1 .. NextNonce + 1 /\ DOMAIN wallet.accepted = 1 .. NextNonce
        /\ \A n \in 1 .. NextNonce : wallet'.accepted[n] = wallet.accepted[n]
        /\ wallet'.accepted[NextNonce + 1] = r
        /\ wallet'.accepted \in Seq(DOMAIN wallet.run)
    BY DEF WalletTypeOK, NextNonce
  <1>2. WalletTypeOK'
    BY <1>1 DEF WalletTypeOK
  <1>3. \A s : s # r /\ NotAccepted(s) => NotAccepted(s)'
    BY <1>1 DEF NotAccepted
  <1>4. AcceptedOnce'
    <2>1. \A m, n \in DOMAIN wallet'.accepted : wallet'.accepted[m] = wallet'.accepted[n] => m = n
      <3>1. \A m \in DOMAIN wallet'.accepted : m = NextNonce + 1 \/ m \in DOMAIN wallet.accepted
        BY <1>1
      <3>2. QED
        BY <1>1, <3>1 DEF AcceptedOnce, NotAccepted
    <2>2. \A q \in wallet'.late : q[1] \in DOMAIN wallet.run /\ q[1] # r
      BY DEF WalletTypeOK
    <2>3. \A q \in wallet'.late : NotAccepted(q[1])' /\ wallet'.run[q[1]].told = "error"
      BY <1>3, <2>2 DEF AcceptedOnce
    <2>4. QED
      BY <2>1, <2>3 DEF AcceptedOnce
  <1>5. ASSUME NEW s \in DOMAIN wallet.run PROVE Knows(s, wallet.run[s])'
    <2>1. CASE s # r
      <3>1. Knows(s, wallet'.run[s]) /\ RunTypeOK(wallet'.run[s])
        BY <2>1 DEF WalletTypeOK
      <3>2. Posted(s, wallet'.run[s]) => Posted(s, wallet.run[s])'
        BY <1>1 DEF Posted
      <3>3. QED
        <4>1. \A by \in Int : Outrun(wallet'.run[s], by) => Outrun(wallet.run[s], by)'
          BY <1>1, <3>1 DEF Outrun, RunTypeOK
        <4>2. wallet'.run[s].attempt \in Nat /\ wallet'.run[s].nonce \in Int /\ MaxStaleRetries + 1 \in Int
          BY <3>1, ClientsAssumption DEF RunTypeOK
        <4>3. (NotAccepted(s) => NotAccepted(s)') /\ NextNonce' = NextNonce + 1 /\ NextNonce \in Nat
          BY <1>1, <1>3, <2>1
        <4>4. QED
          BY <3>1, <3>2, <4>1, <4>2, <4>3 DEF Knows
    <2>2. CASE s = r
      <3>1. wallet'.run[r].phase = "ok" => Posted(r, wallet.run[r])'
        <4>1. /\ NextNonce + 1 \in DOMAIN wallet'.accepted
              /\ TextOf[wallet'.accepted[NextNonce + 1]] = TextOf[r]
          BY <1>1
        <4>2. wallet'.run[r].phase = "ok" => NextNonce + 1 > wallet'.run[r].first
          BY <1>1 DEF RunTypeOK
        <4>3. QED
          BY <4>1, <4>2 DEF Posted
      <3>2. QED
        BY <2>2, <3>1 DEF Knows
    <2>3. QED
      BY <2>1, <2>2
  <1>6. QED
    BY <1>2, <1>4, <1>5

LEMMA DeliveryKept == ASSUME WalletInv, Deliver PROVE WalletInv'
  <1>1. PICK r \in DOMAIN wallet.run :
          /\ wallet.run[r].phase = "posting"
          /\ \/ wallet' = [wallet EXCEPT
                    !.accepted = PosterTakes(r, wallet.run[r].nonce),
                    !.run[r].phase = IF Answer(r, wallet.run[r].nonce) = "stale_nonce" THEN "stale" ELSE "ok"]
             \/ wallet' = [wallet EXCEPT !.run[r].phase = "refused"]
    BY DEF Deliver
  <1> DEFINE run == wallet.run[r]
             new(phase) == [run EXCEPT !.phase = phase]
  <1>2. /\ RunTypeOK(run) /\ Knows(r, run) /\ run.phase = "posting" /\ NextNonce \in Nat
        /\ \A q \in wallet.late : q[1] # r
    BY <1>1, NoneUnderWay DEF WalletInv, WalletTypeOK, NextNonce
  <1>3. ASSUME NEW phase \in {"refused", "ok", "stale"}
        PROVE  /\ RunTypeOK(new(phase)) /\ new(phase).phase = phase /\ new(phase).told = "nothing"
               /\ new(phase).first = run.first /\ new(phase).attempt = run.attempt
    <2> HIDE DEF run
    <2>1. QED
      BY <1>2 DEF RunTypeOK, RunFields
  <1>4. 0 <= run.first /\ run.first + run.attempt <= run.nonce /\ run.nonce <= NextNonce /\ NotAccepted(r)
    BY <1>2 DEF Knows, Outrun
  <1>5. ASSUME NEW phase \in {"refused", "ok", "stale"}, Knows(r, new(phase)),
               wallet' = [wallet EXCEPT !.run[r].phase = phase]
        PROVE  WalletInv'
    <2>1. wallet' = [wallet EXCEPT !.run = [wallet.run EXCEPT ![r] = new(phase)]]
      BY <1>5 DEF WalletInv, WalletTypeOK
    <2>2. RunTypeOK(new(phase))
      BY <1>3
    <2> HIDE DEF new, run
    <2>3. QED
      BY <1>2, <1>5, <2>1, <2>2, RunMoves
  <1>6. CASE wallet' = [wallet EXCEPT !.run[r].phase = "refused"]
    <2>1. Knows(r, new("refused"))
      BY <1>3, <1>4 DEF Knows
    <2>2. QED
      BY <1>5, <1>6, <2>1
  <1>7. CASE wallet' = [wallet EXCEPT
                    !.accepted = PosterTakes(r, run.nonce),
                    !.run[r].phase = IF Answer(r, run.nonce) = "stale_nonce" THEN "stale" ELSE "ok"]
    <2>1. CASE Answer(r, run.nonce) = "accepted"
      <3>1. /\ wallet' = [f \in {"accepted", "late", "run"} |-> wallet'[f]]
            /\ wallet'.accepted = Append(wallet.accepted, r) /\ wallet'.late = wallet.late
            /\ wallet'.run = [wallet.run EXCEPT ![r] = new("ok")]
        BY <1>7, <2>1 DEF PosterTakes, WalletInv, WalletTypeOK
      <3>2. /\ DOMAIN wallet'.run = DOMAIN wallet.run /\ wallet'.run[r] = new("ok")
            /\ wallet'.run = [s \in DOMAIN wallet.run |-> wallet'.run[s]]
            /\ \A s \in DOMAIN wallet.run : s # r => wallet'.run[s] = wallet.run[s]
        BY <3>1 DEF WalletInv, WalletTypeOK
      <3>3. new("ok").first <= NextNonce /\ 0 <= new("ok").first
        BY <1>2, <1>3, <1>4 DEF RunTypeOK
      <3>4. RunTypeOK(new("ok")) /\ new("ok").told = "nothing" /\ new("ok").phase = "ok"
        BY <1>3
      <3> HIDE DEF new, run
      <3>5. QED
        BY <1>2, <1>4, <3>1, <3>2, <3>3, <3>4, MessageTaken
    <2>2. CASE Answer(r, run.nonce) = "repeated"
      <3>1. wallet' = [wallet EXCEPT !.run[r].phase = "ok"]
        BY <1>7, <2>2 DEF PosterTakes, WalletInv, WalletTypeOK
      <3>2. /\ run.nonce = NextNonce - 1 /\ run.nonce \in Int
            /\ TextOf[wallet.accepted[NextNonce]] = TextOf[r]
        BY <1>2, <2>2 DEF Answer, RunTypeOK
      <3>3. NextNonce \in DOMAIN wallet.accepted /\ NextNonce > run.first
        <4>1. run.first \in Int /\ run.attempt \in Nat
          BY <1>2 DEF RunTypeOK
        <4>2. DOMAIN wallet.accepted = 1 .. NextNonce
          BY DEF NextNonce, WalletInv, WalletTypeOK
        <4> HIDE DEF run
        <4>3. QED
          BY <1>2, <1>4, <3>2, <4>1, <4>2
      <3>4. Knows(r, new("ok"))
        BY <1>3, <3>2, <3>3 DEF Knows, Posted
      <3>5. QED
        BY <1>5, <3>1, <3>4
    <2>3. CASE Answer(r, run.nonce) = "stale_nonce"
      <3>1. wallet' = [wallet EXCEPT !.run[r].phase = "stale"]
        BY <1>7, <2>3 DEF PosterTakes, WalletInv, WalletTypeOK
      <3>2. run.nonce < NextNonce
        BY <1>2, <2>3 DEF Answer, RunTypeOK
      <3>3. Outrun(new("stale"), new("stale").attempt + 1)
        <4>1. run.first \in Int /\ run.attempt \in Nat /\ run.nonce \in Int
          BY <1>2 DEF RunTypeOK
        <4>2. run.first + (run.attempt + 1) <= NextNonce
          <5> HIDE DEF run
          <5>1. QED
            BY <1>2, <1>4, <3>2, <4>1
        <4>3. QED
          BY <1>3, <1>4, <4>2 DEF Outrun
      <3>4. Knows(r, new("stale"))
        BY <1>3, <1>4, <3>3 DEF Knows
      <3>5. QED
        BY <1>5, <3>1, <3>4
    <2>4. QED
      BY <2>1, <2>2, <2>3 DEF Answer
  <1>8. QED
    BY <1>1, <1>6, <1>7, SMTT(30)

\* A request given up leaves the run over, and may reach the Poster yet.
LEMMA TimeoutKept == ASSUME WalletInv, RawFetchTimeout PROVE WalletInv'
  <1>1. PICK r \in DOMAIN wallet.run :
          /\ wallet.run[r].phase \in {"posting", "ok", "stale", "refused"}
          /\ wallet' = [Told(r, "error") EXCEPT
                        !.late = IF wallet.run[r].phase = "posting" THEN @ \cup {<<r, wallet.run[r].nonce>>}
                                 ELSE @]
    BY DEF RawFetchTimeout
  <1>2. CASE wallet.run[r].phase # "posting"
    <2>1. wallet' = Told(r, "error")
      BY <1>1, <1>2 DEF Told, WalletInv, WalletTypeOK
    <2>2. QED
      BY <1>1, <2>1, RunIsOver
  <1>3. CASE wallet.run[r].phase = "posting"
    <2> DEFINE new == [wallet.run[r] EXCEPT !.phase = "over", !.told = "error"]
               request == <<r, wallet.run[r].nonce>>
    <2>1. /\ wallet' = [f \in {"accepted", "late", "run"} |-> wallet'[f]]
          /\ wallet'.accepted = wallet.accepted /\ wallet'.late = wallet.late \cup {request}
          /\ wallet'.run = [wallet.run EXCEPT ![r] = new]
      BY <1>1, <1>3 DEF Told, WalletInv, WalletTypeOK
    <2>2. /\ RunTypeOK(wallet.run[r]) /\ Knows(r, wallet.run[r]) /\ NextNonce \in Nat
          /\ \A q \in wallet.late : q[1] # r
      BY <1>3, NoneUnderWay DEF WalletInv, WalletTypeOK, NextNonce
    <2>3. RunTypeOK(new) /\ new.phase = "over" /\ new.told = "error"
      BY <2>2 DEF RunTypeOK, RunFields
    <2>4. NotAccepted(r) /\ wallet.run[r].nonce \in Nat
      BY <1>3, <2>2 DEF Knows, Outrun, RunTypeOK
    <2> HIDE DEF new
    <2>5. /\ DOMAIN wallet'.run = DOMAIN wallet.run /\ wallet'.run[r] = new
          /\ wallet'.run = [s \in DOMAIN wallet.run |-> wallet'.run[s]]
          /\ \A s \in DOMAIN wallet.run : s # r => wallet'.run[s] = wallet.run[s]
      BY <2>1 DEF WalletInv, WalletTypeOK
    <2>6. WalletTypeOK'
      BY <2>1, <2>3, <2>4, <2>5 DEF WalletInv, WalletTypeOK
    <2>7. \A s : NotAccepted(s)' = NotAccepted(s)
      BY <2>1 DEF NotAccepted
    <2>8. AcceptedOnce'
      <3>1. AcceptedOnce
        BY DEF WalletInv
      <3>2. \A q \in wallet.late : wallet'.run[q[1]].told = "error"
        BY <2>2, <2>5, <3>1 DEF WalletInv, WalletTypeOK, AcceptedOnce
      <3>3. wallet'.run[request[1]].told = "error" /\ NotAccepted(request[1])' /\ request[1] = r
        BY <2>3, <2>4, <2>5, <2>7
      <3>4. \A q \in wallet'.late : NotAccepted(q[1])' /\ wallet'.run[q[1]].told = "error"
        BY <2>1, <2>7, <3>1, <3>2, <3>3 DEF AcceptedOnce
      <3>5. \A q, other \in wallet'.late : other[1] = q[1] => other = q
        BY <2>1, <2>2, <3>1, <3>3 DEF AcceptedOnce
      <3> HIDE DEF request
      <3>6. QED
        BY <2>1, <3>1, <3>4, <3>5 DEF AcceptedOnce
    <2>9. ASSUME NEW s \in DOMAIN wallet.run PROVE Knows(s, wallet.run[s])'
      <3>1. NextNonce' = NextNonce
        BY <2>1 DEF NextNonce
      <3>2. CASE s # r
        BY <2>1, <2>5, <2>7, <3>1, <3>2 DEF WalletInv, Knows, Outrun, Posted
      <3>3. CASE s = r
        BY <2>3, <2>5, <3>3 DEF Knows
      <3>4. QED
        BY <3>2, <3>3
    <2>10. QED
      BY <2>5, <2>6, <2>8, <2>9 DEF WalletInv
  <1>4. QED
    BY <1>2, <1>3

LEMMA LateKept == ASSUME WalletInv, DeliverLate PROVE WalletInv'
  <1>1. PICK q \in wallet.late :
          wallet' = [wallet EXCEPT !.late = @ \ {q}, !.accepted = PosterTakes(q[1], q[2])]
    BY DEF DeliverLate
  <1>2. /\ wallet' = [f \in {"accepted", "late", "run"} |-> wallet'[f]]
        /\ wallet'.accepted = PosterTakes(q[1], q[2]) /\ wallet'.late = wallet.late \ {q}
        /\ wallet'.run = wallet.run
    BY <1>1 DEF WalletInv, WalletTypeOK
  <1>3. /\ q[1] \in DOMAIN wallet.run /\ NotAccepted(q[1]) /\ wallet.run[q[1]].told = "error"
        /\ RunTypeOK(wallet.run[q[1]]) /\ \A other \in wallet'.late : other[1] # q[1]
    BY <1>2 DEF WalletInv, WalletTypeOK, AcceptedOnce
  <1>4. wallet.run[q[1]].phase = "over"
    BY <1>3 DEF RunTypeOK
  <1>5. CASE wallet'.accepted = wallet.accepted
    <2>1. WalletTypeOK'
      BY <1>2, <1>5 DEF WalletInv, WalletTypeOK
    <2>2. AcceptedOnce'
      BY <1>2, <1>5 DEF WalletInv, AcceptedOnce, NotAccepted
    <2>3. \A s \in DOMAIN wallet.run : Knows(s, wallet.run[s])'
      BY <1>2, <1>5 DEF WalletInv, Knows, Outrun, Posted, NotAccepted, NextNonce
    <2>4. QED
      BY <1>2, <2>1, <2>2, <2>3 DEF WalletInv
  <1>6. CASE wallet'.accepted = Append(wallet.accepted, q[1])
    <2>1. wallet.run = [s \in DOMAIN wallet.run |-> wallet.run[s]]
      BY DEF WalletInv, WalletTypeOK
    <2>2. QED
      BY <1>2, <1>3, <1>4, <1>6, <2>1, MessageTaken
  <1>7. QED
    BY <1>2, <1>5, <1>6 DEF PosterTakes

LEMMA WalletStays == ASSUME WalletInv, WalletMoves PROVE WalletInv'
  <1>1. CASE Decline
    <2>1. PICK r \in DOMAIN wallet.run : wallet.run[r].phase = "posting" /\ wallet' = Told(r, "error")
      BY <1>1 DEF Decline
    <2>2. QED
      BY <2>1, RunIsOver
  <1>2. QED
    BY <1>1, NonceKept, DeliveryKept, TimeoutKept, LateKept, ReactionKept DEF WalletMoves

-----------------------------------------------------------------------------
(* The feeds *)

\* A list of rows has each of some messages once, and no other.
ListsOnce(list, ids) ==
    /\ \E S : list \in Seq(S)
    /\ \A n \in DOMAIN list : list[n].id \in ids
    /\ \A i \in ids : \E n \in DOMAIN list : list[n].id = i
    /\ \A m, n \in DOMAIN list : list[m].id = list[n].id => m = n

LEMMA RowsListed ==
  ASSUME NEW ids, IsFiniteSet(ids), NEW status
  PROVE  ListsOnce(Rows(ids, status), ids)
  <1> DEFINE row(i) == [id |-> i, status |-> status]
             T == {row(i) : i \in ids}
             n == Cardinality(T)
             f == [i \in ids |-> row(i)]
             s == Rows(ids, status)
  <1>1. IsFiniteSet(T) /\ n \in Nat
    <2>1. f \in Surjection(ids, T)
      BY DEF Surjection
    <2> HIDE DEF f, T
    <2>2. QED
      BY <2>1, FS_Surjection, FS_CardinalityType
  <1>2. s \in [1 .. n -> T] /\ IsInjective(s)
    <2>1. s = CHOOSE g \in [1 .. n -> T] : IsInjective(g)
      BY DEF Rows, SetToSeq
    <2> HIDE DEF T
    <2>2. PICK g : g \in Bijection(1 .. n, T)
      BY <1>1, FS_CardinalityType DEF ExistsBijection
    <2>3. g \in [1 .. n -> T] /\ IsInjective(g)
      BY <2>2 DEF Bijection, Injection, IsInjective
    <2> HIDE DEF s
    <2>4. QED
      BY <2>1, <2>3
  <1>3. s \in Surjection(1 .. n, T)
    <2> HIDE DEF T, s
    <2>1. s \in Injection(1 .. n, T)
      BY <1>2 DEF Injection
    <2>2. Cardinality(1 .. n) = n
      BY <1>1, FS_Interval
    <2>3. QED
      BY <1>1, <2>1, <2>2, FS_Injection
  <1>4. \A t \in T : t.id \in ids /\ t = row(t.id)
    OBVIOUS
  <1>5. \A i \in ids : row(i) \in T /\ row(i).id = i
    OBVIOUS
  <1>6. s \in Seq(T)
    <2> HIDE DEF s, T
    <2>1. QED
      BY <1>1, <1>2
  <1>7. DOMAIN s = 1 .. n
    BY <1>2
  <1> HIDE DEF s, T, row
  <1>8. \A m \in DOMAIN s : s[m].id \in ids /\ s[m] \in T
    BY <1>2, <1>4, <1>7
  <1>9. \A i \in ids : \E m \in DOMAIN s : s[m].id = i
    BY <1>3, <1>5, <1>7 DEF Surjection
  <1>10. \A m, k \in DOMAIN s : s[m].id = s[k].id => m = k
    <2>1. SUFFICES ASSUME NEW m \in DOMAIN s, NEW k \in DOMAIN s, s[m].id = s[k].id PROVE m = k
      OBVIOUS
    <2>2. s[m] = s[k]
      BY <1>4, <1>8, <2>1
    <2>3. QED
      BY <1>2, <2>2 DEF IsInjective
  <1>11. ListsOnce(s, ids)
    BY <1>6, <1>8, <1>9, <1>10 DEF ListsOnce
  <1>12. QED
    BY <1>11 DEF s

LEMMA AtMostOne ==
  ASSUME NEW S, \A m, n \in S : m = n
  PROVE  Cardinality(S) \in Nat /\ Cardinality(S) <= 1
  <1>1. CASE S = {}
    BY <1>1, FS_EmptySet
  <1>2. CASE S # {}
    <2>1. PICK n : n \in S
      BY <1>2
    <2>2. \A m \in S : m = n
      BY <2>1
    <2>3. S = {n}
      BY <2>1, <2>2
    <2>4. Cardinality({n}) = 1
      BY FS_Singleton
    <2>5. QED
      BY <2>3, <2>4
  <1>3. QED
    BY <1>1, <1>2

ShownAt(list, i) == {n \in DOMAIN list : list[n].id = i}

\* Two lists one after the other have a message twice only if both have it.
LEMMA ListsJoined ==
  ASSUME NEW A, NEW B, NEW p, NEW q, ListsOnce(p, A), ListsOnce(q, B), NEW i
  PROVE  /\ i \notin A \/ i \notin B => Cardinality(ShownAt(p \o q, i)) <= 1
         /\ i \in A \cup B => ShownAt(p \o q, i) # {}
         /\ Cardinality(ShownAt(p \o q, i)) <= 1 => ~(Cardinality(ShownAt(p \o q, i)) > 1)
  <1> DEFINE list == p \o q
             at == ShownAt(list, i)
  <1>1. PICK P : p \in Seq(P)
    BY DEF ListsOnce
  <1>2. PICK Q : q \in Seq(Q)
    BY DEF ListsOnce
  <1>3. list = p \o q
    OBVIOUS
  <1> HIDE DEF list
  <1>4. /\ Len(p) \in Nat /\ Len(q) \in Nat
        /\ DOMAIN p = 1 .. Len(p) /\ DOMAIN q = 1 .. Len(q) /\ DOMAIN list = 1 .. Len(p) + Len(q)
        /\ \A n \in 1 .. Len(p) : list[n] = p[n]
        /\ \A n \in 1 .. Len(q) : list[Len(p) + n] = q[n]
    BY <1>1, <1>2, <1>3
  <1>5. \A n \in DOMAIN list : n \in DOMAIN p \/ (n - Len(p) \in DOMAIN q /\ list[n] = q[n - Len(p)])
    <2>1. SUFFICES ASSUME NEW n \in DOMAIN list, n \notin DOMAIN p
                   PROVE  n - Len(p) \in DOMAIN q /\ list[n] = q[n - Len(p)]
      OBVIOUS
    <2>2. n - Len(p) \in 1 .. Len(q) /\ Len(p) + (n - Len(p)) = n
      BY <1>4, <2>1
    <2>3. QED
      BY <1>4, <2>2
  <1>6. ASSUME i \notin A \/ i \notin B PROVE Cardinality(at) <= 1
    <2>1. SUFFICES ASSUME NEW m \in at, NEW n \in at PROVE m = n
      <3> HIDE DEF at
      <3>1. QED
        BY AtMostOne
    <2>2. m \in DOMAIN list /\ n \in DOMAIN list /\ list[m].id = i /\ list[n].id = i
      BY <2>1 DEF ShownAt
    <2>3. CASE i \notin A
      <3>1. m \notin DOMAIN p /\ n \notin DOMAIN p
        BY <1>4, <2>2, <2>3 DEF ListsOnce
      <3>2. /\ m - Len(p) \in DOMAIN q /\ n - Len(p) \in DOMAIN q
            /\ q[m - Len(p)].id = q[n - Len(p)].id
        BY <1>5, <2>2, <3>1
      <3>3. m - Len(p) = n - Len(p)
        BY <3>2 DEF ListsOnce
      <3>4. QED
        BY <1>4, <2>2, <3>3
    <2>4. CASE i \notin B
      <3>1. m \in DOMAIN p /\ n \in DOMAIN p
        BY <1>5, <2>2, <2>4 DEF ListsOnce
      <3>2. p[m].id = p[n].id
        BY <1>4, <2>2, <3>1
      <3>3. QED
        BY <3>1, <3>2 DEF ListsOnce
    <2>5. QED
      BY <1>6, <2>3, <2>4
  <1>7. Cardinality(at) <= 1 => ~(Cardinality(at) > 1)
    <2>1. SUFFICES ASSUME Cardinality(at) <= 1 PROVE ~(Cardinality(at) > 1)
      OBVIOUS
    <2>2. IsFiniteSet(at)
      <3>1. at \subseteq 1 .. Len(p) + Len(q)
        BY <1>4 DEF ShownAt
      <3>2. IsFiniteSet(1 .. Len(p) + Len(q))
        BY <1>4, FS_Interval
      <3>3. QED
        BY <3>1, <3>2, FS_Subset
    <2>3. QED
      BY <2>1, <2>2, FS_CardinalityType
  <1>8. ASSUME i \in A \cup B PROVE at # {}
    <2>1. CASE i \in A
      <3>1. PICK n \in DOMAIN p : p[n].id = i
        BY <2>1 DEF ListsOnce
      <3>2. n \in DOMAIN list /\ list[n].id = i
        BY <1>4, <3>1
      <3>3. QED
        BY <3>2 DEF ShownAt
    <2>2. CASE i \in B
      <3>1. PICK n \in DOMAIN q : q[n].id = i
        BY <2>2 DEF ListsOnce
      <3>2. Len(p) + n \in DOMAIN list /\ list[Len(p) + n].id = i
        BY <1>4, <3>1
      <3>3. QED
        BY <3>2 DEF ShownAt
    <2>3. QED
      BY <1>8, <2>1, <2>2
  <1>9. QED
    BY <1>6, <1>7, <1>8 DEF list

FeedFields ==
    {"app", "indexer", "stage", "indexed", "moves", "moved", "loading", "pending", "confirmed", "shown",
     "failed"}
FeedTypeOK ==
    /\ feed = [f \in FeedFields |-> feed[f]]
    /\ feed.stage = [i \in FeedIds |-> feed.stage[i]]
    /\ feed.indexed \subseteq Staged("confirmed")
    /\ feed.loading \in BOOLEAN /\ feed.failed \in BOOLEAN

\* What an answer said is so of the messages that kept their stage since.
PendingSaid ==
    feed.pending # Unasked =>
        /\ feed.pending.rows \subseteq FeedIds
        /\ \A i \in FeedIds \ feed.moved :
              /\ i \in feed.pending.rows => feed.stage[i] = "pending"
              /\ feed.pending.ok /\ feed.stage[i] = "pending" => i \in feed.pending.rows
ConfirmedSaid ==
    feed.confirmed # Unasked =>
        /\ feed.confirmed.rows \subseteq FeedIds
        /\ \A i \in FeedIds \ feed.moved :
              /\ i \in feed.confirmed.rows => feed.stage[i] = "confirmed"
              /\ feed.confirmed.ok /\ feed.stage[i] = "confirmed" =>
                    i \in feed.confirmed.rows \cup feed.confirmed.late

\* A feed shows its two answers.
Merged ==
    IF feed.app = "blobble" THEN FetchMessages(feed.pending.rows, feed.confirmed.rows)
    ELSE FetchTweets(feed.pending.rows, feed.confirmed.rows)
ShowsAnswers ==
    ~feed.loading /\ feed.pending # Unasked /\ ~feed.failed =>
        feed.confirmed # Unasked /\ feed.shown = Merged

FeedInv == feed.app # "none" => FeedTypeOK /\ PendingSaid /\ ConfirmedSaid /\ ShowsAnswers

FeedMoves == Move \/ Project \/ Refresh \/ FetchPending \/ FetchConfirmed \/ Show

LEMMA FeedStart == ASSUME FeedInit \/ NoFeed PROVE FeedInv
  <1>1. ASSUME FeedInit PROVE FeedInv
    <2>1. PICK app \in Apps, indexed \in BOOLEAN :
            feed = [app |-> app, indexer |-> indexed, stage |-> [i \in FeedIds |-> "unsent"],
                    indexed |-> {}, moves |-> 0, moved |-> {}, loading |-> FALSE,
                    pending |-> Unasked, confirmed |-> Unasked, shown |-> <<>>, failed |-> FALSE]
      BY <1>1 DEF FeedInit
    <2>2. /\ feed = [f \in FeedFields |-> feed[f]]
          /\ feed.stage = [i \in FeedIds |-> "unsent"] /\ feed.indexed = {} /\ feed.loading = FALSE
          /\ feed.failed = FALSE /\ feed.pending = Unasked /\ feed.confirmed = Unasked
      BY <2>1 DEF FeedFields
    <2>3. feed.stage = [i \in FeedIds |-> feed.stage[i]]
      BY <2>2
    <2>4. QED
      BY <2>2, <2>3 DEF FeedInv, FeedTypeOK, PendingSaid, ConfirmedSaid, ShowsAnswers, Staged
  <1>2. ASSUME NoFeed PROVE FeedInv
    BY <1>2 DEF NoFeed, FeedInv
  <1>3. QED
    BY <1>1, <1>2

LEMMA FeedStays == ASSUME FeedInv, FeedMoves PROVE FeedInv'
  <1>1. feed.app # "none" /\ FeedTypeOK /\ PendingSaid /\ ConfirmedSaid /\ ShowsAnswers
    BY DEF FeedInv, FeedMoves, Move, Project, Refresh, FetchPending, FetchConfirmed, Show
  <1> DEFINE Kept == feed' = [f \in FeedFields |-> feed'[f]] /\ feed'.loading \in BOOLEAN
                     /\ feed'.failed \in BOOLEAN /\ feed'.app = feed.app
             Same(f) == feed'[f] = feed[f]
             Answers == Same("pending") /\ Same("confirmed") /\ Same("loading") /\ Same("failed")
                        /\ Same("shown")
             Stages == Same("stage") /\ Same("indexed") /\ Same("moved")
  <1> USE <1>1 DEF FeedFields
  <1>2. CASE Move
    <2>1. PICK i \in FeedIds, move \in StageMoves :
            /\ Kept /\ Answers /\ feed.stage[i] = move[1]
            /\ feed'.stage = [feed.stage EXCEPT ![i] = move[2]]
            /\ feed'.moved = feed.moved \cup {i} /\ feed'.indexed = feed.indexed \ {i}
      BY <1>2, ZenonT(60) DEF Move, FeedTypeOK
    <2>2. /\ feed'.stage = [j \in FeedIds |-> feed'.stage[j]]
          /\ \A j \in FeedIds : j # i => feed'.stage[j] = feed.stage[j]
      BY <2>1 DEF FeedTypeOK
    <2>3. FeedTypeOK'
      BY <2>1, <2>2 DEF FeedTypeOK, Staged
    <2>4. PendingSaid' /\ ConfirmedSaid'
      BY <2>1, <2>2 DEF PendingSaid, ConfirmedSaid
    <2>5. ShowsAnswers'
      BY <2>1 DEF ShowsAnswers, Merged
    <2>6. QED
      BY <2>3, <2>4, <2>5 DEF FeedInv
  <1>3. CASE Project
    <2>1. PICK i \in FeedIds :
            /\ Kept /\ Answers /\ Same("stage") /\ feed.stage[i] = "confirmed"
            /\ feed'.moved = feed.moved \cup {i} /\ feed'.indexed = feed.indexed \cup {i}
      BY <1>3, ZenonT(60) DEF Project, FeedTypeOK
    <2>2. FeedTypeOK'
      BY <2>1 DEF FeedTypeOK, Staged
    <2>3. PendingSaid' /\ ConfirmedSaid'
      BY <2>1 DEF PendingSaid, ConfirmedSaid
    <2>4. ShowsAnswers'
      BY <2>1 DEF ShowsAnswers, Merged
    <2>5. QED
      BY <2>2, <2>3, <2>4 DEF FeedInv
  <1>4. CASE Refresh
    <2>1. Kept /\ feed'.pending = Unasked /\ feed'.confirmed = Unasked /\ Same("stage") /\ Same("indexed")
      BY <1>4 DEF Refresh, FeedTypeOK
    <2>2. QED
      BY <2>1 DEF FeedInv, FeedTypeOK, Staged, PendingSaid, ConfirmedSaid, ShowsAnswers
  <1>5. CASE FetchPending
    <2>1. /\ Kept /\ Stages /\ Same("confirmed") /\ feed'.loading = TRUE
          /\ \/ feed'.pending = [ok |-> TRUE, rows |-> Staged("pending"), late |-> {}]
             \/ feed'.pending = NoRows
      BY <1>5 DEF FetchPending, FeedTypeOK
    <2>2. FeedTypeOK' /\ ConfirmedSaid' /\ ShowsAnswers'
      BY <2>1 DEF FeedTypeOK, Staged, ConfirmedSaid, ShowsAnswers
    <2>3. PendingSaid'
      BY <2>1 DEF PendingSaid, Staged, NoRows
    <2>4. QED
      BY <2>2, <2>3 DEF FeedInv
  <1>6. CASE FetchConfirmed
    <2>1. /\ Kept /\ Stages /\ Same("pending") /\ feed'.loading = TRUE
          /\ \/ feed'.confirmed = [ok |-> TRUE, rows |-> feed.indexed,
                                   late |-> Staged("confirmed") \ feed.indexed]
             \/ feed'.confirmed = [ok |-> TRUE, rows |-> Staged("confirmed"), late |-> {}]
             \/ feed'.confirmed = NoRows
      BY <1>6 DEF FetchConfirmed, FeedTypeOK
    <2>2. FeedTypeOK' /\ PendingSaid' /\ ShowsAnswers'
      BY <2>1 DEF FeedTypeOK, Staged, PendingSaid, ShowsAnswers
    <2>3. ConfirmedSaid'
      BY <2>1 DEF ConfirmedSaid, Staged, NoRows, FeedTypeOK
    <2>4. QED
      BY <2>2, <2>3 DEF FeedInv
  <1>7. CASE Show
    <2>1. /\ Kept /\ Stages /\ Same("pending") /\ Same("confirmed")
          /\ feed.pending # Unasked /\ feed.confirmed # Unasked
          /\ feed'.failed = TRUE \/ feed'.shown = Merged
      BY <1>7 DEF Show, FeedTypeOK, Merged
    <2>2. FeedTypeOK' /\ PendingSaid' /\ ConfirmedSaid'
      BY <2>1 DEF FeedTypeOK, Staged, PendingSaid, ConfirmedSaid
    <2>3. ShowsAnswers'
      BY <2>1 DEF ShowsAnswers, Merged
    <2>4. QED
      BY <2>2, <2>3 DEF FeedInv
  <1>8. QED
    BY <1>2, <1>3, <1>4, <1>5, <1>6, <1>7 DEF FeedMoves

LEMMA FeedShowsAll == ASSUME FeedInv PROVE FeedIsWhole
  <1> SUFFICES ASSUME feed.app # "none", ~feed.loading, feed.pending # Unasked, ~feed.failed,
                      NEW i \in FeedIds
               PROVE  LET at == {n \in DOMAIN feed.shown : feed.shown[n].id = i}
                      IN /\ Cardinality(at) > 1 => feed.app = "blobble" /\ i \in feed.moved
                         /\ feed.pending.ok /\ i \in (FeedIds \ feed.moved) \cap Staged("pending") => at # {}
                         /\ /\ feed.confirmed.ok
                            /\ i \in ((FeedIds \ feed.moved) \cap Staged("confirmed")) \ feed.confirmed.late
                            => at # {}
    BY DEF FeedIsWhole
  <1> DEFINE A == feed.pending.rows
             B == feed.confirmed.rows
             at == {n \in DOMAIN feed.shown : feed.shown[n].id = i}
  <1>1. /\ PendingSaid /\ ConfirmedSaid /\ feed.shown = Merged /\ feed.confirmed # Unasked
        /\ A \subseteq FeedIds /\ B \subseteq FeedIds
    BY DEF FeedInv, ShowsAnswers, PendingSaid, ConfirmedSaid
  <1>2. IsFiniteSet(A) /\ IsFiniteSet(B) /\ IsFiniteSet(A \ B)
    <2> HIDE DEF A, B
    <2>1. QED
      BY <1>1, FS_Subset, ClientsAssumption
  <1>3. /\ i \in A \cup B => at # {}
        /\ Cardinality(at) > 1 => feed.app = "blobble" /\ i \in A /\ i \in B
    <2> DEFINE p == Rows(A, "pending")
               c == Rows(B, "posted")
               n == Rows(A \ B, "pending")
    <2>1. ListsOnce(p, A) /\ ListsOnce(c, B) /\ ListsOnce(n, A \ B)
      BY <1>2, RowsListed
    <2>2. at = ShownAt(feed.shown, i)
      BY DEF ShownAt
    <2>3. feed.shown = IF feed.app = "blobble" THEN p \o c ELSE c \o n
      BY <1>1 DEF Merged, FetchMessages, FetchTweets
    <2> HIDE DEF A, B, p, c, n, at
    <2>4. CASE feed.app = "blobble"
      BY <2>1, <2>2, <2>3, <2>4, ListsJoined
    <2>5. CASE feed.app # "blobble"
      <3>1. i \notin B \/ i \notin A \ B
        OBVIOUS
      <3>2. i \in A \cup B => i \in B \cup (A \ B)
        OBVIOUS
      <3>3. QED
        BY <2>1, <2>2, <2>3, <2>5, <3>1, <3>2, ListsJoined
    <2>6. QED
      BY <2>4, <2>5
  <1>5. i \in A /\ i \in B => i \in feed.moved
    BY <1>1 DEF PendingSaid, ConfirmedSaid
  <1>6. feed.pending.ok /\ i \in (FeedIds \ feed.moved) \cap Staged("pending") => i \in A
    BY <1>1 DEF PendingSaid, Staged
  <1>7. /\ feed.confirmed.ok /\ i \in ((FeedIds \ feed.moved) \cap Staged("confirmed")) \ feed.confirmed.late
        => i \in B
    BY <1>1 DEF ConfirmedSaid, Staged
  <1> HIDE DEF at, A, B
  <1>8. QED
    BY <1>3, <1>5, <1>6, <1>7 DEF at

-----------------------------------------------------------------------------
(* What the user is told *)

ClientsInv == WalletInv /\ FeedInv /\ WidgetInv

LEMMA WalletIsTold ==
  ASSUME WalletInv, NEW r \in DOMAIN wallet.run
  PROVE  LET run == wallet.run[r]
             own == {n \in DOMAIN wallet.accepted : wallet.accepted[n] = r}
             same == {n \in DOMAIN wallet.accepted : TextOf[wallet.accepted[n]] = TextOf[r]}
             passed == {n \in DOMAIN wallet.accepted : n > run.first}
         IN /\ Cardinality(own) <= 1
            /\ run.told = "sent" => \E n \in same : n > run.first
            /\ run.told \in {"stale_nonce", "refused"} => own = {}
            /\ run.told = "stale_nonce" => Cardinality(passed) > MaxStaleRetries
  <1> DEFINE run == wallet.run[r]
             own == {n \in DOMAIN wallet.accepted : wallet.accepted[n] = r}
             passed == {n \in DOMAIN wallet.accepted : n > run.first}
  <1>1. /\ Knows(r, run) /\ RunTypeOK(run) /\ AcceptedOnce /\ NextNonce \in Nat
        /\ DOMAIN wallet.accepted = 1 .. NextNonce
    BY DEF WalletInv, WalletTypeOK, NextNonce
  <1>2. Cardinality(own) <= 1
    <2>1. \A m, n \in own : m = n
      BY <1>1 DEF AcceptedOnce
    <2> HIDE DEF own
    <2>2. QED
      BY <2>1, AtMostOne
  <1>3. run.told = "stale_nonce" => Cardinality(passed) > MaxStaleRetries
    <2>1. SUFFICES ASSUME run.told = "stale_nonce" PROVE Cardinality(passed) > MaxStaleRetries
      OBVIOUS
    <2>2. /\ 0 <= run.first /\ run.first + (MaxStaleRetries + 1) <= NextNonce /\ run.first \in Int
          /\ MaxStaleRetries \in Nat
      BY <1>1, <2>1, ClientsAssumption DEF Knows, Outrun, RunTypeOK
    <2> HIDE DEF run
    <2>3. passed = run.first + 1 .. NextNonce
      BY <1>1, <2>2
    <2>4. Cardinality(passed) = NextNonce - run.first
      <3>1. run.first + 1 \in Int /\ NextNonce \in Int /\ ~(run.first + 1 > NextNonce)
        BY <1>1, <2>2
      <3>2. Cardinality(run.first + 1 .. NextNonce) = NextNonce - (run.first + 1) + 1
        BY <3>1, FS_Interval
      <3>3. NextNonce - (run.first + 1) + 1 = NextNonce - run.first
        BY <1>1, <2>2
      <3>4. QED
        BY <2>3, <3>2, <3>3
    <2>5. QED
      BY <1>1, <2>2, <2>4
  <1>4. run.told = "sent" =>
          \E n \in {m \in DOMAIN wallet.accepted : TextOf[wallet.accepted[m]] = TextOf[r]} : n > run.first
    BY <1>1 DEF Knows, Posted
  <1>5. run.told \in {"stale_nonce", "refused"} => own = {}
    BY <1>1 DEF Knows, NotAccepted
  <1>6. QED
    BY <1>2, <1>3, <1>4, <1>5

\* What composers and feeds show their users is so: any number of pages, of
\* messages and of steps, any reply lost or late.
THEOREM ClientsTellTheTruth == ClientsSpec => []UserIsToldTheTruth
  <1>1. ClientsInit => ClientsInv
    BY WalletStart, FeedStart, WidgetStart DEF ClientsInit, ClientsInv
  <1>2. ClientsInv /\ [ClientsNext]_clientVars => ClientsInv'
    <2> SUFFICES ASSUME ClientsInv, [ClientsNext]_clientVars PROVE ClientsInv'
      OBVIOUS
    <2>1. ASSUME UNCHANGED wallet, WalletInv PROVE WalletInv'
      BY <2>1 DEF WalletInv, WalletTypeOK, AcceptedOnce, NotAccepted, Knows, Outrun, Posted, NextNonce
    <2>2. ASSUME UNCHANGED feed, FeedInv PROVE FeedInv'
      BY <2>2 DEF FeedInv, FeedTypeOK, PendingSaid, ConfirmedSaid, ShowsAnswers, Merged, Staged
    <2>3. ASSUME UNCHANGED widget, WidgetInv PROVE WidgetInv'
      BY <2>3 DEF WidgetInv, WidgetTypeOK, OneUnderWay
    <2>4. CASE WalletMoves
      <3>1. UNCHANGED <<feed, widget>>
        BY <2>4, Zenon DEF WalletMoves, NextNonceForSender, Deliver, Decline, RawFetchTimeout, DeliverLate, React
      <3>2. QED
        BY <2>2, <2>3, <2>4, <3>1, WalletStays DEF ClientsInv
    <2>5. CASE FeedMoves
      <3>1. UNCHANGED <<wallet, widget>>
        BY <2>5 DEF FeedMoves, Move, Project, Refresh, FetchPending, FetchConfirmed, Show
      <3>2. QED
        BY <2>1, <2>3, <2>5, <3>1, FeedStays DEF ClientsInv
    <2>6. CASE WidgetMoves
      <3>1. UNCHANGED <<wallet, feed>>
        BY <2>6, Zenon DEF WidgetMoves, OnConnect, Connected, OnDisconnect, AccountsChanged,
             OnStartCompose, OnCancelCompose, OnDraftChange, OnSubmit, SubmitEnds, WidgetStep
      <3>2. QED
        BY <2>1, <2>2, <2>6, <3>1, WidgetStays DEF ClientsInv
    <2>7. CASE UNCHANGED clientVars
      BY <2>1, <2>2, <2>3, <2>7 DEF ClientsInv, clientVars
    <2>8. QED
      BY <2>4, <2>5, <2>6, <2>7 DEF ClientsNext, WalletMoves, FeedMoves, WidgetMoves
  <1>3. ClientsInv => UserIsToldTheTruth
    BY WalletIsTold, FeedShowsAll DEF ClientsInv, WidgetInv, OneUnderWay, UserIsToldTheTruth
  <1>4. QED
    BY <1>1, <1>2, <1>3, PTL DEF ClientsSpec

-----------------------------------------------------------------------------
(* The starting of the services *)

LEMMA TwoNumbers ==
  ASSUME NEW a \in Int, NEW b \in Int
  PROVE  /\ Max({a, b}) = IF a >= b THEN a ELSE b
         /\ Min({a, b}) = IF a <= b THEN a ELSE b
  <1>1. Max({a, b}) = IF a >= b THEN a ELSE b
    <2>1. \E x \in {a, b} : \A y \in {a, b} : x >= y
      OBVIOUS
    <2>2. \A x \in {a, b} : (\A y \in {a, b} : x >= y) => x = IF a >= b THEN a ELSE b
      OBVIOUS
    <2>3. Max({a, b}) \in {a, b} /\ \A y \in {a, b} : Max({a, b}) >= y
      BY <2>1 DEF Max
    <2>4. QED
      BY <2>2, <2>3
  <1>2. Min({a, b}) = IF a <= b THEN a ELSE b
    <2>1. \E x \in {a, b} : \A y \in {a, b} : x =< y
      OBVIOUS
    <2>2. \A x \in {a, b} : (\A y \in {a, b} : x =< y) => x = IF a <= b THEN a ELSE b
      OBVIOUS
    <2>3. Min({a, b}) \in {a, b} /\ \A y \in {a, b} : Min({a, b}) =< y
      BY <2>1 DEF Min
    <2>4. QED
      BY <2>2, <2>3
  <1>3. QED
    BY <1>1, <1>2

LEMMA WindowInBounds ==
  ASSUME NEW v
  PROVE  ReorgWindow(v) \in MinReorgWindow .. MaxReorgWindow
  <1>1. /\ MinReorgWindow \in Nat /\ MaxReorgWindow \in Nat
        /\ DefaultReorgWindow \in MinReorgWindow .. MaxReorgWindow
    BY StartupAssumption
  <1>2. MinReorgWindow <= MaxReorgWindow
    BY <1>1
  <1>3. ASSUME v \in DOMAIN Finite
        PROVE  Min({Max({Finite[v], MinReorgWindow}), MaxReorgWindow}) \in MinReorgWindow .. MaxReorgWindow
    <2>1. Finite[v] \in Int
      BY <1>3, StartupAssumption
    <2> DEFINE least == Max({Finite[v], MinReorgWindow})
    <2>2. least = IF Finite[v] >= MinReorgWindow THEN Finite[v] ELSE MinReorgWindow
      BY <1>1, <2>1, TwoNumbers
    <2> HIDE DEF least
    <2>3. least \in Int /\ MinReorgWindow <= least
      BY <1>1, <2>1, <2>2
    <2>4. Min({least, MaxReorgWindow}) = IF least <= MaxReorgWindow THEN least ELSE MaxReorgWindow
      BY <1>1, <2>3, TwoNumbers
    <2>5. QED
      BY <1>1, <1>2, <2>3, <2>4 DEF least
  <1>4. QED
    BY <1>1, <1>3 DEF ReorgWindow, ClampReorgWindow

\* A flag takes a value, and a flag is set, only when it is on the command line.
LEMMA FlagsAreGiven ==
  ASSUME NEW argv \in Seq(STRING), NEW valued
  PROVE  /\ ReadFlags(argv, valued).flags \subseteq ToSet(argv)
         /\ \A flag \in valued :
               flag \notin ToSet(argv) => ReadFlags(argv, valued).value[flag] = Unset
  BY DEF ReadFlags, ToSet

LEMMA TailOfArguments ==
  ASSUME NEW argv \in Seq(STRING), argv # <<>>
  PROVE  /\ Tail(argv) \in Seq(STRING)
         /\ ToSet(argv) = {argv[1]} \cup ToSet(Tail(argv))
  <1>1. /\ Tail(argv) \in Seq(STRING) /\ Len(Tail(argv)) = Len(argv) - 1
        /\ \A i \in 1 .. Len(Tail(argv)) : Tail(argv)[i] = argv[i + 1]
        /\ Len(argv) \in Nat /\ Len(argv) # 0
    BY HeadTailProperties, EmptySeq
  <1>2. DOMAIN argv = 1 .. Len(argv) /\ DOMAIN Tail(argv) = 1 .. Len(argv) - 1
    BY <1>1
  <1>3. ASSUME NEW i \in DOMAIN argv PROVE argv[i] \in {argv[1]} \cup ToSet(Tail(argv))
    <2>1. CASE i = 1
      BY <2>1
    <2>2. CASE i # 1
      <3>1. i - 1 \in 1 .. Len(argv) - 1 /\ (i - 1) + 1 = i
        BY <1>1, <1>2, <2>2
      <3>2. Tail(argv)[i - 1] = argv[i]
        BY <1>1, <3>1
      <3>3. QED
        BY <1>2, <3>1, <3>2 DEF ToSet
    <2>3. QED
      BY <2>1, <2>2
  <1>4. ASSUME NEW i \in DOMAIN Tail(argv) PROVE Tail(argv)[i] \in ToSet(argv)
    <2>1. i + 1 \in DOMAIN argv /\ Tail(argv)[i] = argv[i + 1]
      BY <1>1, <1>2
    <2>2. QED
      BY <2>1 DEF ToSet
  <1>5. argv[1] \in ToSet(argv)
    BY <1>1, <1>2 DEF ToSet
  <1>6. QED
    BY <1>1, <1>3, <1>4, <1>5 DEF ToSet

-----------------------------------------------------------------------------
(* What command lines stand for *)

LEMMA ReaderCommands ==
  ASSUME NEW argv \in Seq(STRING), ParseArgs(argv) # Refused
  PROVE  LET command == ParseArgs(argv)
         IN \/ command.subcommand = "serve"
            \/ /\ command.subcommand = "reset" /\ command.scope \in {"all", "cursor"}
               /\ command.confirmed => "--yes" \in ToSet(argv)
               /\ command.scope = "all" <=> "--all" \in ToSet(argv)
            \/ /\ command.subcommand = "backfill" /\ command.marker \in {"block", "deploy", "catchup"}
               /\ "--to" \notin ToSet(argv) => command.marker # "block" /\ command.to = Unset
  <1>1. CASE argv = <<"serve">>
    BY <1>1 DEF ParseArgs
  <1>2. CASE argv # <<"serve">> /\ argv # <<>> /\ argv[1] = "reset"
    <2> DEFINE flags == ToSet(Tail(argv))
    <2>1. ParseArgs(argv) = ResetArgs(Tail(argv))
      BY <1>2 DEF ParseArgs
    <2>2. ResetArgs(Tail(argv)) = [subcommand |-> "reset",
              scope |-> IF "--all" \in flags THEN "all" ELSE "cursor", confirmed |-> "--yes" \in flags]
      BY <2>1 DEF ResetArgs
    <2>3. ToSet(argv) = {"reset"} \cup flags
      BY <1>2, TailOfArguments
    <2> HIDE DEF flags
    <2>4. /\ ParseArgs(argv).subcommand = "reset"
          /\ ParseArgs(argv).scope = IF "--all" \in flags THEN "all" ELSE "cursor"
          /\ ParseArgs(argv).confirmed = ("--yes" \in flags)
      BY <2>1, <2>2
    <2>5. QED
      BY <2>3, <2>4
  <1>3. CASE argv # <<"serve">> /\ argv # <<>> /\ argv[1] # "reset" /\ argv[1] = "backfill"
    <2> DEFINE rest == Tail(argv)
               read == ReadFlags(rest, {"--from", "--to"})
               from == read.value["--from"]
               to == read.value["--to"]
    <2>1. ParseArgs(argv) = BackfillArgs(rest)
      BY <1>3 DEF ParseArgs
    <2>2. "--to" \notin ToSet(argv) => to = Unset
      <3>1. rest \in Seq(STRING) /\ ToSet(rest) \subseteq ToSet(argv)
        BY <1>3, TailOfArguments
      <3>2. QED
        BY <3>1, FlagsAreGiven
    <2>3. \E marker \in {"block", "deploy", "catchup"} :
             /\ BackfillArgs(rest) = [subcommand |-> "backfill", marker |-> marker, from |-> from, to |-> to]
             /\ marker = "block" => AtLeast(to, Finite[from])
      <3> HIDE DEF read
      <3> QED BY <2>1 DEF BackfillArgs, read
    <2>4. ~AtLeast(Unset, Finite[from])
      BY StartupAssumption DEF AtLeast
    <2> HIDE DEF rest, read, from, to
    <2>5. QED
      BY <2>1, <2>2, <2>3, <2>4
  <1>4. QED
    BY <1>1, <1>2, <1>3 DEF ParseArgs

LEMMA IndexerCommands ==
  ASSUME NEW argv \in Seq(STRING), IndexerArgs(argv) # Refused
  PROVE  LET command == IndexerArgs(argv)
         IN \/ command.subcommand = "serve"
            \/ command.subcommand = "reset" /\ "--yes" \in ToSet(argv)
  <1>1. CASE argv # <<>> /\ argv[1] = "serve"
    BY <1>1 DEF IndexerArgs
  <1>2. CASE ~(argv # <<>> /\ argv[1] = "serve")
    <2> DEFINE flags == ReadFlags(Tail(argv), {"--handler", "--version"}).flags
    <2>1. /\ argv # <<>> /\ "--yes" \in flags /\ IndexerArgs(argv).subcommand = "reset"
      BY <1>2 DEF IndexerArgs
    <2>2. Tail(argv) \in Seq(STRING) /\ ToSet(Tail(argv)) \subseteq ToSet(argv)
      BY <2>1, TailOfArguments
    <2>3. flags \subseteq ToSet(Tail(argv))
      BY <2>2, FlagsAreGiven
    <2>4. QED
      BY <2>1, <2>2, <2>3
  <1>3. QED
    BY <1>1, <1>2

-----------------------------------------------------------------------------
(* The invariant behind StartsAsMeant *)

StartFields ==
    {"who", "argv", "env", "dirs", "named", "world", "pc", "code", "config", "command", "did"}
Services == {"poster", "reader", "indexer"}

StartTypeOK ==
    /\ startup = [f \in StartFields |-> startup[f]]
    /\ startup.who \in Services /\ startup.argv \in Seq(STRING) /\ startup.world.head \in Int
    /\ startup.pc \in {"begin", "configured", "created", "filling", "serving", "over"}

\* A process past its beginning has read its configuration and its command.
Ready ==
    /\ startup.who = "poster" =>
          /\ PosterEnvAccepted(LoadDotenv("poster"))
          /\ startup.config = PosterConfig(LoadDotenv("poster"))
    /\ startup.who = "reader" =>
          /\ ReaderEnvAccepted(LoadDotenv("reader"))
          /\ startup.config = ReaderConfig(LoadDotenv("reader"))
          /\ startup.command = ParseArgs(startup.argv) /\ startup.command # Refused
          /\ startup.command.subcommand = "reset" => startup.command.confirmed
    /\ startup.who = "indexer" =>
          startup.command = IndexerArgs(startup.argv) /\ startup.command # Refused

OnChain == startup.config.chainId = startup.world.chain
Tables == IF startup.command.scope = "all" THEN <<"cursor", "batches", "messages">> ELSE <<"cursor">>

\* What a process may do at the command it was given.
MayDo(did) ==
    \/ did = <<"serve">> /\ (startup.who # "indexer" => OnChain)
    \/ /\ startup.who = "reader" /\ startup.command.subcommand = "backfill" /\ OnChain
       /\ ResolveBackfillRange # <<>>
       /\ did = <<"backfill">> \o ResolveBackfillRange
    \/ /\ startup.who = "reader" /\ startup.command.subcommand = "reset"
       /\ did = <<"reset">> \o Tables
    \/ /\ startup.who = "indexer" /\ startup.command.subcommand = "reset"
       /\ did = <<"reset", startup.command.scope>>

StartInv ==
    startup.pc # "none" =>
        /\ StartTypeOK
        /\ startup.pc \in {"begin", "configured", "created"} => startup.did = <<>>
        /\ startup.pc \in {"filling", "serving"} => startup.did # <<>>
        /\ startup.pc # "over" => startup.code = 0
        /\ startup.pc \in {"configured", "created"} \/ startup.did # <<>> => Ready
        /\ startup.pc = "created" =>
              startup.who = "reader" /\ OnChain /\ startup.command.subcommand # "reset"
        /\ startup.did # <<>> => MayDo(startup.did)
        /\ startup.pc = "over" /\ startup.code \in {2, 3, 4} => startup.did = <<>>
        /\ startup.pc = "over" /\ startup.code = 0 =>
              startup.did # <<>> \/ {"--help", "-h"} \cap ToSet(startup.argv) # {}

LEMMA StartStart == ASSUME StartupInit \/ NoStartup PROVE StartInv
  <1>1. CASE NoStartup
    BY <1>1 DEF NoStartup, StartInv
  <1>2. CASE StartupInit
    <2>1. PICK start \in Startups :
             startup = [who |-> start.who, argv |-> start.argv, env |-> start.env, dirs |-> start.dirs,
                        named |-> start.named, world |-> start.world,
                        pc |-> "begin", code |-> 0, config |-> <<>>, command |-> Refused, did |-> <<>>]
      BY <1>2 DEF StartupInit
    <2>2. start.who \in Services /\ start.argv \in Seq(STRING) /\ start.world.head \in Int
      BY StartupAssumption DEF Services
    <2>3. StartTypeOK
      BY <2>1, <2>2 DEF StartTypeOK, StartFields
    <2>4. startup.pc = "begin" /\ startup.did = <<>> /\ startup.code = 0
      BY <2>1
    <2>5. QED
      BY <2>3, <2>4 DEF StartInv
  <1>3. QED
    BY <1>1, <1>2

\* A step keeps what the process was started from, and moves on from it.
Kept ==
    /\ startup' = [f \in StartFields |-> startup'[f]]
    /\ startup'.who = startup.who /\ startup'.argv = startup.argv /\ startup'.env = startup.env
    /\ startup'.dirs = startup.dirs /\ startup'.named = startup.named /\ startup'.world = startup.world

Loaded(env, files) ==
    [key \in DOMAIN env |->
        IF env[key] = Unset /\ \E file \in files : key \in DOMAIN file
        THEN (CHOOSE file \in files : TRUE)[key]
        ELSE env[key]]

LEMMA SameFiles ==
  ASSUME Kept
  PROVE  \A w \in Services : LoadDotenv(w)' = LoadDotenv(w)
  <1> SUFFICES ASSUME NEW w \in Services PROVE LoadDotenv(w)' = LoadDotenv(w)
    OBVIOUS
  <1>1. DotenvFile(w)' = DotenvFile(w)
    BY DEF Kept, DotenvFile
  <1>2. LoadDotenv(w) = Loaded(startup.env, DotenvFile(w))
    BY DEF LoadDotenv, Loaded
  <1>3. LoadDotenv(w)' = Loaded(startup'.env, DotenvFile(w)')
    BY DEF LoadDotenv, Loaded
  <1>4. startup'.env = startup.env
    BY DEF Kept
  <1>5. QED
    BY <1>1, <1>2, <1>3, <1>4

LEMMA SameTask ==
  ASSUME Kept, startup'.config = startup.config, startup'.command = startup.command
  PROVE  ResolveBackfillRange' = ResolveBackfillRange /\ OnChain' = OnChain /\ Tables' = Tables
  <1>1. SafeHead' = SafeHead
    BY DEF Kept, SafeHead
  <1>2. DeployRange' = DeployRange
    BY <1>1 DEF Kept, DeployRange
  <1>3. CatchupRange' = CatchupRange
    BY <1>1 DEF Kept, CatchupRange
  <1>4. OnChain' = OnChain
    BY DEF Kept, OnChain
  <1>5. Tables' = Tables
    BY DEF Tables
  <1>6. ResolveBackfillRange' = ResolveBackfillRange
    BY <1>2, <1>3 DEF ResolveBackfillRange
  <1>7. QED
    BY <1>4, <1>5, <1>6

LEMMA ReadyStays ==
  ASSUME Kept, Ready, startup'.config = startup.config, startup'.command = startup.command
  PROVE  Ready'
  BY SameFiles DEF Kept, Ready, Services

\* A process that ends without having begun.
LEMMA EndsIdle ==
  ASSUME StartInv, startup.pc # "none", startup.did = <<>>, NEW code, ExitWith(code),
         code = 0 => {"--help", "-h"} \cap ToSet(startup.argv) # {}
  PROVE  StartInv'
  <1>1. startup' = [startup EXCEPT !.pc = "over", !.code = code] /\ StartTypeOK
    BY DEF ExitWith, StartInv
  <1>2. /\ Kept /\ startup'.pc = "over" /\ startup'.code = code /\ startup'.did = <<>>
    BY <1>1 DEF Kept, StartTypeOK, StartFields
  <1>3. StartTypeOK'
    BY <1>1, <1>2 DEF StartTypeOK, Kept
  <1>4. QED
    BY <1>2, <1>3 DEF StartInv, Kept

\* A process that ends with what it did.
LEMMA EndsDone ==
  ASSUME StartInv, startup.pc # "none", startup.did # <<>>, NEW code \in {0, 1}, ExitWith(code)
  PROVE  StartInv'
  <1>1. startup' = [startup EXCEPT !.pc = "over", !.code = code] /\ StartTypeOK
    BY DEF ExitWith, StartInv
  <1>2. /\ Kept /\ startup'.pc = "over" /\ startup'.code = code /\ startup'.did = startup.did
        /\ startup'.config = startup.config /\ startup'.command = startup.command
    BY <1>1 DEF Kept, StartTypeOK, StartFields
  <1>3. StartTypeOK'
    BY <1>1, <1>2 DEF StartTypeOK, Kept
  <1>4. Ready' /\ MayDo(startup.did)
    BY <1>2, ReadyStays DEF StartInv
  <1>5. ResolveBackfillRange' = ResolveBackfillRange /\ OnChain' = OnChain /\ Tables' = Tables
    BY <1>2, SameTask
  <1>6. MayDo(startup.did)'
    BY <1>2, <1>4, <1>5 DEF MayDo, Kept
  <1>7. QED
    BY <1>2, <1>3, <1>4, <1>6 DEF StartInv

LEMMA BecomesReady ==
  ASSUME StartInv, startup.pc = "begin", NEW config, NEW command, Configured(config, command),
         startup.who = "poster" =>
            PosterEnvAccepted(LoadDotenv("poster")) /\ config = PosterConfig(LoadDotenv("poster")),
         startup.who = "reader" =>
            /\ ReaderEnvAccepted(LoadDotenv("reader")) /\ config = ReaderConfig(LoadDotenv("reader"))
            /\ command = ParseArgs(startup.argv) /\ command # Refused
            /\ command.subcommand = "reset" => command.confirmed,
         startup.who = "indexer" => command = IndexerArgs(startup.argv) /\ command # Refused
  PROVE  StartInv'
  <1>1. startup' = [startup EXCEPT !.pc = "configured", !.config = config, !.command = command]
        /\ StartTypeOK /\ startup.did = <<>> /\ startup.code = 0
    BY DEF Configured, StartInv
  <1>2. /\ Kept /\ startup'.pc = "configured" /\ startup'.did = <<>> /\ startup'.code = 0
        /\ startup'.config = config /\ startup'.command = command
    BY <1>1 DEF Kept, StartTypeOK, StartFields
  <1>3. StartTypeOK'
    BY <1>1, <1>2 DEF StartTypeOK, Kept
  <1>4. Ready'
    BY <1>2, SameFiles DEF Ready, Kept, Services
  <1>5. QED
    BY <1>2, <1>3, <1>4 DEF StartInv

\* A process that was ready begins its work.
LEMMA BeginsWork ==
  ASSUME StartInv, startup.pc \in {"configured", "created"}, NEW pc, NEW did, Does(pc, did),
         pc \in {"filling", "serving", "over"}, did # <<>>, MayDo(did)
  PROVE  StartInv'
  <1>1. StartTypeOK /\ Ready /\ startup.code = 0 /\ startup' = [startup EXCEPT !.pc = pc, !.did = did]
    BY DEF StartInv, Does
  <1>2. /\ Kept /\ startup'.pc = pc /\ startup'.did = did /\ startup'.code = 0
        /\ startup'.config = startup.config /\ startup'.command = startup.command
    BY <1>1 DEF Kept, StartTypeOK, StartFields
  <1>3. StartTypeOK'
    BY <1>1, <1>2 DEF StartTypeOK, Kept
  <1>4. Ready'
    BY <1>1, <1>2, ReadyStays
  <1>5. ResolveBackfillRange' = ResolveBackfillRange /\ OnChain' = OnChain /\ Tables' = Tables
    BY <1>2, SameTask
  <1>6. MayDo(startup.did)'
    BY <1>2, <1>5 DEF MayDo, Kept
  <1>7. QED
    BY <1>2, <1>3, <1>4, <1>6 DEF StartInv

\* A range names two blocks; one that was not on the command line is as the operator's care asks.
LEMMA RangeNames ==
  ASSUME StartTypeOK, Ready, startup.who = "reader", startup.command.subcommand = "backfill",
         ResolveBackfillRange # <<>>
  PROVE  \E from, to :
            /\ <<"backfill">> \o ResolveBackfillRange = <<"backfill", from, to>>
            /\ "--to" \notin ToSet(startup.argv) =>
                  /\ to = SafeHead
                  /\ from \in {startup.world.cursor + 1, DeployBlock[startup.config.chainId]}
  <1>1. /\ startup.command.marker \in {"block", "deploy", "catchup"}
        /\ "--to" \notin ToSet(startup.argv) =>
              startup.command.marker # "block" /\ startup.command.to = Unset
    <2>1. startup.argv \in Seq(STRING) /\ startup.command = ParseArgs(startup.argv)
          /\ ParseArgs(startup.argv) # Refused
      BY DEF StartTypeOK, Ready
    <2>2. QED
      BY <2>1, ReaderCommands
  <1>2. \E from, to :
            /\ ResolveBackfillRange = <<from, to>>
            /\ "--to" \notin ToSet(startup.argv) =>
                  /\ to = SafeHead
                  /\ from \in {startup.world.cursor + 1, DeployBlock[startup.config.chainId]}
    <2>1. CASE startup.command.marker = "block"
      BY <1>1, <2>1 DEF ResolveBackfillRange
    <2>2. CASE startup.command.marker = "deploy"
      <3>1. ResolveBackfillRange = DeployRange
        BY <2>2 DEF ResolveBackfillRange
      <3>2. DeployRange = <<DeployBlock[startup.config.chainId],
                            IF startup.command.to = Unset THEN SafeHead ELSE Finite[startup.command.to]>>
        BY <3>1 DEF DeployRange
      <3>3. QED
        BY <1>1, <3>1, <3>2
    <2>3. CASE startup.command.marker = "catchup"
      <3>1. ResolveBackfillRange = CatchupRange
        BY <2>3 DEF ResolveBackfillRange
      <3>2. CatchupRange = <<startup.world.cursor + 1, SafeHead>>
        BY <3>1 DEF CatchupRange
      <3>3. QED
        BY <3>1, <3>2
    <2>4. QED
      BY <1>1, <2>1, <2>2, <2>3
  <1>3. ASSUME NEW from, NEW to PROVE <<"backfill">> \o <<from, to>> = <<"backfill", from, to>>
    <2> DEFINE texts == {"backfill", from, to}
    <2>1. <<"backfill">> \in Seq(texts) /\ <<from, to>> \in Seq(texts)
      OBVIOUS
    <2> DEFINE s == <<"backfill">> \o <<from, to>>
               t == <<"backfill", from, to>>
    <2>2. s \in Seq(texts) /\ Len(s) = 3 /\ s[1] = "backfill" /\ s[2] = from /\ s[3] = to
      BY <2>1, ConcatProperties
    <2>3. t \in Seq(texts) /\ Len(t) = 3 /\ t[1] = "backfill" /\ t[2] = from /\ t[3] = to
      OBVIOUS
    <2> HIDE DEF s, t
    <2>4. \A i \in 1 .. Len(s) : s[i] = t[i]
      BY <2>2, <2>3
    <2>5. s = t
      BY <2>2, <2>3, <2>4, SeqEqual
    <2>6. QED
      BY <2>5 DEF s, t
  <1>4. QED
    BY <1>2, <1>3

-----------------------------------------------------------------------------
(* One step *)

LEMMA StartStutters == ASSUME StartInv, UNCHANGED startup PROVE StartInv'
  <1>1. CASE startup.pc = "none"
    BY <1>1 DEF StartInv
  <1>2. CASE startup.pc # "none"
    <2>1. Kept /\ StartTypeOK'
      BY <1>2 DEF StartInv, StartTypeOK, Kept
    <2>2. Ready => Ready'
      BY <2>1, ReadyStays
    <2>3. ResolveBackfillRange' = ResolveBackfillRange /\ OnChain' = OnChain /\ Tables' = Tables
      BY <2>1, SameTask
    <2>4. MayDo(startup.did) => MayDo(startup.did)'
      BY <2>3 DEF MayDo
    <2>5. QED
      BY <1>2, <2>1, <2>2, <2>3, <2>4 DEF StartInv
  <1>3. QED
    BY <1>1, <1>2

LEMMA PosterStartsStep == ASSUME StartInv, PosterStarts PROVE StartInv'
  <1> DEFINE e == LoadDotenv("poster")
  <1>1. startup.pc = "begin" /\ startup.who = "poster" /\ startup.did = <<>>
    BY DEF PosterStarts, StartInv
  <1>2. CASE PosterEnvAccepted(e)
    <2>1. Configured(PosterConfig(e), [subcommand |-> "serve"])
      BY <1>2 DEF PosterStarts
    <2>2. QED
      BY <1>1, <1>2, <2>1, BecomesReady
  <1>3. CASE ~PosterEnvAccepted(e)
    <2>1. ExitWith(2)
      BY <1>3 DEF PosterStarts
    <2>2. QED
      BY <1>1, <2>1, EndsIdle
  <1>4. QED
    BY <1>2, <1>3

LEMMA PosterReconcilesStep == ASSUME StartInv, PosterReconciles PROVE StartInv'
  <1>1. startup.pc = "configured" /\ startup.who = "poster" /\ startup.did = <<>>
    BY DEF PosterReconciles, StartInv
  <1>2. \/ \E code \in {1, 3} : ExitWith(code)
        \/ OnChain /\ Does("serving", <<"serve">>)
    BY DEF PosterReconciles, OnChain
  <1>3. CASE \E code \in {1, 3} : ExitWith(code)
    BY <1>1, <1>3, EndsIdle
  <1>4. CASE OnChain /\ Does("serving", <<"serve">>)
    <2>1. MayDo(<<"serve">>) /\ <<"serve">> # <<>>
      BY <1>4 DEF MayDo
    <2>2. QED
      BY <1>1, <1>4, <2>1, BeginsWork
  <1>5. QED
    BY <1>2, <1>3, <1>4

LEMMA ReaderStartsStep == ASSUME StartInv, ReaderStarts PROVE StartInv'
  <1> DEFINE e == LoadDotenv("reader")
             command == ParseArgs(startup.argv)
  <1>1. startup.pc = "begin" /\ startup.who = "reader" /\ startup.did = <<>>
    BY DEF ReaderStarts, StartInv
  <1>2. \/ {"--help", "-h"} \cap ToSet(startup.argv) # {} /\ ExitWith(0)
        \/ \E code \in {2, 4} : ExitWith(code)
        \/ /\ command # Refused /\ ReaderEnvAccepted(e)
           /\ command.subcommand = "reset" => command.confirmed
           /\ Configured(ReaderConfig(e), command)
    BY DEF ReaderStarts
  <1>3. CASE {"--help", "-h"} \cap ToSet(startup.argv) # {} /\ ExitWith(0)
    BY <1>1, <1>3, EndsIdle
  <1>4. CASE \E code \in {2, 4} : ExitWith(code)
    BY <1>1, <1>4, EndsIdle
  <1>5. CASE /\ command # Refused /\ ReaderEnvAccepted(e)
             /\ command.subcommand = "reset" => command.confirmed
             /\ Configured(ReaderConfig(e), command)
    BY <1>1, <1>5, BecomesReady
  <1>6. QED
    BY <1>2, <1>3, <1>4, <1>5

LEMMA ReaderResetsStep == ASSUME StartInv, ReaderResets PROVE StartInv'
  <1>1. /\ startup.pc = "configured" /\ startup.who = "reader" /\ startup.did = <<>>
        /\ startup.command.subcommand = "reset"
    BY DEF ReaderResets, StartInv
  <1>2. ExitWith(1) \/ Does("over", <<"reset">> \o Tables)
    BY DEF ReaderResets, Tables, Does
  <1>3. CASE ExitWith(1)
    BY <1>1, <1>3, EndsIdle
  <1>4. CASE Does("over", <<"reset">> \o Tables)
    <2>1. <<"reset">> \o Tables # <<>> /\ MayDo(<<"reset">> \o Tables)
      BY <1>1 DEF Tables, MayDo
    <2>2. QED
      BY <1>1, <1>4, <2>1, BeginsWork
  <1>5. QED
    BY <1>2, <1>3, <1>4

LEMMA CreateReaderStep == ASSUME StartInv, CreateReader PROVE StartInv'
  <1>1. /\ startup.pc = "configured" /\ startup.who = "reader" /\ startup.did = <<>> /\ startup.code = 0
        /\ startup.command.subcommand # "reset" /\ StartTypeOK /\ Ready
    BY DEF CreateReader, StartInv
  <1>2. \/ \E code \in {1, 3} : ExitWith(code)
        \/ OnChain /\ startup' = [startup EXCEPT !.pc = "created"]
    BY DEF CreateReader, OnChain
  <1>3. CASE \E code \in {1, 3} : ExitWith(code)
    BY <1>1, <1>3, EndsIdle
  <1>4. CASE OnChain /\ startup' = [startup EXCEPT !.pc = "created"]
    <2>1. /\ Kept /\ startup'.pc = "created" /\ startup'.did = <<>> /\ startup'.code = 0
          /\ startup'.config = startup.config /\ startup'.command = startup.command
      BY <1>1, <1>4 DEF Kept, StartTypeOK, StartFields
    <2>2. StartTypeOK'
      BY <1>1, <2>1 DEF StartTypeOK, Kept
    <2>3. Ready' /\ OnChain'
      BY <1>1, <1>4, <2>1, ReadyStays, SameTask
    <2>4. QED
      BY <1>1, <2>1, <2>2, <2>3 DEF StartInv, Kept
  <1>5. QED
    BY <1>2, <1>3, <1>4

LEMMA ReaderBackfillsStep == ASSUME StartInv, ReaderBackfills PROVE StartInv'
  <1>1. /\ startup.pc = "created" /\ startup.who = "reader" /\ startup.did = <<>>
        /\ startup.command.subcommand = "backfill" /\ StartTypeOK /\ Ready /\ OnChain
    BY DEF ReaderBackfills, StartInv
  <1>2. CASE ResolveBackfillRange = <<>>
    <2>1. ExitWith(4)
      BY <1>2 DEF ReaderBackfills
    <2>2. QED
      BY <1>1, <2>1, EndsIdle
  <1>3. CASE ResolveBackfillRange # <<>>
    <2>1. /\ Does("filling", <<"backfill">> \o ResolveBackfillRange)
          /\ MayDo(<<"backfill">> \o ResolveBackfillRange)
      BY <1>1, <1>3 DEF ReaderBackfills, MayDo
    <2>2. <<"backfill">> \o ResolveBackfillRange # <<>>
      <3>1. PICK from, to : <<"backfill">> \o ResolveBackfillRange = <<"backfill", from, to>>
        BY <1>1, <1>3, RangeNames
      <3>2. <<"backfill", from, to>> # <<>>
        OBVIOUS
      <3>3. QED
        BY <3>1, <3>2
    <2>3. QED
      BY <1>1, <1>3, <2>1, <2>2, BeginsWork
  <1>4. QED
    BY <1>2, <1>3

LEMMA ReaderBackfilledStep == ASSUME StartInv, ReaderBackfilled PROVE StartInv'
  <1>1. CASE startup.pc = "created" /\ ExitWith(1)
    <2>1. startup.did = <<>>
      BY <1>1 DEF StartInv
    <2>2. QED
      BY <1>1, <2>1, EndsIdle
  <1>2. CASE startup.pc = "filling" /\ \E code \in {0, 1} : ExitWith(code)
    <2>1. startup.did # <<>>
      BY <1>2 DEF StartInv
    <2>2. QED
      BY <1>2, <2>1, EndsDone
  <1>3. QED
    BY <1>1, <1>2 DEF ReaderBackfilled

LEMMA ReaderServesStep == ASSUME StartInv, ReaderServes PROVE StartInv'
  <1>1. startup.pc = "created" /\ startup.who = "reader" /\ startup.did = <<>> /\ OnChain
    BY DEF ReaderServes, StartInv
  <1>2. CASE ExitWith(1)
    BY <1>1, <1>2, EndsIdle
  <1>3. CASE Does("serving", <<"serve">>)
    <2>1. MayDo(<<"serve">>) /\ <<"serve">> # <<>>
      BY <1>1 DEF MayDo
    <2>2. QED
      BY <1>1, <1>3, <2>1, BeginsWork
  <1>4. QED
    BY <1>2, <1>3 DEF ReaderServes

LEMMA IndexerStartsStep == ASSUME StartInv, IndexerStarts PROVE StartInv'
  <1> DEFINE e == LoadDotenv("indexer")
             command == IndexerArgs(startup.argv)
  <1>1. startup.pc = "begin" /\ startup.who = "indexer" /\ startup.did = <<>>
    BY DEF IndexerStarts, StartInv
  <1>2. \/ \E code \in {2, 4} : ExitWith(code)
        \/ command # Refused /\ Configured(IndexerConfig(e), command)
    BY DEF IndexerStarts
  <1>3. CASE \E code \in {2, 4} : ExitWith(code)
    BY <1>1, <1>3, EndsIdle
  <1>4. CASE command # Refused /\ Configured(IndexerConfig(e), command)
    BY <1>1, <1>4, BecomesReady
  <1>5. QED
    BY <1>2, <1>3, <1>4

LEMMA CreateIndexerStep == ASSUME StartInv, CreateIndexer PROVE StartInv'
  <1>1. /\ startup.pc = "configured" /\ startup.who = "indexer" /\ startup.did = <<>>
        /\ StartTypeOK /\ Ready
    BY DEF CreateIndexer, StartInv
  <1>2. startup.command.subcommand \in {"serve", "reset"}
    <2>1. startup.argv \in Seq(STRING) /\ startup.command = IndexerArgs(startup.argv)
          /\ IndexerArgs(startup.argv) # Refused
      BY <1>1 DEF StartTypeOK, Ready
    <2>2. QED
      BY <2>1, IndexerCommands
  <1>3. \/ \E code \in {1, 4} : ExitWith(code)
        \/ Does("serving", <<"serve">>)
        \/ /\ startup.command.subcommand # "serve"
           /\ Does("over", <<"reset", startup.command.scope>>)
    BY DEF CreateIndexer, Does
  <1>4. CASE \E code \in {1, 4} : ExitWith(code)
    BY <1>1, <1>4, EndsIdle
  <1>5. CASE Does("serving", <<"serve">>)
    <2>1. MayDo(<<"serve">>) /\ <<"serve">> # <<>>
      BY <1>1 DEF MayDo
    <2>2. QED
      BY <1>1, <1>5, <2>1, BeginsWork
  <1>6. CASE /\ startup.command.subcommand # "serve"
             /\ Does("over", <<"reset", startup.command.scope>>)
    <2>1. <<"reset", startup.command.scope>> # <<>> /\ MayDo(<<"reset", startup.command.scope>>)
      BY <1>1, <1>2, <1>6 DEF MayDo
    <2>2. QED
      BY <1>1, <1>6, <2>1, BeginsWork
  <1>7. QED
    BY <1>3, <1>4, <1>5, <1>6

LEMMA ShutdownStep == ASSUME StartInv, Shutdown PROVE StartInv'
  <1>1. startup.pc = "serving" /\ startup.did # <<>> /\ \E code \in {0, 1} : ExitWith(code)
    BY DEF Shutdown, StartInv
  <1>2. QED
    BY <1>1, EndsDone

LEMMA StartStep == ASSUME StartInv, [StartupNext]_startup PROVE StartInv'
  <1>1. CASE UNCHANGED startup
    BY <1>1, StartStutters
  <1>2. CASE StartupNext
    BY <1>2, PosterStartsStep, PosterReconcilesStep, ReaderStartsStep, ReaderResetsStep,
       CreateReaderStep, ReaderBackfillsStep, ReaderBackfilledStep, ReaderServesStep,
       IndexerStartsStep, CreateIndexerStep, ShutdownStep DEF StartupNext
  <1>3. QED
    BY <1>1, <1>2

LEMMA StartupNumbers ==
  /\ MinReorgWindow \in Nat /\ MaxReorgWindow \in Nat /\ MaxLogChunk \in Nat
  /\ MinLogChunk \in 1 .. MaxLogChunk
  BY StartupAssumption

LEMMA StartupTexts ==
  /\ Finite \in [DOMAIN Finite -> Int] /\ Whole \subseteq DOMAIN Finite \ {Unset}
  /\ "" \in Whole => Finite[""] = 0
  BY StartupAssumption

-----------------------------------------------------------------------------
(* What the invariant says of a process that works *)

\* The three things a process may do, told apart by the first word.
LEMMA WhatItDoes ==
  ASSUME StartTypeOK, Ready, NEW did, MayDo(did)
  PROVE  /\ did # <<>> /\ did[1] \in {"serve", "backfill", "reset"}
         /\ did[1] \in {"serve", "backfill"} /\ startup.who # "indexer" => OnChain
         /\ did[1] = "backfill" =>
               /\ startup.who = "reader"
               /\ "--to" \notin ToSet(startup.argv) =>
                     /\ did[3] = SafeHead
                     /\ did[2] \in {startup.world.cursor + 1, DeployBlock[startup.config.chainId]}
         /\ did[1] = "reset" =>
               /\ startup.who \in {"reader", "indexer"} /\ startup.command.subcommand = "reset"
               /\ startup.who = "reader" => did = <<"reset">> \o Tables
  <1>1. CASE did = <<"serve">> /\ (startup.who # "indexer" => OnChain)
    BY <1>1
  <1>2. CASE /\ startup.who = "reader" /\ startup.command.subcommand = "backfill" /\ OnChain
             /\ ResolveBackfillRange # <<>>
             /\ did = <<"backfill">> \o ResolveBackfillRange
    <2>1. PICK from, to :
            /\ did = <<"backfill", from, to>>
            /\ "--to" \notin ToSet(startup.argv) =>
                  /\ to = SafeHead
                  /\ from \in {startup.world.cursor + 1, DeployBlock[startup.config.chainId]}
      BY <1>2, RangeNames
    <2>2. did # <<>> /\ did[1] = "backfill" /\ did[2] = from /\ did[3] = to
      BY <2>1
    <2>3. QED
      BY <1>2, <2>1, <2>2
  <1>3. CASE /\ startup.who = "reader" /\ startup.command.subcommand = "reset"
             /\ did = <<"reset">> \o Tables
    <2>1. did # <<>> /\ did[1] = "reset"
      BY <1>3 DEF Tables
    <2>2. QED
      BY <1>3, <2>1
  <1>4. CASE /\ startup.who = "indexer" /\ startup.command.subcommand = "reset"
             /\ did = <<"reset", startup.command.scope>>
    <2>1. did # <<>> /\ did[1] = "reset"
      BY <1>4
    <2>2. QED
      BY <1>4, <2>1
  <1>5. QED
    BY <1>1, <1>2, <1>3, <1>4 DEF MayDo

\* The tables a reset names.
LEMMA TablesNamed ==
  LET did == <<"reset">> \o Tables
  IN  (Len(did) > 2 <=> startup.command.scope = "all") /\ "cursor" \in ToSet(did)
  <1> DEFINE did == <<"reset">> \o Tables
             words == {"reset", "cursor", "batches", "messages"}
  <1>1. <<"reset">> \in Seq(words) /\ Tables \in Seq(words)
    <2>1. <<"reset">> \in Seq(words) /\ <<"cursor">> \in Seq(words)
      OBVIOUS
    <2>2. <<"cursor", "batches", "messages">> \in Seq(words)
      OBVIOUS
    <2>3. QED
      BY <2>1, <2>2 DEF Tables
  <1>2. /\ Len(Tables) = IF startup.command.scope = "all" THEN 3 ELSE 1
        /\ Tables[1] = "cursor"
    BY DEF Tables
  <1> HIDE DEF words
  <1>3. did \in Seq(words) /\ Len(did) = 1 + Len(Tables) /\ did[2] = Tables[1]
    <2>1. /\ did \in Seq(words) /\ Len(did) = Len(<<"reset">>) + Len(Tables)
          /\ \A i \in 1 .. Len(<<"reset">>) + Len(Tables) :
                did[i] = IF i <= Len(<<"reset">>) THEN <<"reset">>[i] ELSE Tables[i - Len(<<"reset">>)]
      BY <1>1, ConcatProperties
    <2>2. Len(<<"reset">>) = 1
      OBVIOUS
    <2>3. QED
      BY <1>2, <2>1, <2>2
  <1>4. 2 \in DOMAIN did
    BY <1>2, <1>3
  <1>5. did[2] \in ToSet(did)
    BY <1>4 DEF ToSet
  <1>6. QED
    BY <1>2, <1>3, <1>5

\* A Reader that found the Poster's files is on the Poster's chain and, unless told
\* otherwise, on its database.
LEMMA OneChainOneDatabase ==
  ASSUME Ready, startup.who = "reader", startup.named.poster = startup.named.reader,
         PosterEnvAccepted(LoadDotenv("poster"))
  PROVE  LET poster == PosterConfig(LoadDotenv("poster"))
             urls == {startup.config.dbUrl, poster.dbUrl}
         IN  /\ startup.config.chainId = poster.chainId
             /\ ~Given(LoadDotenv("reader").READER_DB_URL) /\ urls \cap PostgresUrls # {} =>
                   Cardinality(urls) = 1
  <1> DEFINE e == LoadDotenv("reader")
             poster == PosterConfig(e)
             urls == {startup.config.dbUrl, poster.dbUrl}
  <1>1. LoadDotenv("poster") = e
    <2>1. DotenvFile("poster") = DotenvFile("reader")
      BY DEF DotenvFile
    <2>2. LoadDotenv("poster") = Loaded(startup.env, DotenvFile("poster"))
          /\ e = Loaded(startup.env, DotenvFile("reader"))
      BY DEF LoadDotenv, Loaded
    <2>3. QED
      BY <2>1, <2>2
  <1> HIDE DEF e
  <1>2. /\ ReaderEnvAccepted(e) /\ PosterEnvAccepted(e) /\ startup.config = ReaderConfig(e)
    BY <1>1 DEF Ready, e
  <1>3. Given(e.POSTER_CHAIN_ID)
    <2> DEFINE v == e.POSTER_CHAIN_ID
    <2>1. v \in Whole /\ Finite[v] >= 1
      BY <1>2 DEF PosterEnvAccepted, Positive, AtLeast
    <2> HIDE DEF v
    <2>2. v # Unset
      BY <2>1, StartupTexts
    <2>3. v # ""
      <3>1. v = "" => Finite[v] = 0
        BY <2>1, StartupTexts
      <3>2. Finite[v] \in Int
        BY <2>1, StartupTexts
      <3> DEFINE number == Finite[v]
      <3> HIDE DEF number
      <3>3. number \in Int /\ number >= 1 => number # 0
        OBVIOUS
      <3>4. QED
        BY <2>1, <3>1, <3>2, <3>3 DEF number
    <2>4. QED
      BY <2>2, <2>3 DEF Given, v
  <1>4. startup.config.chainId = poster.chainId
    BY <1>2, <1>3 DEF ReaderEnvAccepted, SameChain, ReaderConfig, PosterConfig
  <1>5. ASSUME ~Given(e.READER_DB_URL), urls \cap PostgresUrls # {}
        PROVE  Cardinality(urls) = 1
    <2>1. startup.config.dbUrl = ReaderDbUrl(e)
      BY <1>2 DEF ReaderConfig
    <2>2. /\ startup.config.dbUrl = IF Given(e.POSTGRES_URL) THEN e.POSTGRES_URL ELSE "memory:"
          /\ poster.dbUrl = IF Given(e.POSTGRES_URL) THEN e.POSTGRES_URL ELSE "in process"
      BY <1>5, <2>1 DEF ReaderDbUrl, PosterConfig
    <2>3. Given(e.POSTGRES_URL)
      BY <1>5, <2>2, StartupAssumption
    <2>4. urls = {e.POSTGRES_URL}
      BY <2>2, <2>3
    <2> HIDE DEF urls
    <2>5. QED
      BY <2>4, FS_Singleton
  <1>6. QED
    BY <1>1, <1>4, <1>5 DEF e

LEMMA MeansWell == ASSUME StartInv PROVE StartsAsMeant
  <1> SUFFICES ASSUME startup.pc # "none"
      PROVE LET config == startup.config
                did == startup.did
                works == did # <<>>
                poster == LoadDotenv("poster")
                sameFiles == startup.named.poster = startup.named.reader
            IN  /\ works /\ startup.who # "indexer" =>
                     config.window \in MinReorgWindow .. MaxReorgWindow
                /\ works /\ startup.who = "reader" => config.chunk \in MinLogChunk .. MaxLogChunk
                /\ works /\ startup.who # "indexer" /\ did[1] # "reset" =>
                     config.chainId = startup.world.chain
                /\ works /\ startup.who = "reader" /\ sameFiles /\ PosterEnvAccepted(poster) =>
                     /\ config.chainId = PosterConfig(poster).chainId
                     /\ ~Given(LoadDotenv("reader").READER_DB_URL) =>
                            LET urls == {config.dbUrl, PosterConfig(poster).dbUrl}
                            IN  urls \cap PostgresUrls # {} => Cardinality(urls) = 1
                /\ works /\ did[1] = "backfill" /\ "--to" \notin ToSet(startup.argv) =>
                     /\ did[3] <= Max({0, startup.world.head - config.window})
                     /\ did[2] \in {startup.world.cursor + 1, DeployBlock[config.chainId]}
                /\ works /\ did[1] = "reset" =>
                     /\ "--yes" \in ToSet(startup.argv)
                     /\ startup.who = "reader" =>
                            (Len(did) > 2 <=> "--all" \in ToSet(startup.argv)) /\ "cursor" \in ToSet(did)
                /\ startup.pc = "over" /\ startup.code \in {2, 3, 4} => ~works
                /\ startup.pc = "over" /\ startup.code = 0 =>
                     works \/ {"--help", "-h"} \cap ToSet(startup.argv) # {}
    BY DEF StartsAsMeant
  <1> DEFINE did == startup.did
  <1>1. /\ StartTypeOK
        /\ startup.pc = "over" /\ startup.code \in {2, 3, 4} => did = <<>>
        /\ startup.pc = "over" /\ startup.code = 0 =>
              did # <<>> \/ {"--help", "-h"} \cap ToSet(startup.argv) # {}
    BY DEF StartInv
  <1>2. CASE did = <<>>
    BY <1>1, <1>2
  <1>3. CASE did # <<>>
    <2>1. Ready /\ MayDo(did)
      BY <1>3 DEF StartInv
    <2> HIDE DEF did
    <2>2. /\ did[1] \in {"serve", "backfill", "reset"}
          /\ did[1] \in {"serve", "backfill"} /\ startup.who # "indexer" => OnChain
          /\ did[1] = "backfill" =>
                /\ startup.who = "reader"
                /\ "--to" \notin ToSet(startup.argv) =>
                      /\ did[3] = SafeHead
                      /\ did[2] \in {startup.world.cursor + 1, DeployBlock[startup.config.chainId]}
          /\ did[1] = "reset" =>
                /\ startup.who \in {"reader", "indexer"} /\ startup.command.subcommand = "reset"
                /\ startup.who = "reader" => did = <<"reset">> \o Tables
      BY <1>1, <2>1, WhatItDoes
    <2>3. startup.who # "indexer" => startup.config.window \in MinReorgWindow .. MaxReorgWindow
      <3>1. CASE startup.who = "poster"
        <4> DEFINE e == LoadDotenv("poster")
        <4>1. startup.config = PosterConfig(e)
          BY <2>1, <3>1 DEF Ready
        <4>2. PosterConfig(e).window = ReorgWindow(e.POSTER_REORG_WINDOW_BLOCKS)
          BY DEF PosterConfig
        <4>3. QED
          BY <4>1, <4>2, WindowInBounds
      <3>2. CASE startup.who = "reader"
        <4>1. startup.config.window = ReorgWindow(LoadDotenv("reader").READER_REORG_WINDOW_BLOCKS)
          BY <2>1, <3>2 DEF Ready, ReaderConfig
        <4>2. QED
          BY <4>1, WindowInBounds
      <3>3. QED
        BY <1>1, <3>1, <3>2 DEF StartTypeOK, Services
    <2>4. ASSUME startup.who = "reader" PROVE startup.config.chunk \in MinLogChunk .. MaxLogChunk
      <3> DEFINE e == LoadDotenv("reader")
                 v == Or(e.READER_LOG_SCAN_CHUNK_BLOCKS, "2000")
      <3>1. startup.config.chunk = Finite[v] /\ Between(v, MinLogChunk, MaxLogChunk)
        BY <2>1, <2>4 DEF Ready, ReaderConfig, ReaderEnvAccepted
      <3> HIDE DEF v
      <3>2. v \in Whole /\ Finite[v] >= MinLogChunk /\ Finite[v] <= MaxLogChunk
        BY <3>1 DEF Between, AtLeast
      <3>3. Finite[v] \in Int
        BY <3>2, StartupTexts
      <3>4. QED
        BY <3>1, <3>2, <3>3, StartupNumbers
    <2>5. startup.who # "indexer" /\ did[1] # "reset" => startup.config.chainId = startup.world.chain
      BY <2>2 DEF OnChain
    <2>6. did[1] = "backfill" /\ "--to" \notin ToSet(startup.argv) =>
             /\ did[3] <= Max({0, startup.world.head - startup.config.window})
             /\ did[2] \in {startup.world.cursor + 1, DeployBlock[startup.config.chainId]}
      <3>1. startup.who = "reader" => SafeHead \in Int
        <4> DEFINE behind == startup.world.head - startup.config.window
        <4>1. startup.who = "reader" => behind \in Int
          <5>1. MinReorgWindow \in Int /\ MaxReorgWindow \in Int
            BY StartupNumbers
          <5>2. startup.world.head \in Int
            BY <1>1 DEF StartTypeOK
          <5>3. QED
            BY <2>3, <5>1, <5>2
        <4> HIDE DEF behind
        <4>2. startup.who = "reader" => Max({0, behind}) \in Int
          BY <4>1, TwoNumbers
        <4>3. QED
          BY <4>2 DEF SafeHead, behind
      <3>2. SafeHead \in Int => SafeHead <= SafeHead
        OBVIOUS
      <3>3. QED
        BY <2>2, <3>1, <3>2 DEF SafeHead
    <2>7. ASSUME did[1] = "reset"
          PROVE  /\ "--yes" \in ToSet(startup.argv)
                 /\ startup.who = "reader" =>
                        (Len(did) > 2 <=> "--all" \in ToSet(startup.argv)) /\ "cursor" \in ToSet(did)
      <3>1. startup.argv \in Seq(STRING)
        BY <1>1 DEF StartTypeOK
      <3>2. CASE startup.who = "reader"
        <4>1. /\ startup.command = ParseArgs(startup.argv) /\ ParseArgs(startup.argv) # Refused
              /\ startup.command.confirmed
          BY <2>1, <2>2, <2>7, <3>2 DEF Ready
        <4>2. /\ "--yes" \in ToSet(startup.argv)
              /\ startup.command.scope = "all" <=> "--all" \in ToSet(startup.argv)
          BY <2>2, <2>7, <3>1, <4>1, ReaderCommands
        <4>3. QED
          BY <2>2, <2>7, <3>2, <4>2, TablesNamed
      <3>3. CASE startup.who = "indexer"
        <4>1. startup.command = IndexerArgs(startup.argv) /\ IndexerArgs(startup.argv) # Refused
          BY <2>1, <3>3 DEF Ready
        <4>2. "--yes" \in ToSet(startup.argv)
          BY <2>2, <2>7, <3>1, <4>1, IndexerCommands
        <4>3. QED
          BY <3>3, <4>2
      <3>4. QED
        BY <2>2, <2>7, <3>2, <3>3
    <2>8. startup.who = "reader" /\ startup.named.poster = startup.named.reader
          /\ PosterEnvAccepted(LoadDotenv("poster")) =>
             /\ startup.config.chainId = PosterConfig(LoadDotenv("poster")).chainId
             /\ ~Given(LoadDotenv("reader").READER_DB_URL) =>
                    LET urls == {startup.config.dbUrl, PosterConfig(LoadDotenv("poster")).dbUrl}
                    IN  urls \cap PostgresUrls # {} => Cardinality(urls) = 1
      BY <2>1, OneChainOneDatabase
    <2>9. QED
      BY <1>1, <1>3, <2>3, <2>4, <2>5, <2>6, <2>7, <2>8 DEF did
  <1>4. QED
    BY <1>2, <1>3

\* The services start as meant, from any environment, files, command line, chain and database:
\* a process that serves, backfills or resets runs on the RPC's chain with a window and a chunk
\* within bounds, a Reader that found the Poster's files reads the Poster's chain and database, a
\* range it works out ends behind the reorg window, and rows are deleted only at --yes.
THEOREM ServicesStartAsMeant == StartupSpec => []StartsAsMeant
  <1>1. StartupInit => StartInv
    BY StartStart
  <1>2. StartInv /\ [StartupNext]_startup => StartInv'
    BY StartStep
  <1>3. StartInv => StartsAsMeant
    BY MeansWell
  <1>4. QED
    BY <1>1, <1>2, <1>3, PTL DEF StartupSpec

-----------------------------------------------------------------------------
(* Ordered lists *)

\* A strict total order of S.
Orders(precedes, S) ==
    /\ \A x \in S : <<x, x>> \notin precedes
    /\ \A x, y \in S : x # y => <<x, y>> \in precedes \/ <<y, x>> \in precedes
    /\ \A x, y, z \in S : <<x, y>> \in precedes /\ <<y, z>> \in precedes
                             => <<x, z>> \in precedes

ByRank(S, precedes) ==
    [i \in 1 .. Cardinality(S) |->
        CHOOSE x \in S : Cardinality({y \in S : <<y, x>> \in precedes}) = i - 1]

\* By ranks: every row once, and in the order asked for.  The ranks are distinct and below
\* the number of rows, so by the pigeonhole principle each number is the rank of a row.
LEMMA RankedRows ==
  ASSUME NEW S, IsFiniteSet(S), NEW precedes, Orders(precedes, S)
  PROVE  /\ Cardinality(S) \in Nat
         /\ ByRank(S, precedes) \in [1 .. Cardinality(S) -> S]
         /\ Range(ByRank(S, precedes)) = S
         /\ \A i, j \in 1 .. Cardinality(S) :
               i < j => <<ByRank(S, precedes)[i], ByRank(S, precedes)[j]>> \in precedes
  <1> DEFINE ahead(x) == {y \in S : <<y, x>> \in precedes}
             n == Cardinality(S)
             rank(x) == Cardinality(ahead(x))
             list == ByRank(S, precedes)
  <1>1. n \in Nat
    BY FS_CardinalityType
  <1>2. ASSUME NEW x \in S
        PROVE  IsFiniteSet(ahead(x)) /\ rank(x) \in 0 .. n - 1
    <2>1. /\ IsFiniteSet(S \ {x})
          /\ Cardinality(S \ {x}) = n - 1
      BY FS_RemoveElement
    <2>2. ahead(x) \in SUBSET (S \ {x})
      BY DEF Orders
    <2> HIDE DEF ahead, n
    <2>3. IsFiniteSet(ahead(x)) /\ Cardinality(ahead(x)) <= n - 1
      BY <2>1, <2>2, FS_Subset
    <2>4. Cardinality(ahead(x)) \in Nat
      BY <2>3, FS_CardinalityType
    <2>5. QED
      BY <1>1, <2>3, <2>4
  <1>3. ASSUME NEW x \in S, NEW y \in S, <<x, y>> \in precedes
        PROVE  rank(x) < rank(y)
    <2>1. ahead(x) \in SUBSET ahead(y) /\ ahead(x) # ahead(y)
      BY <1>3 DEF Orders
    <2> HIDE DEF ahead
    <2>2. Cardinality(ahead(x)) <= Cardinality(ahead(y)) /\ Cardinality(ahead(x)) # Cardinality(ahead(y))
      BY <1>2, <2>1, FS_Subset
    <2>3. rank(x) \in Int /\ rank(y) \in Int
      BY <1>1, <1>2
    <2>4. QED
      BY <2>2, <2>3
  <1> HIDE DEF ahead
  <1>4. \A x, y \in S : rank(x) = rank(y) => x = y
    <2>1. \A x, y \in S : x # y => rank(x) < rank(y) \/ rank(y) < rank(x)
      BY <1>3 DEF Orders
    <2>2. \A x \in S : rank(x) \in Int
      BY <1>1, <1>2
    <2> HIDE DEF rank
    <2>3. QED
      BY <2>1, <2>2
  <1>5. ASSUME NEW r \in 0 .. n - 1
        PROVE  \E x \in S : rank(x) = r
    <2> SUFFICES ASSUME \A x \in S : rank(x) # r
                 PROVE  FALSE
      OBVIOUS
    <2> DEFINE f == [x \in S |-> rank(x)]
    <2> HIDE DEF rank
    <2>1. f \in [S -> (0 .. n - 1) \ {r}] /\ \A x \in S : f[x] = rank(x)
      BY <1>2
    <2>2. IsFiniteSet(0 .. n - 1) /\ Cardinality(0 .. n - 1) = n
      BY <1>1, FS_Interval
    <2>3. /\ IsFiniteSet((0 .. n - 1) \ {r})
          /\ Cardinality((0 .. n - 1) \ {r}) = n - 1
      BY <2>2, FS_RemoveElement
    <2>4. Cardinality((0 .. n - 1) \ {r}) < Cardinality(S)
      BY <1>1, <2>3
    <2> HIDE DEF f, n
    <2>5. \E x, y \in S : x # y /\ f[x] = f[y]
      BY <2>1, <2>3, <2>4, FS_PigeonHole
    <2>6. QED
      BY <1>4, <2>1, <2>5
  <1>6. list = [i \in 1 .. n |-> CHOOSE x \in S : rank(x) = i - 1]
    BY DEF ByRank, ahead, rank
  <1> HIDE DEF rank, n, list
  <1>7. ASSUME NEW i \in 1 .. n
        PROVE  list[i] \in S /\ rank(list[i]) = i - 1
    <2>1. \E x \in S : rank(x) = i - 1
      BY <1>1, <1>5
    <2>2. QED
      BY <1>6, <2>1
  <1>8. list \in [1 .. n -> S]
    BY <1>6, <1>7
  <1>9. ASSUME NEW x \in S
        PROVE  \E i \in 1 .. n : list[i] = x
    <2>1. rank(x) + 1 \in 1 .. n
      BY <1>1, <1>2
    <2>2. rank(list[rank(x) + 1]) = rank(x) /\ list[rank(x) + 1] \in S
      BY <1>1, <1>2, <1>7, <2>1
    <2>3. QED
      BY <1>4, <2>1, <2>2
  <1>10. Range(list) = S
    BY <1>8, <1>9 DEF Range
  <1>11. ASSUME NEW i \in 1 .. n, NEW j \in 1 .. n, i < j
         PROVE  <<list[i], list[j]>> \in precedes
    <2>1. list[i] \in S /\ list[j] \in S /\ rank(list[i]) < rank(list[j])
      BY <1>1, <1>7, <1>11
    <2>2. rank(list[i]) \in Int /\ rank(list[j]) \in Int
      BY <1>1, <1>2, <2>1
    <2>3. list[i] # list[j] /\ <<list[j], list[i]>> \notin precedes
      BY <1>3, <2>1, <2>2
    <2>4. QED
      BY <2>1, <2>3 DEF Orders
  <1>12. QED
    BY <1>1, <1>8, <1>10, <1>11 DEF n, list

\* What ORDER BY needs of a comparison: rows it does not tell apart behave alike.
Compares(precedes, S) ==
    /\ \A x, y \in S : <<x, y>> \in precedes => <<y, x>> \notin precedes
    /\ \A x, y, z \in S : <<x, z>> \in precedes
                             => <<x, y>> \in precedes \/ <<y, z>> \in precedes

\* An arrangement moves every member to one place.
LEMMA ArrangedRows ==
  ASSUME NEW n \in Nat, NEW s, DOMAIN s = 1 .. n, NEW precedes, Compares(precedes, Range(s))
  PROVE  \E at \in [1 .. n -> 1 .. n] :
            /\ Range(at) = 1 .. n
            /\ \A i, j \in 1 .. n : i # j => at[i] # at[j]
            /\ Arranged(s, precedes) = [i \in 1 .. n |-> s[at[i]]]
            /\ \A i, j \in 1 .. n : i < j => <<s[at[j]], s[at[i]]>> \notin precedes
  <1> DEFINE D == 1 .. n
             goes(j, i) == <<s[j], s[i]>> \in precedes \/ (j < i /\ <<s[i], s[j]>> \notin precedes)
             order == {p \in D \X D : goes(p[1], p[2])}
             at == ByRank(D, order)
  <1>1. IsFiniteSet(D) /\ Cardinality(D) = n
    BY FS_Interval
  <1>2. \A i \in D : s[i] \in Range(s)
    BY DEF Range
  <1>3. \A j, i \in D : <<j, i>> \in order <=> goes(j, i)
    OBVIOUS
  <1>4. Orders(order, D)
    <2>1. \A i \in D : ~goes(i, i)
      BY <1>2 DEF Compares
    <2>2. \A i, j \in D : i # j => goes(i, j) \/ goes(j, i)
      BY <1>2
    <2>3. ASSUME NEW k \in D, NEW j \in D, NEW i \in D, goes(k, j), goes(j, i)
          PROVE  goes(k, i)
      <3>1. s[k] \in Range(s) /\ s[j] \in Range(s) /\ s[i] \in Range(s)
        BY <1>2
      <3>2. CASE <<s[k], s[j]>> \in precedes
        BY <2>3, <3>1, <3>2 DEF Compares
      <3>3. CASE <<s[k], s[j]>> \notin precedes /\ <<s[j], s[i]>> \in precedes
        BY <2>3, <3>1, <3>3 DEF Compares
      <3>4. CASE <<s[k], s[j]>> \notin precedes /\ <<s[j], s[i]>> \notin precedes
        <4>1. k < i
          BY <2>3, <3>4
        <4>2. <<s[i], s[k]>> \notin precedes
          BY <2>3, <3>1, <3>4 DEF Compares
        <4>3. QED
          BY <4>1, <4>2
      <3>5. QED
        BY <3>2, <3>3, <3>4
    <2> HIDE DEF order, goes
    <2>4. QED
      BY <1>3, <2>1, <2>2, <2>3 DEF Orders
  <1>5. /\ at \in [D -> D] /\ Range(at) = D
        /\ \A i, j \in D : i < j => <<at[i], at[j]>> \in order
    <2> HIDE DEF order
    <2>1. QED
      BY <1>1, <1>4, RankedRows
  <1>6. Arranged(s, precedes) = [i \in D |-> s[at[i]]]
    <2>1. \A i \in D : {j \in D : <<j, i>> \in order} = {j \in D : goes(j, i)}
      BY <1>3
    <2>2. \A i \in D : at[i] = CHOOSE x \in D : Cardinality({y \in D : <<y, x>> \in order}) = i - 1
      BY <1>1, Zenon DEF ByRank
    <2> DEFINE ranks(x, i) == Cardinality({y \in D : <<y, x>> \in order}) = i - 1
               places(x, i) == Cardinality({y \in D : goes(y, x)}) = i - 1
    <2>3. \A x, i \in D : ranks(x, i) <=> places(x, i)
      BY <2>1, Zenon
    <2>4. \A i \in D : at[i] = CHOOSE x \in D : ranks(x, i)
      BY <2>2, Zenon
    <2>5. Arranged(s, precedes) = [i \in D |-> s[CHOOSE x \in D : places(x, i)]]
      BY DEF Arranged
    <2> HIDE DEF ranks, places, at, order, goes
    <2>6. \A i \in D : (CHOOSE x \in D : ranks(x, i)) = CHOOSE x \in D : places(x, i)
      BY <2>3
    <2>7. \A i \in D : at[i] = CHOOSE x \in D : places(x, i)
      BY <2>4, <2>6
    <2> DEFINE chosen(i) == CHOOSE x \in D : places(x, i)
    <2>8. Arranged(s, precedes) = [i \in D |-> s[chosen(i)]] /\ \A i \in D : at[i] = chosen(i)
      BY <2>5, <2>7
    <2> HIDE DEF chosen
    <2>9. QED
      BY <2>8
  <1>7. ASSUME NEW i \in D, NEW j \in D, i < j
        PROVE  at[i] # at[j] /\ <<s[at[j]], s[at[i]]>> \notin precedes
    <2>1. at[i] \in D /\ at[j] \in D /\ goes(at[i], at[j])
      BY <1>3, <1>5, <1>7, ZenonT(60)
    <2>2. s[at[i]] \in Range(s) /\ s[at[j]] \in Range(s)
      BY <1>2, <2>1, Zenon
    <2> HIDE DEF at
    <2>3. <<s[at[j]], s[at[i]]>> \notin precedes
      BY <2>1, <2>2 DEF Compares
    <2>4. at[i] # at[j]
      BY <1>4, <1>5, <1>7 DEF Orders
    <2>5. QED
      BY <2>3, <2>4
  <1> HIDE DEF at
  <1>8. \A i, j \in D : i # j => at[i] # at[j]
    <2>1. \A i, j \in D : i < j => at[i] # at[j]
      BY <1>7
    <2>2. \A i, j \in D : i # j => i < j \/ j < i
      OBVIOUS
    <2>3. QED
      BY <2>1, <2>2
  <1>9. QED
    BY <1>5, <1>6, <1>7, <1>8

\* SELECT ... ORDER BY: the rows found, each once.
LEMMA FoundRows ==
  ASSUME NEW found, IsFiniteSet(found), NEW precedes, Compares(precedes, found)
  PROVE  LET n == Cardinality(found)
             list == Arranged(SetToSeq(found), precedes)
         IN  /\ n \in Nat /\ list \in [1 .. n -> found] /\ Range(list) = found
             /\ \A i, j \in 1 .. n : i # j => list[i] # list[j]
             /\ \A i, j \in 1 .. n : i < j => <<list[j], list[i]>> \notin precedes
  <1> DEFINE n == Cardinality(found)
             s == SetToSeq(found)
             list == Arranged(s, precedes)
  <1>1. n \in Nat /\ ExistsBijection(1 .. n, found)
    BY FS_CardinalityType
  <1>2. s \in [1 .. n -> found] /\ (\A i, j \in 1 .. n : s[i] = s[j] => i = j)
    <2>1. \E f \in [1 .. n -> found] : IsInjective(f)
      BY <1>1 DEF ExistsBijection, Bijection, Injection, IsInjective
    <2>2. s \in [1 .. n -> found] /\ IsInjective(s)
      BY <2>1 DEF SetToSeq
    <2>3. QED
      BY <2>2 DEF IsInjective
  <1>3. Range(s) = found
    <2>1. \A x \in found : \E i \in 1 .. n : s[i] = x
      <3> SUFFICES ASSUME NEW x \in found, \A i \in 1 .. n : s[i] # x
                   PROVE  FALSE
        OBVIOUS
      <3>1. s \in [1 .. n -> found \ {x}]
        BY <1>2
      <3>2. IsFiniteSet(found \ {x}) /\ Cardinality(found \ {x}) = n - 1
        BY FS_RemoveElement
      <3>3. IsFiniteSet(1 .. n) /\ Cardinality(1 .. n) = n
        BY <1>1, FS_Interval
      <3>4. Cardinality(found \ {x}) < Cardinality(1 .. n)
        BY <1>1, <3>2, <3>3
      <3> DEFINE places == 1 .. n
                 others == found \ {x}
      <3>5. IsFiniteSet(places) /\ IsFiniteSet(others) /\ Cardinality(others) < Cardinality(places) /\ s \in [places -> others]
        BY <3>1, <3>2, <3>3, <3>4
      <3> HIDE DEF s, n, places, others
      <3>51. \E i, j \in places : i # j /\ s[i] = s[j]
        BY <3>5, FS_PigeonHole
      <3>6. QED
        BY <1>2, <3>51 DEF places
    <2> HIDE DEF s, n
    <2>2. QED
      BY <1>2, <2>1 DEF Range
  <1> HIDE DEF n, s
  <1>4. PICK at \in [1 .. n -> 1 .. n] :
            /\ Range(at) = 1 .. n
            /\ \A i, j \in 1 .. n : i # j => at[i] # at[j]
            /\ list = [i \in 1 .. n |-> s[at[i]]]
            /\ \A i, j \in 1 .. n : i < j => <<s[at[j]], s[at[i]]>> \notin precedes
    <2>1. DOMAIN s = 1 .. n /\ Compares(precedes, Range(s))
      BY <1>2, <1>3
    <2>2. QED
      BY <1>1, <2>1, ArrangedRows
  <1> HIDE DEF list
  <1>5. list \in [1 .. n -> found] /\ \A i \in 1 .. n : list[i] = s[at[i]]
    BY <1>2, <1>4
  <1>6. \A i, j \in 1 .. n : i # j => list[i] # list[j]
    BY <1>2, <1>4, <1>5
  <1>7. \A x \in found : \E i \in 1 .. n : list[i] = x
    BY <1>3, <1>2, <1>4, <1>5 DEF Range
  <1>8. Range(list) = found
    BY <1>5, <1>7 DEF Range
  <1>9. QED
    BY <1>1, <1>4, <1>5, <1>6, <1>8 DEF n, s, list

-----------------------------------------------------------------------------
(* The list of proofs, page by page *)

ProofRow == [at : Nat, hash : ProofHashes]

LEMMA NewestFirst ==
  ASSUME NEW r \in ProofRow, NEW s \in ProofRow
  PROVE  Newest(r, s) <=> s.at < r.at \/ (s.at = r.at /\ s.hash < r.hash)
  <1> DEFINE a == <<s.at, s.hash>>
             b == <<r.at, r.hash>>
  <1>1. DOMAIN a = {1, 2} /\ a[1] = s.at /\ a[2] = s.hash /\ b[1] = r.at /\ b[2] = r.hash
    OBVIOUS
  <1> HIDE DEF a, b
  <1>2. LexLess(a, b) <=> a[1] < b[1] \/ (a[2] < b[2] /\ a[1] = b[1])
    <2>1. \A j : j \notin 1 .. 1 - 1
      OBVIOUS
    <2>2. \A j : j \in 1 .. 2 - 1 <=> j = 1
      OBVIOUS
    <2>3. LexLess(a, b) <=> \E i \in {1, 2} : a[i] < b[i] /\ \A j \in 1 .. i - 1 : a[j] = b[j]
      BY <1>1 DEF LexLess
    <2>4. (\A j \in 1 .. 1 - 1 : a[j] = b[j]) /\ ((\A j \in 1 .. 2 - 1 : a[j] = b[j]) <=> a[1] = b[1])
      BY <2>1, <2>2
    <2> QED
      BY <2>3, <2>4
  <1> QED
    BY <1>1, <1>2 DEF Newest, a, b

\* Of two proofs one is newer.
LEMMA NewestOrders ==
  /\ \A r \in ProofRow : ~Newest(r, r)
  /\ \A r, s \in ProofRow : r # s => Newest(r, s) \/ Newest(s, r)
  /\ \A r, s, t \in ProofRow : Newest(r, s) /\ Newest(s, t) => Newest(r, t)
  <1>1. \A r \in ProofRow : r.at \in Int /\ r.hash \in Int
    <2>1. ProofHashes \subseteq Nat
      BY ReadApiAssumption
    <2>2. \A r \in ProofRow : r.at \in Nat /\ r.hash \in ProofHashes
      BY DEF ProofRow
    <2> HIDE DEF ProofRow
    <2>3. ASSUME NEW r \in ProofRow
          PROVE  r.at \in Int /\ r.hash \in Int
      <3>1. r.at \in Nat /\ r.hash \in Nat
        BY <2>1, <2>2
      <3>2. QED
        BY <3>1
    <2>4. QED
      BY <2>3
  <1>2. \A r, s \in ProofRow : r.at = s.at /\ r.hash = s.hash => r = s
    BY DEF ProofRow
  <1>3. \A r \in ProofRow : ~Newest(r, r)
    BY <1>1, NewestFirst
  <1>4. ASSUME NEW r \in ProofRow, NEW s \in ProofRow, r # s
        PROVE  Newest(r, s) \/ Newest(s, r)
    BY <1>1, <1>2, <1>4, NewestFirst
  <1>5. ASSUME NEW r \in ProofRow, NEW s \in ProofRow, NEW t \in ProofRow, Newest(r, s), Newest(s, t)
        PROVE  Newest(r, t)
    <2>1. s.at < r.at \/ (s.at = r.at /\ s.hash < r.hash)
      BY <1>5, NewestFirst
    <2>2. t.at < s.at \/ (t.at = s.at /\ t.hash < s.hash)
      BY <1>5, NewestFirst
    <2>3. t.at < r.at \/ (t.at = r.at /\ t.hash < r.hash)
      BY <1>1, <2>1, <2>2
    <2>4. QED
      BY <2>3, NewestFirst
  <1>6. QED
    BY <1>3, <1>4, <1>5

PastCursor(rows, after) == {r \in rows : after = Absent \/ Newest(after, r)}

\* What a page holds: rows past the cursor, each once; and all of them, or as many as asked for,
\* the last of which is newer than every row that did not fit.
LEMMA OnePage ==
  ASSUME NEW rows \in SUBSET ProofRow, IsFiniteSet(rows), NEW after \in ProofRow \cup {Absent},
         NEW limit \in 1 .. 200
  PROVE  LET page == ProofPageOf(rows, after, limit)
             rest == PastCursor(rows, after)
         IN  \E n \in 0 .. limit :
                /\ page \in [1 .. n -> rest]
                /\ \A i, j \in 1 .. n : i # j => page[i] # page[j]
                /\ n < limit => Range(page) = rest
                /\ n = limit => \A i \in 1 .. n : page[i] = page[n] \/ Newest(page[i], page[n])
                /\ n = limit => \A r \in rest : r \in Range(page) \/ Newest(page[n], r)
  <1> DEFINE rest == PastCursor(rows, after)
             precedes == {p \in rest \X rest : Newest(p[1], p[2])}
             sorted == Arranged(SetToSeq(rest), precedes)
             page == ProofPageOf(rows, after, limit)
             c == Cardinality(rest)
             n == IF c < limit THEN c ELSE limit
  <1>1. rest \in SUBSET ProofRow /\ IsFiniteSet(rest)
    BY FS_Subset DEF PastCursor
  <1>2. \A r, s \in rest : <<r, s>> \in precedes <=> Newest(r, s)
    OBVIOUS
  <1>3. page = IF limit = Absent \/ Len(sorted) < limit THEN sorted ELSE SubSeq(sorted, 1, limit)
    BY DEF ProofPageOf, Query, PastCursor
  <1>4. Absent \notin Nat
    BY ReadApiAssumption
  <1> HIDE DEF rest, precedes
  <1>5. Compares(precedes, rest)
    BY <1>1, <1>2, NewestOrders DEF Compares
  <1>6. /\ c \in Nat /\ sorted \in [1 .. c -> rest] /\ Range(sorted) = rest
        /\ \A i, j \in 1 .. c : i # j => sorted[i] # sorted[j]
        /\ \A i, j \in 1 .. c : i < j => <<sorted[j], sorted[i]>> \notin precedes
    BY <1>1, <1>5, FoundRows
  <1> HIDE DEF sorted, c
  <1>7. ASSUME NEW i \in 1 .. c, NEW j \in 1 .. c, i < j
        PROVE  Newest(sorted[i], sorted[j])
    <2>1. sorted[i] \in rest /\ sorted[j] \in rest /\ sorted[i] # sorted[j]
      BY <1>6, <1>7
    <2>2. ~Newest(sorted[j], sorted[i])
      BY <1>2, <1>6, <1>7, <2>1
    <2>3. QED
      BY <1>1, <2>1, <2>2, NewestOrders
  <1>8. sorted \in Seq(rest) /\ Len(sorted) = c /\ DOMAIN sorted = 1 .. c
    BY <1>6
  <1>9. n \in 0 .. limit /\ n <= c
    BY <1>6
  <1>10. page \in [1 .. n -> rest] /\ \A i \in 1 .. n : page[i] = sorted[i]
    <2>1. CASE c < limit
      BY <1>3, <1>6, <1>8, <2>1
    <2>2. CASE ~(c < limit)
      <3>1. page = SubSeq(sorted, 1, limit)
        BY <1>3, <1>4, <1>8, <2>2
      <3>2. n = limit /\ limit \in Nat /\ limit <= c /\ 1 \in 1 .. limit
        BY <1>6, <2>2
      <3> HIDE DEF n
      <3>3. /\ SubSeq(sorted, 1, limit) \in Seq(rest) /\ Len(SubSeq(sorted, 1, limit)) = limit
            /\ \A i \in 1 .. limit : SubSeq(sorted, 1, limit)[i] = sorted[i]
        BY <1>6, <1>8, <3>2
      <3>4. \A i \in 1 .. limit : sorted[i] \in rest
        BY <1>6, <3>2
      <3>5. page \in Seq(rest) /\ Len(page) = n /\ \A i \in 1 .. n : page[i] = sorted[i]
        BY <3>1, <3>2, <3>3
      <3> HIDE DEF page
      <3>6. page \in [1 .. n -> rest]
        BY <3>5
      <3>7. QED
        BY <3>5, <3>6
    <2>3. QED
      BY <2>1, <2>2
  <1> HIDE DEF page
  <1>11. \A i, j \in 1 .. n : i # j => page[i] # page[j]
    BY <1>6, <1>9, <1>10
  <1>12. n < limit => Range(page) = rest
    <2> SUFFICES ASSUME n < limit PROVE Range(page) = rest
      OBVIOUS
    <2>1. n = c
      OBVIOUS
    <2> HIDE DEF n
    <2>2. page = sorted
      BY <1>6, <1>10, <2>1
    <2>3. QED
      BY <1>6, <2>2
  <1>13. ASSUME n = limit
         PROVE  /\ \A i \in 1 .. n : page[i] = page[n] \/ Newest(page[i], page[n])
                /\ \A r \in rest : r \in Range(page) \/ Newest(page[n], r)
    <2>1. n \in 1 .. c
      BY <1>9, <1>13
    <2> HIDE DEF n
    <2>2. \A i \in 1 .. n : i \in 1 .. c /\ (i = n \/ i < n)
      BY <1>6, <1>9
    <2>3. \A i \in 1 .. n : page[i] = page[n] \/ Newest(page[i], page[n])
      BY <1>7, <1>9, <1>10, <2>1, <2>2
    <2>4. ASSUME NEW r \in rest
          PROVE  r \in Range(page) \/ Newest(page[n], r)
      <3>1. PICK k \in 1 .. c : sorted[k] = r
        BY <1>6, <1>8 DEF Range
      <3>2. CASE k <= n
        <4>1. k \in 1 .. n /\ DOMAIN page = 1 .. n /\ page[k] = r
          BY <1>9, <1>10, <3>1, <3>2
        <4>2. QED
          BY <4>1 DEF Range
      <3>3. CASE n < k
        <4>1. page[n] = sorted[n]
          BY <1>9, <1>10, <2>1
        <4>2. QED
          BY <1>7, <2>1, <3>1, <3>3, <4>1
      <3>4. QED
        BY <1>6, <2>1, <3>2, <3>3
    <2>5. QED
      BY <2>3, <2>4
  <1>14. QED
    BY <1>9, <1>10, <1>11, <1>12, <1>13 DEF page, rest

\* Where a client is in the list: what it was given is up to its cursor and the rest of the
\* rows that were there when it began are past it.
PagingInv ==
    /\ proofRows \in SUBSET ProofRow /\ IsFiniteSet(proofRows)
    /\ before \in SUBSET proofRows
    /\ got \in Seq(ProofRow)
    /\ cursor \in ProofRow \cup {Absent}
    /\ paging \in {"no", "on", "done"}
    /\ paging = "no" => got = <<>> /\ cursor = Absent
    /\ \A i, j \in 1 .. Len(got) : i # j => got[i] # got[j]
    /\ paging = "on" =>
          /\ cursor \in ProofRow
          /\ \A i \in 1 .. Len(got) : got[i] = cursor \/ Newest(got[i], cursor)
          /\ \A r \in before : r \in Range(got) \/ Newest(cursor, r)
    /\ paging = "done" => before \subseteq Range(got)

LEMMA PagingInvInit == ReadApiInit => PagingInv
  BY FS_EmptySet DEF ReadApiInit, PagingInv

LEMMA PagingInvInsert ==
  ASSUME PagingInv, NEW h \in ProofHashes, NEW at \in 0 .. MaxAt, InsertProof(h, at)
  PROVE  PagingInv'
  <1> DEFINE row == [at |-> at, hash |-> h]
  <1>1. row \in ProofRow
    BY ReadApiAssumption DEF ProofRow
  <1>2. proofRows' = proofRows \cup {row} /\ UNCHANGED <<cursor, got, before, paging>>
    BY DEF InsertProof
  <1>3. IsFiniteSet(proofRows')
    BY <1>2, FS_AddElement DEF PagingInv
  <1> HIDE DEF row
  <1>4. QED
    BY <1>1, <1>2, <1>3 DEF PagingInv

\* The page the client asks for.
LEMMA PageAsked ==
  ASSUME PagingInv
  PROVE  ListProofs([limit |-> ProofPage, cursor |-> cursor], proofRows).rows
            = ProofPageOf(proofRows, cursor, ProofPage)
  <1>1. ProofPage \in 1 .. 200 /\ ProofPage \notin {Bad, Huge, Absent}
    BY ReadApiAssumption
  <1>2. cursor # Bad
    BY ReadApiAssumption DEF PagingInv, ProofRow
  <1>3. CoprocessorLimitOK(ProofPage) /\ PageSize(ProofPage) = ProofPage
    BY <1>1 DEF CoprocessorLimitOK, PageSize
  <1>4. QED
    BY <1>2, <1>3 DEF ListProofs, Serve

LEMMA PagingInvFetch ==
  ASSUME PagingInv, FetchPage
  PROVE  PagingInv'
  <1> DEFINE page == ProofPageOf(proofRows, cursor, ProofPage)
             rest == PastCursor(proofRows, cursor)
  <1>1. /\ paging # "done" /\ before' = (IF paging = "no" THEN proofRows ELSE before)
        /\ got' = got \o page
        /\ IF Len(page) = ProofPage
           THEN cursor' = page[ProofPage] /\ paging' = "on"
           ELSE paging' = "done" /\ UNCHANGED cursor
        /\ UNCHANGED proofRows
    BY PageAsked, Zenon DEF FetchPage
  <1>2. ProofPage \in 1 .. 200
    BY ReadApiAssumption
  <1>3. rest \in SUBSET proofRows /\ proofRows \in SUBSET ProofRow /\ got \in Seq(ProofRow) /\ Len(got) \in Nat
    BY DEF PagingInv, PastCursor
  <1>4. PICK n \in 0 .. ProofPage :
                /\ page \in [1 .. n -> rest]
                /\ \A i, j \in 1 .. n : i # j => page[i] # page[j]
                /\ n < ProofPage => Range(page) = rest
                /\ n = ProofPage => \A i \in 1 .. n : page[i] = page[n] \/ Newest(page[i], page[n])
                /\ n = ProofPage => \A r \in rest : r \in Range(page) \/ Newest(page[n], r)
    BY <1>2, OnePage, Zenon DEF PagingInv
  <1>5. \A r \in before' : r \in Range(got) \/ r \in rest
    BY <1>1 DEF PagingInv, PastCursor
  <1>6. \A i \in 1 .. Len(got) : \A r \in rest : got[i] # r /\ Newest(got[i], r)
    <2> SUFFICES ASSUME NEW i \in 1 .. Len(got), NEW r \in rest
                 PROVE  got[i] # r /\ Newest(got[i], r)
      OBVIOUS
    <2>1. paging = "on" /\ cursor \in ProofRow /\ (got[i] = cursor \/ Newest(got[i], cursor))
      BY <1>1 DEF PagingInv
    <2>2. cursor # Absent
      BY <2>1, ReadApiAssumption DEF ProofRow
    <2>3. r \in ProofRow /\ Newest(cursor, r) /\ got[i] \in ProofRow
      BY <1>3, <2>2 DEF PastCursor
    <2>4. QED
      BY <2>1, <2>3, NewestOrders
  <1> HIDE DEF page, rest
  <1>7. page \in Seq(ProofRow) /\ Len(page) = n /\ \A i \in 1 .. n : page[i] \in rest
    BY <1>3, <1>4
  <1>8. /\ got' \in Seq(ProofRow) /\ Len(got') = Len(got) + n
        /\ \A i \in 1 .. Len(got) : got'[i] = got[i]
        /\ \A i \in Len(got) + 1 .. Len(got) + n : i - Len(got) \in 1 .. n /\ got'[i] = page[i - Len(got)]
    <2>1. got' = got \o page
      BY <1>1
    <2>2. got \o page \in Seq(ProofRow) /\ Len(got \o page) = Len(got) + Len(page)
      BY <1>3, <1>7
    <2>3. \A i \in 1 .. Len(got) : got'[i] = got[i]
      BY <1>3, <1>7, <2>1
    <2>4. \A i \in Len(got) + 1 .. Len(got) + n : i - Len(got) \in 1 .. n
      BY <1>3
    <2>5. \A i \in Len(got) + 1 .. Len(got) + n : got'[i] = page[i - Len(got)]
      BY <1>3, <1>7, <2>1
    <2>6. QED
      BY <1>7, <2>1, <2>2, <2>3, <2>4, <2>5
  <1>9. \A i \in 1 .. Len(got') : i \in 1 .. Len(got) \/ i \in Len(got) + 1 .. Len(got) + n
    BY <1>3, <1>8
  <1>10. \A r : r \in Range(got) \/ r \in Range(page) => r \in Range(got')
    <2>1. \A i \in 1 .. Len(got) : i \in 1 .. Len(got')
      BY <1>3, <1>8
    <2>2. \A i \in 1 .. n : i + Len(got) \in 1 .. Len(got') /\ got'[i + Len(got)] = page[i]
      BY <1>3, <1>8, SMTT(30)
    <2>3. DOMAIN got' = 1 .. Len(got') /\ DOMAIN got = 1 .. Len(got) /\ DOMAIN page = 1 .. n
      BY <1>3, <1>7, <1>8
    <2>4. QED
      BY <1>8, <2>1, <2>2, <2>3 DEF Range
  <1>11. ASSUME NEW i \in 1 .. Len(got'), NEW j \in 1 .. Len(got'), i # j
         PROVE  got'[i] # got'[j]
    <2>1. CASE i \in 1 .. Len(got) /\ j \in 1 .. Len(got)
      BY <1>8, <1>11, <2>1 DEF PagingInv
    <2>2. CASE i \in 1 .. Len(got) /\ j \in Len(got) + 1 .. Len(got) + n
      BY <1>6, <1>7, <1>8, <2>2
    <2>3. CASE j \in 1 .. Len(got) /\ i \in Len(got) + 1 .. Len(got) + n
      BY <1>6, <1>7, <1>8, <2>3
    <2>4. CASE i \in Len(got) + 1 .. Len(got) + n /\ j \in Len(got) + 1 .. Len(got) + n
      <3>1. i - Len(got) # j - Len(got)
        BY <1>3, <1>11, <2>4
      <3>2. QED
        BY <1>4, <1>8, <2>4, <3>1
    <2>5. QED
      BY <1>9, <2>1, <2>2, <2>3, <2>4
  <1>12. before' \in SUBSET proofRows'
    BY <1>1 DEF PagingInv
  <1>13. CASE n = ProofPage
    <2>1. cursor' = page[n] /\ paging' = "on" /\ n \in 1 .. n /\ page[n] \in rest
      BY <1>1, <1>2, <1>7, <1>13
    <2>2. \A i \in 1 .. Len(got') : got'[i] = cursor' \/ Newest(got'[i], cursor')
      <3>1. \A i \in 1 .. Len(got) : Newest(got'[i], cursor')
        BY <1>6, <1>8, <2>1
      <3>2. \A i \in Len(got) + 1 .. Len(got) + n : got'[i] = cursor' \/ Newest(got'[i], cursor')
        BY <1>4, <1>8, <1>13, <2>1
      <3>3. QED
        BY <1>9, <3>1, <3>2
    <2>3. \A r \in before' : r \in Range(got') \/ Newest(cursor', r)
      BY <1>4, <1>5, <1>10, <1>13, <2>1
    <2>4. QED
      BY <1>1, <1>3, <1>8, <1>11, <1>12, <2>1, <2>2, <2>3 DEF PagingInv
  <1>14. CASE n < ProofPage
    <2>1. paging' = "done" /\ cursor' = cursor
      BY <1>1, <1>2, <1>4, <1>7, <1>14
    <2>2. before' \subseteq Range(got')
      BY <1>4, <1>5, <1>10, <1>14
    <2>3. QED
      BY <1>1, <1>8, <1>11, <1>12, <2>1, <2>2 DEF PagingInv
  <1>15. QED
    BY <1>2, <1>4, <1>13, <1>14

LEMMA PagingInvImplies == PagingInv => PagesComplete
  BY DEF PagingInv, PagesComplete

THEOREM PagesAreComplete == ReadApiSpec => []PagesComplete
  <1>1. PagingInv /\ [AskNext \/ PagingNext]_apiVars => PagingInv'
    <2> SUFFICES ASSUME PagingInv, [AskNext \/ PagingNext]_apiVars PROVE PagingInv'
      OBVIOUS
    <2>1. CASE AskNext
      BY <2>1 DEF AskNext, Ask, PagingInv
    <2>2. CASE PagingNext
      BY <2>2, PagingInvInsert, PagingInvFetch DEF PagingNext
    <2>3. CASE UNCHANGED apiVars
      BY <2>3 DEF apiVars, PagingInv
    <2>4. QED
      BY <2>1, <2>2, <2>3
  <1>2. QED
    BY <1>1, PagingInvInit, PagingInvImplies, PTL DEF ReadApiSpec

-----------------------------------------------------------------------------
(* The explorer's dashboard *)

Overrides == UNION {[keys -> OverrideTexts] : keys \in SUBSET Overridable}
Configs == {MergeConfig(o) : o \in Overrides}
Request == [panels : SUBSET PanelNames, config : Configs]
Load == [n : Nat, panels : SUBSET PanelNames, config : Configs]
Tab == [open : BOOLEAN, overrides : Overrides, started : Nat, loads : SUBSET Load,
        newest : [PanelNames -> Nat], from : [PanelNames -> Nat],
        shown : [PanelNames -> PanelKinds] \cup {Absent}, refreshing : BOOLEAN]

\* The loads of a tab are numbered as they start.
Numbered(tab) ==
    /\ \A p \in PanelNames : tab.newest[p] <= tab.started /\ tab.from[p] <= tab.started
    /\ \A l \in tab.loads : 1 <= l.n /\ l.n <= tab.started

\* Until something is shown only loads of all panels are on their way.
FirstIsWhole(tab) == tab.shown = Absent => \A l \in tab.loads : l.panels = PanelNames

\* The newest load of a panel asks where the settings point, and what it found is right.
LoadsSettings(tab) ==
    /\ \A l \in tab.loads : \A p \in l.panels :
          l.n = tab.newest[p] => l.config = MergeConfig(tab.overrides)
    /\ \A p \in PanelNames :
          tab.shown # Absent /\ tab.from[p] = tab.newest[p]
             => tab.shown[p] = LoadPanel(MergeConfig(tab.overrides), p)

ClosedIsEmpty(tab) == ~tab.open => tab = [ClosedTab EXCEPT !.started = tab.started]

TabInv(tab) ==
    tab \in Tab /\ Numbered(tab) /\ FirstIsWhole(tab) /\ LoadsSettings(tab) /\ ClosedIsEmpty(tab)

SameSettings(stored, overrides) ==
    MergeConfig(ReadStoredOverrides(stored)) = MergeConfig(overrides)

DashboardInv ==
    /\ explorer \in [stored : Foreign \cup Overrides, writer : Tabs \cup {Absent}, tab : [Tabs -> Tab]]
    /\ \A t \in Tabs : TabInv(explorer.tab[t])
    /\ explorer.writer # Absent /\ explorer.tab[explorer.writer].open =>
          SameSettings(explorer.stored, explorer.tab[explorer.writer].overrides)

-----------------------------------------------------------------------------
\* Settings: what is written is read back as it was meant.

LEMMA NoOverrides == <<>> \in Overrides
  <1>1. <<>> \in [{} -> OverrideTexts] /\ {} \in SUBSET Overridable
    OBVIOUS
  <1>2. QED
    BY <1>1 DEF Overrides

LEMMA OverridesRead ==
  ASSUME NEW stored \in Foreign \cup Overrides
  PROVE  ReadStoredOverrides(stored) \in Overrides
  <1>1. CASE stored = Garbled
    BY <1>1, NoOverrides DEF ReadStoredOverrides
  <1>2. CASE stored # Garbled
    <2> DEFINE known == {key \in DOMAIN stored \cap Overridable : stored[key] # Bad}
    <2>1. known \in SUBSET Overridable /\ ReadStoredOverrides(stored) = [key \in known |-> stored[key]]
      BY <1>2 DEF ReadStoredOverrides
    <2>2. \A key \in known : stored[key] \in OverrideTexts
      <3>1. CASE stored \in Foreign
        BY <1>2, <3>1, ExplorerAssumption
      <3>2. CASE stored \in Overrides
        BY <3>2 DEF Overrides
      <3>3. QED
        BY <3>1, <3>2
    <2> HIDE DEF known
    <2>3. QED
      BY <2>1, <2>2 DEF Overrides
  <1>3. QED
    BY <1>1, <1>2

LEMMA OverridesWritten ==
  ASSUME NEW overrides \in Overrides
  PROVE  WrittenOverrides(overrides) \in Overrides
  <1> DEFINE kept == {key \in DOMAIN overrides : overrides[key] # ""}
  <1>1. PICK keys \in SUBSET Overridable : overrides \in [keys -> OverrideTexts]
    BY DEF Overrides
  <1>2. kept \in SUBSET Overridable /\ \A key \in kept : overrides[key] \in OverrideTexts
    BY <1>1
  <1>3. WrittenOverrides(overrides) = [key \in kept |-> overrides[key]]
    BY DEF WrittenOverrides
  <1> HIDE DEF kept
  <1>4. QED
    BY <1>2, <1>3 DEF Overrides

\* A text the form does not hold may only be empty when that means the default.
Meant(overrides) == \A key \in DOMAIN overrides : overrides[key] = "" => key \notin InForm

LEMMA WrittenAsMeant ==
  ASSUME NEW overrides \in Overrides, Meant(overrides)
  PROVE  SameSettings(WrittenOverrides(overrides), overrides)
  <1> DEFINE written == WrittenOverrides(overrides)
             kept == {key \in DOMAIN overrides : overrides[key] # ""}
             read == ReadStoredOverrides(written)
             known == {key \in DOMAIN written \cap Overridable : written[key] # Bad}
  <1>1. PICK keys \in SUBSET Overridable : overrides \in [keys -> OverrideTexts]
    BY DEF Overrides
  <1>2. written = [key \in kept |-> overrides[key]]
    BY DEF WrittenOverrides
  <1>3. written # Garbled
    <2>1. kept \in SUBSET Overridable /\ \A key \in kept : overrides[key] \in OverrideTexts
      BY <1>1
    <2> HIDE DEF kept, written
    <2>2. written \in [kept -> OverrideTexts]
      BY <1>2, <2>1
    <2>3. QED
      BY <2>1, <2>2, ExplorerAssumption
  <1>4. known = kept
    <2>1. Bad \notin OverrideTexts
      BY ExplorerAssumption
    <2>2. QED
      BY <1>1, <1>2, <2>1
  <1>5. read = [key \in known |-> written[key]]
    BY <1>3 DEF ReadStoredOverrides
  <1>6. DOMAIN read = kept /\ \A key \in kept : read[key] = overrides[key]
    BY <1>2, <1>4, <1>5
  <1> HIDE DEF read
  <1>7. \A key \in Overridable :
            (IF key \in DOMAIN read THEN ParsedAs[key][read[key]] ELSE Defaults[key])
              = (IF key \in DOMAIN overrides THEN ParsedAs[key][overrides[key]] ELSE Defaults[key])
    BY <1>1, <1>6, ExplorerAssumption DEF Meant
  <1>8. QED
    BY <1>7 DEF SameSettings, MergeConfig, read, written

LEMMA FormMeans ==
  ASSUME NEW overrides \in Overrides, NEW form \in Forms
  PROVE  WriteOrClear(overrides, form) \in Overrides /\ Meant(WriteOrClear(overrides, form))
  <1> DEFINE keys == (DOMAIN overrides \ InForm) \cup {key \in InForm : form[key] # ""}
             next == WriteOrClear(overrides, form)
  <1>1. InForm \subseteq Overridable /\ form \in [InForm -> OverrideTexts]
    BY ExplorerAssumption
  <1>2. PICK had \in SUBSET Overridable : overrides \in [had -> OverrideTexts]
    BY DEF Overrides
  <1>3. next = [key \in keys |-> IF key \in InForm THEN form[key] ELSE overrides[key]]
    BY DEF WriteOrClear
  <1>4. keys \in SUBSET Overridable /\ \A key \in keys : next[key] \in OverrideTexts
    BY <1>1, <1>2, <1>3
  <1>5. Meant(next)
    BY <1>3 DEF Meant
  <1> HIDE DEF keys
  <1>6. next \in Overrides
    BY <1>3, <1>4 DEF Overrides
  <1>7. QED
    BY <1>5, <1>6

-----------------------------------------------------------------------------
\* Panels: every load ends with a kind of result, and a green Reader is a Reader that answered.

LEMMA WorstOf ==
  ASSUME NEW kinds \in SUBSET PanelKinds
  PROVE  /\ AggregateKind(kinds) \in PanelKinds
         /\ AggregateKind(kinds) = "ok" => kinds = {"ok"}
  <1>1. /\ Rank["ok"] = 0 /\ Rank["not_configured"] = 1
        /\ Rank["unreachable"] = 2 /\ Rank["error"] = 3
    BY DEF Rank
  <1>2. CASE kinds = {}
    BY <1>2 DEF AggregateKind, PanelKinds
  <1>3. CASE kinds # {}
    <2>1. \E k \in kinds : \A l \in kinds : Rank[l] <= Rank[k]
      <3>1. \A l \in kinds : l \in PanelKinds /\ Rank[l] \in 0 .. 3
        BY <1>1 DEF PanelKinds
      <3>2. CASE "error" \in kinds
        BY <1>1, <3>1, <3>2
      <3>3. CASE "error" \notin kinds /\ "unreachable" \in kinds
        BY <1>1, <3>1, <3>3 DEF PanelKinds
      <3>4. CASE "error" \notin kinds /\ "unreachable" \notin kinds /\ "not_configured" \in kinds
        BY <1>1, <3>1, <3>4 DEF PanelKinds
      <3>5. CASE "error" \notin kinds /\ "unreachable" \notin kinds /\ "not_configured" \notin kinds
        <4>1. \A l \in kinds : l = "ok"
          BY <3>5 DEF PanelKinds
        <4>2. "ok" \in kinds
          BY <1>3, <4>1
        <4>3. QED
          BY <1>1, <4>1, <4>2
      <3>6. QED
        BY <3>2, <3>3, <3>4, <3>5
    <2>2. /\ AggregateKind(kinds) \in kinds
          /\ \A l \in kinds : Rank[l] <= Rank[AggregateKind(kinds)]
      BY <1>3, <2>1 DEF AggregateKind
    <2>3. AggregateKind(kinds) = "ok" => \A l \in kinds : l = "ok"
      BY <1>1, <2>2 DEF PanelKinds
    <2>4. QED
      BY <2>2, <2>3
  <1>4. QED
    BY <1>2, <1>3

LEMMA PanelKind ==
  ASSUME NEW url, NEW reply
  PROVE  /\ PanelKindOf(url, reply) \in PanelKinds
         /\ PanelKindOf(url, reply) = "ok" => reply.status \in 200 .. 299
  BY DEF PanelKindOf, PanelKinds

LEMMA PanelLoaded ==
  ASSUME NEW config, NEW p \in PanelNames
  PROVE  /\ LoadPanel(config, p) \in PanelKinds
         /\ p = "reader" /\ LoadPanel(config, p) = "ok" =>
               /\ config.contentTags # {}
               /\ \A g \in config.contentTags : Says[config.readerUrl][g].status \in 200 .. 299
  <1> DEFINE kind(g) == PanelKindOf(config.readerUrl, Says[config.readerUrl][g])
             kinds == {kind(g) : g \in config.contentTags}
  <1>1. \A g : kind(g) \in PanelKinds /\ (kind(g) = "ok" => Says[config.readerUrl][g].status \in 200 .. 299)
    BY PanelKind
  <1>2. CASE p = "poster"
    BY <1>2, PanelKind DEF LoadPanel
  <1>3. CASE p = "reader"
    <2>1. LoadPanel(config, p) = AggregateKind(kinds)
      BY <1>3 DEF LoadPanel
    <2> HIDE DEF kind
    <2>2. kinds \in SUBSET PanelKinds
      BY <1>1
    <2>3. kinds = {"ok"} => config.contentTags # {} /\ \A g \in config.contentTags : kind(g) = "ok"
      OBVIOUS
    <2> HIDE DEF kinds
    <2>4. QED
      BY <1>1, <2>1, <2>2, <2>3, WorstOf
  <1>4. QED
    BY <1>2, <1>3 DEF PanelNames

-----------------------------------------------------------------------------
\* Loads.

\* Loads that start together: the last one asks where the settings point.
LEMMA StartKeeps ==
  ASSUME NEW tab \in Tab, tab.open, Numbered(tab), FirstIsWhole(tab),
         NEW loads \in Seq(Request), Len(loads) > 0,
         Last(loads).config = MergeConfig(tab.overrides),
         LoadsSettings(tab) \/ Last(loads).panels = PanelNames,
         tab.shown = Absent => \A i \in 1 .. Len(loads) : loads[i].panels = PanelNames
  PROVE  TabInv(Start(tab, loads)) /\ Start(tab, loads).open /\ Start(tab, loads).overrides = tab.overrides
  <1> DEFINE k == Len(loads)
             new(i) == [n |-> tab.started + i, panels |-> loads[i].panels, config |-> loads[i].config]
             added == {new(i) : i \in DOMAIN loads}
             next == Start(tab, loads)
             news == [p \in PanelNames |-> IF p \in Last(loads).panels THEN tab.started + k ELSE tab.newest[p]]
  <1>1. k \in Nat /\ k > 0 /\ DOMAIN loads = 1 .. k /\ Last(loads) = loads[k] /\ k \in 1 .. k
    BY DEF Last
  <1>2. \A i \in 1 .. k : loads[i] \in Request
    OBVIOUS
  <1>3. tab.started \in Nat /\ tab.loads \in SUBSET Load /\ tab.newest \in [PanelNames -> Nat]
        /\ tab.from \in [PanelNames -> Nat]
    BY DEF Tab
  <1>4. \A i \in 1 .. k : new(i) \in Load /\ new(i).n = tab.started + i
                             /\ new(i).panels = loads[i].panels /\ new(i).config = loads[i].config
    BY <1>1, <1>2, <1>3 DEF Load, Request
  <1>5. added \in SUBSET Load
    BY <1>1, <1>4
  <1>6. news \in [PanelNames -> Nat]
    BY <1>1, <1>3
  <1>7. next = [tab EXCEPT !.loads = @ \cup added, !.started = @ + k, !.newest = news,
                           !.refreshing = @ \/ \E i \in DOMAIN loads : loads[i].panels = PanelNames]
    BY DEF Start
  <1> DEFINE whole == tab.refreshing \/ \E i \in DOMAIN loads : loads[i].panels = PanelNames
  <1>8. whole \in BOOLEAN
    BY DEF Tab
  <1> HIDE DEF new, added, news, whole
  <1>9. /\ next \in Tab
        /\ next.loads = tab.loads \cup added /\ next.started = tab.started + k /\ next.newest = news
        /\ next.open /\ next.overrides = tab.overrides /\ next.from = tab.from /\ next.shown = tab.shown
    <2>1. next = [tab EXCEPT !.loads = @ \cup added, !.started = @ + k, !.newest = news, !.refreshing = whole]
      BY <1>7 DEF whole
    <2> HIDE DEF next, k
    <2>2. /\ tab.loads \cup added \in SUBSET Load /\ tab.started + k \in Nat
          /\ DOMAIN tab = {"open", "overrides", "started", "loads", "newest", "from", "shown", "refreshing"}
      BY <1>1, <1>3, <1>5 DEF Tab
    <2>3. /\ next.loads = tab.loads \cup added /\ next.started = tab.started + k /\ next.newest = news
          /\ next.refreshing = whole /\ next.open = tab.open /\ next.overrides = tab.overrides
          /\ next.from = tab.from /\ next.shown = tab.shown
      BY <2>1, <2>2
    <2>4. next \in Tab
      BY <1>6, <1>8, <2>1, <2>2 DEF Tab
    <2>5. QED
      BY <2>3, <2>4
  <1> HIDE DEF next
  <1>10. \A l \in added : \E i \in 1 .. k : l = new(i)
    BY <1>1 DEF added
  <1>11. \A p \in PanelNames : news[p] = IF p \in Last(loads).panels THEN tab.started + k ELSE tab.newest[p]
    BY DEF news
  <1>12. Numbered(next)
    <2>1. \A p \in PanelNames : next.newest[p] <= next.started /\ next.from[p] <= next.started
      BY <1>1, <1>3, <1>9, <1>11 DEF Numbered
    <2>2. \A l \in next.loads : 1 <= l.n /\ l.n <= next.started
      <3>1. \A l \in tab.loads : l.n \in Nat /\ 1 <= l.n /\ l.n <= tab.started
        BY <1>3 DEF Numbered, Load
      <3>2. \A l \in added : 1 <= l.n /\ l.n <= tab.started + k
        BY <1>1, <1>3, <1>4, <1>10
      <3>3. QED
        BY <1>1, <1>3, <1>9, <3>1, <3>2
    <2>3. QED
      BY <2>1, <2>2 DEF Numbered
  <1>13. FirstIsWhole(next)
    BY <1>1, <1>4, <1>9, <1>10 DEF FirstIsWhole
  <1>14. LoadsSettings(next)
    <2>1. ASSUME NEW l \in tab.loads, NEW p \in l.panels, l.n = news[p]
          PROVE  l.config = MergeConfig(tab.overrides)
      <3>1. p \in PanelNames /\ l.n \in Nat /\ l.n <= tab.started
        BY <1>3, <2>1 DEF Numbered, Load
      <3>2. p \notin Last(loads).panels /\ news[p] = tab.newest[p]
        BY <1>1, <1>3, <1>11, <2>1, <3>1
      <3>3. QED
        BY <2>1, <3>1, <3>2 DEF LoadsSettings
    <2>2. ASSUME NEW l \in added, NEW p \in l.panels, l.n = news[p]
          PROVE  l.config = MergeConfig(tab.overrides)
      <3>1. PICK i \in 1 .. k : l = new(i)
        BY <1>10
      <3>2. p \in PanelNames /\ l.n = tab.started + i /\ tab.newest[p] \in Nat /\ tab.newest[p] <= tab.started
        BY <1>2, <1>3, <1>4, <2>2, <3>1 DEF Numbered, Request
      <3>3. i = k
        <4>1. news[p] = tab.started + k \/ news[p] = tab.newest[p]
          BY <1>11, <3>2
        <4>2. tab.started + i = news[p]
          BY <2>2, <3>2
        <4>3. tab.started \in Nat /\ tab.newest[p] \in Nat /\ tab.newest[p] <= tab.started /\ k \in Nat /\ i \in Nat /\ i >= 1
          BY <1>1, <1>3, <3>2
        <4> HIDE DEF k
        <4>4. QED
          BY <4>1, <4>2, <4>3
      <3>4. QED
        BY <1>1, <1>4, <3>1, <3>3
    <2>3. ASSUME NEW p \in PanelNames, tab.shown # Absent, tab.from[p] = news[p]
          PROVE  tab.shown[p] = LoadPanel(MergeConfig(tab.overrides), p)
      <3>1. tab.from[p] <= tab.started /\ tab.from[p] \in Nat
        BY <1>3 DEF Numbered
      <3>2. p \notin Last(loads).panels /\ news[p] = tab.newest[p]
        BY <1>1, <1>3, <1>11, <2>3, <3>1
      <3>3. QED
        BY <2>3, <3>2 DEF LoadsSettings
    <2>4. QED
      BY <1>9, <2>1, <2>2, <2>3 DEF LoadsSettings
  <1>15. QED
    BY <1>9, <1>12, <1>13, <1>14 DEF TabInv, ClosedIsEmpty, next

\* Whatever a tab does, the other tabs stay as they are.
LEMMA TabStep ==
  ASSUME DashboardInv, NEW t \in Tabs, NEW tab, TabInv(tab),
         NEW stored \in Foreign \cup Overrides, NEW writer \in Tabs \cup {Absent},
         explorer' = [stored |-> stored, writer |-> writer, tab |-> [explorer.tab EXCEPT ![t] = tab]],
         writer = t /\ tab.open => SameSettings(stored, tab.overrides),
         writer # t => writer = explorer.writer /\ stored = explorer.stored
  PROVE  DashboardInv'
  <1>1. /\ explorer'.stored = stored /\ explorer'.writer = writer
        /\ explorer'.tab = [explorer.tab EXCEPT ![t] = tab]
    OBVIOUS
  <1>2. explorer.tab \in [Tabs -> Tab] /\ tab \in Tab
    BY DEF DashboardInv, TabInv
  <1>3. \A s \in Tabs : explorer'.tab[s] = IF s = t THEN tab ELSE explorer.tab[s]
    BY <1>1, <1>2
  <1>4. explorer' \in [stored : Foreign \cup Overrides, writer : Tabs \cup {Absent}, tab : [Tabs -> Tab]]
    BY <1>2
  <1>5. \A s \in Tabs : TabInv(explorer'.tab[s])
    BY <1>3 DEF DashboardInv
  <1>6. writer # Absent /\ explorer'.tab[writer].open => SameSettings(stored, explorer'.tab[writer].overrides)
    <2>1. CASE writer = t
      BY <1>3, <2>1
    <2>2. CASE writer # t
      BY <1>3, <2>2 DEF DashboardInv
    <2>3. QED
      BY <2>1, <2>2
  <1>7. QED
    BY <1>1, <1>4, <1>5, <1>6 DEF DashboardInv

LEMMA TabFacts ==
  ASSUME DashboardInv, NEW t \in Tabs
  PROVE  /\ explorer = [stored |-> explorer.stored, writer |-> explorer.writer, tab |-> explorer.tab]
         /\ explorer.tab \in [Tabs -> Tab] /\ TabInv(explorer.tab[t])
         /\ explorer.tab[t] \in Tab /\ explorer.tab[t].overrides \in Overrides
         /\ explorer.stored \in Foreign \cup Overrides /\ explorer.writer \in Tabs \cup {Absent}
  BY DEF DashboardInv, Tab

LEMMA WholeRequest ==
  ASSUME NEW overrides \in Overrides
  PROVE  /\ WholeLoad(overrides) \in Request
         /\ WholeLoad(overrides).panels = PanelNames
         /\ WholeLoad(overrides).config = MergeConfig(overrides)
  BY DEF WholeLoad, Request, Configs

LEMMA OpenTabKeeps ==
  ASSUME DashboardInv, NEW t \in Tabs, OpenTab(t)
  PROVE  DashboardInv'
  <1> DEFINE old == explorer.tab[t]
             overrides == ReadStoredOverrides(explorer.stored)
             opened == [old EXCEPT !.open = TRUE, !.overrides = overrides]
             loads == <<WholeLoad(overrides)>>
             tab == Start(opened, loads)
  <1>1. /\ explorer = [stored |-> explorer.stored, writer |-> explorer.writer, tab |-> explorer.tab]
        /\ explorer.tab \in [Tabs -> Tab] /\ TabInv(old) /\ old \in Tab
        /\ explorer.stored \in Foreign \cup Overrides /\ explorer.writer \in Tabs \cup {Absent}
    BY TabFacts
  <1>2. overrides \in Overrides
    BY <1>1, OverridesRead
  <1>3. ~old.open /\ explorer' = [explorer EXCEPT !.tab[t] = tab]
    BY DEF OpenTab
  <1>4. old = [ClosedTab EXCEPT !.started = old.started] /\ old.started \in Nat
    BY <1>1, <1>3 DEF TabInv, ClosedIsEmpty, Tab
  <1>5. /\ loads \in Seq(Request) /\ Len(loads) = 1 /\ loads[1] = WholeLoad(overrides) /\ Last(loads) = loads[1]
        /\ loads[1].panels = PanelNames /\ loads[1].config = MergeConfig(overrides)
    BY <1>2, WholeRequest DEF Last
  <1> HIDE DEF overrides, loads
  <1>6. /\ opened.loads = {} /\ opened.newest = [p \in PanelNames |-> 0] /\ opened.from = [p \in PanelNames |-> 0]
        /\ opened.shown = Absent /\ opened.started = old.started /\ opened.open /\ opened.overrides = overrides
        /\ opened.refreshing = FALSE
    BY <1>4 DEF ClosedTab
  <1>7. opened \in Tab
    BY <1>1, <1>2 DEF Tab
  <1> HIDE DEF opened
  <1>8. Numbered(opened) /\ FirstIsWhole(opened)
    BY <1>4, <1>6 DEF Numbered, FirstIsWhole
  <1>81. /\ opened.open /\ Len(loads) > 0 /\ Last(loads).config = MergeConfig(opened.overrides)
         /\ Last(loads).panels = PanelNames
         /\ opened.shown = Absent => \A i \in 1 .. Len(loads) : loads[i].panels = PanelNames
    BY <1>5, <1>6
  <1>9. TabInv(tab) /\ tab.overrides = overrides
    BY <1>5, <1>6, <1>7, <1>8, <1>81, StartKeeps
  <1> HIDE DEF tab
  <1>10. explorer' = [stored |-> explorer.stored, writer |-> explorer.writer, tab |-> [explorer.tab EXCEPT ![t] = tab]]
    BY <1>1, <1>3
  <1>11. SameSettings(explorer.stored, tab.overrides)
    BY <1>9 DEF SameSettings, overrides
  <1>12. QED
    BY <1>1, <1>9, <1>10, <1>11, TabStep

LEMMA CloseTabKeeps ==
  ASSUME DashboardInv, NEW t \in Tabs, CloseTab(t)
  PROVE  DashboardInv'
  <1> DEFINE old == explorer.tab[t]
             tab == [ClosedTab EXCEPT !.started = old.started]
  <1>1. /\ explorer = [stored |-> explorer.stored, writer |-> explorer.writer, tab |-> explorer.tab]
        /\ explorer.tab \in [Tabs -> Tab] /\ TabInv(old) /\ old \in Tab
        /\ explorer.stored \in Foreign \cup Overrides /\ explorer.writer \in Tabs \cup {Absent}
    BY TabFacts
  <1>2. explorer' = [explorer EXCEPT !.tab[t] = tab]
    BY DEF CloseTab
  <1>3. old.started \in Nat
    BY <1>1 DEF Tab
  <1> DEFINE none == [p \in PanelNames |-> 0]
  <1>41. none \in [PanelNames -> Nat] /\ \A p \in PanelNames : none[p] = 0
    OBVIOUS
  <1>42. ClosedTab = [open |-> FALSE, overrides |-> <<>>, started |-> 0, loads |-> {}, newest |-> none,
                      from |-> none, shown |-> Absent, refreshing |-> FALSE]
    BY DEF ClosedTab
  <1> HIDE DEF none
  <1>43. ClosedTab \in Tab
    BY <1>41, <1>42, NoOverrides DEF Tab
  <1>5. tab \in Tab
    BY <1>3, <1>43 DEF Tab
  <1>4. /\ ~tab.open /\ tab.started = old.started /\ tab.loads = {} /\ tab.newest = none /\ tab.from = none
        /\ tab.shown = Absent
    BY <1>42
  <1> HIDE DEF tab
  <1>6. Numbered(tab) /\ FirstIsWhole(tab) /\ LoadsSettings(tab) /\ tab.started = old.started /\ ~tab.open
    BY <1>3, <1>4, <1>41 DEF Numbered, FirstIsWhole, LoadsSettings
  <1>7. TabInv(tab)
    BY <1>5, <1>6 DEF TabInv, ClosedIsEmpty, tab
  <1>8. explorer' = [stored |-> explorer.stored, writer |-> explorer.writer, tab |-> [explorer.tab EXCEPT ![t] = tab]]
    BY <1>1, <1>2
  <1>9. QED
    BY <1>1, <1>6, <1>7, <1>8, TabStep

LEMMA ChangeSettingsKeeps ==
  ASSUME DashboardInv, NEW t \in Tabs, NEW overrides \in Overrides, Meant(overrides),
         ChangeSettings(t, overrides)
  PROVE  DashboardInv'
  <1> DEFINE old == explorer.tab[t]
             changed == [old EXCEPT !.overrides = overrides]
             loads == <<WholeLoad(old.overrides), WholeLoad(overrides)>>
             tab == Start(changed, loads)
             written == WrittenOverrides(overrides)
  <1>1. /\ explorer = [stored |-> explorer.stored, writer |-> explorer.writer, tab |-> explorer.tab]
        /\ explorer.tab \in [Tabs -> Tab] /\ TabInv(old) /\ old \in Tab /\ old.overrides \in Overrides
    BY TabFacts
  <1>2. old.open /\ explorer' = [explorer EXCEPT !.stored = written, !.writer = t, !.tab[t] = tab]
    BY DEF ChangeSettings
  <1>3. /\ loads \in Seq(Request) /\ Len(loads) = 2 /\ Last(loads) = loads[2]
        /\ loads[2].panels = PanelNames /\ loads[2].config = MergeConfig(overrides)
        /\ loads[1].panels = PanelNames
    BY <1>1, WholeRequest DEF Last
  <1> HIDE DEF loads
  <1>4. /\ changed \in Tab /\ changed.open /\ changed.overrides = overrides /\ changed.started = old.started
        /\ changed.newest = old.newest /\ changed.from = old.from /\ changed.shown = old.shown
        /\ changed.loads = old.loads
    BY <1>1, <1>2 DEF Tab
  <1> HIDE DEF changed
  <1>5. Numbered(changed) /\ FirstIsWhole(changed)
    BY <1>1, <1>4 DEF TabInv, Numbered, FirstIsWhole
  <1>6. \A i \in 1 .. Len(loads) : loads[i].panels = PanelNames
    BY <1>3
  <1>61. /\ Len(loads) > 0 /\ Last(loads).config = MergeConfig(changed.overrides)
         /\ Last(loads).panels = PanelNames
    BY <1>3, <1>4
  <1>7. TabInv(tab) /\ tab.overrides = overrides
    BY <1>3, <1>4, <1>5, <1>6, <1>61, StartKeeps
  <1> HIDE DEF tab
  <1>8. written \in Overrides /\ SameSettings(written, overrides)
    BY OverridesWritten, WrittenAsMeant
  <1> HIDE DEF written
  <1>9. explorer' = [stored |-> written, writer |-> t, tab |-> [explorer.tab EXCEPT ![t] = tab]]
    BY <1>1, <1>2
  <1>10. QED
    BY <1>7, <1>8, <1>9, TabStep

\* A refresh, of all panels or of one, with the settings of the tab.
LEMMA RefreshKeeps ==
  ASSUME DashboardInv, NEW t \in Tabs, explorer.tab[t].open, explorer.tab[t].shown # Absent,
         NEW request \in Request, request.config = MergeConfig(explorer.tab[t].overrides),
         explorer' = [explorer EXCEPT !.tab[t] = Start(explorer.tab[t], <<request>>)]
  PROVE  DashboardInv'
  <1> DEFINE old == explorer.tab[t]
             loads == <<request>>
             tab == Start(old, loads)
  <1>1. /\ explorer = [stored |-> explorer.stored, writer |-> explorer.writer, tab |-> explorer.tab]
        /\ explorer.tab \in [Tabs -> Tab] /\ TabInv(old) /\ old \in Tab
        /\ explorer.stored \in Foreign \cup Overrides /\ explorer.writer \in Tabs \cup {Absent}
    BY TabFacts
  <1>2. loads \in Seq(Request) /\ Len(loads) = 1 /\ Last(loads) = request
    BY DEF Last
  <1> HIDE DEF loads
  <1>21. /\ Numbered(old) /\ FirstIsWhole(old) /\ LoadsSettings(old) /\ old.open /\ old.shown # Absent
         /\ Len(loads) > 0 /\ Last(loads).config = MergeConfig(old.overrides)
    BY <1>1, <1>2 DEF TabInv
  <1>3. TabInv(tab) /\ tab.overrides = old.overrides
    BY <1>1, <1>2, <1>21, StartKeeps
  <1>4. explorer' = [explorer EXCEPT !.tab[t] = tab]
    BY DEF loads
  <1> HIDE DEF tab
  <1>5. explorer' = [stored |-> explorer.stored, writer |-> explorer.writer, tab |-> [explorer.tab EXCEPT ![t] = tab]]
    BY <1>1, <1>4
  <1>6. explorer.writer = t => SameSettings(explorer.stored, tab.overrides)
    <2> SUFFICES ASSUME explorer.writer = t PROVE SameSettings(explorer.stored, tab.overrides)
      OBVIOUS
    <2>1. CASE t # Absent
      BY <1>3, <2>1 DEF DashboardInv
    <2>2. CASE t = Absent
      BY <2>2, ExplorerAssumption
    <2>3. QED
      BY <2>1, <2>2
  <1>7. QED
    BY <1>1, <1>3, <1>5, <1>6, TabStep

\* A load ends.
LEMMA LoadKeeps ==
  ASSUME DashboardInv, NEW t \in Tabs, NEW load \in explorer.tab[t].loads, LoadDashboard(t, load)
  PROVE  DashboardInv'
  <1> DEFINE old == explorer.tab[t]
             found == [p \in PanelNames |->
                         IF p \in load.panels THEN LoadPanel(load.config, p) ELSE old.shown[p]]
             from == [p \in PanelNames |-> IF p \in load.panels THEN load.n ELSE old.from[p]]
             whole == old.refreshing /\ load.panels # PanelNames
             next == [old EXCEPT !.loads = @ \ {load}, !.shown = found, !.from = from, !.refreshing = whole]
  <1>1. /\ explorer = [stored |-> explorer.stored, writer |-> explorer.writer, tab |-> explorer.tab]
        /\ explorer.tab \in [Tabs -> Tab] /\ TabInv(old) /\ old \in Tab
        /\ explorer.stored \in Foreign \cup Overrides /\ explorer.writer \in Tabs \cup {Absent}
    BY TabFacts
  <1>2. explorer' = [explorer EXCEPT !.tab[t] = next]
    BY DEF LoadDashboard
  <1>3. /\ old.loads \in SUBSET Load /\ old.from \in [PanelNames -> Nat] /\ load \in Load
        /\ load.n \in Nat /\ load.panels \in SUBSET PanelNames
        /\ old.shown \in [PanelNames -> PanelKinds] \cup {Absent}
    BY <1>1 DEF Tab, Load
  <1>4. old.shown = Absent => load.panels = PanelNames
    BY <1>1 DEF TabInv, FirstIsWhole
  <1>5. found \in [PanelNames -> PanelKinds] /\ found # Absent
    <2>1. \A p \in PanelNames :
             (IF p \in load.panels THEN LoadPanel(load.config, p) ELSE old.shown[p]) \in PanelKinds
      BY <1>3, <1>4, PanelLoaded
    <2>2. found \in [PanelNames -> PanelKinds]
      BY <2>1
    <2>3. QED
      BY <2>2, ExplorerAssumption
  <1>6. /\ \A p \in PanelNames : found[p] = IF p \in load.panels THEN LoadPanel(load.config, p) ELSE old.shown[p]
        /\ \A p \in PanelNames : from[p] = IF p \in load.panels THEN load.n ELSE old.from[p]
        /\ from \in [PanelNames -> Nat] /\ whole \in BOOLEAN
    BY <1>3
  <1> HIDE DEF found, from, whole
  <1>7. /\ next.loads = old.loads \ {load} /\ next.shown = found /\ next.from = from /\ next.newest = old.newest
        /\ next.open = old.open /\ next.overrides = old.overrides /\ next.started = old.started
    BY <1>1 DEF Tab
  <1>8. next \in Tab
    BY <1>1, <1>5, <1>6 DEF Tab
  <1>9. old.open
    BY <1>1 DEF TabInv, ClosedIsEmpty, ClosedTab
  <1> HIDE DEF next
  <1>10. Numbered(next)
    BY <1>1, <1>6, <1>7 DEF TabInv, Numbered
  <1>11. FirstIsWhole(next)
    BY <1>5, <1>7 DEF FirstIsWhole
  <1>12. LoadsSettings(next)
    <2>1. \A l \in next.loads : \A p \in l.panels : l.n = next.newest[p] => l.config = MergeConfig(next.overrides)
      BY <1>1, <1>7 DEF TabInv, LoadsSettings
    <2>2. ASSUME NEW p \in PanelNames, next.from[p] = next.newest[p]
          PROVE  next.shown[p] = LoadPanel(MergeConfig(next.overrides), p)
      <3>1. CASE p \in load.panels
        <4>1. load.config = MergeConfig(old.overrides)
          BY <1>1, <1>6, <1>7, <2>2, <3>1 DEF TabInv, LoadsSettings
        <4>2. QED
          BY <1>6, <1>7, <3>1, <4>1
      <3>2. CASE p \notin load.panels
        BY <1>1, <1>4, <1>6, <1>7, <2>2, <3>2 DEF TabInv, LoadsSettings
      <3>3. QED
        BY <3>1, <3>2
    <2>3. QED
      BY <2>1, <2>2 DEF LoadsSettings
  <1>13. TabInv(next)
    BY <1>7, <1>8, <1>9, <1>10, <1>11, <1>12 DEF TabInv, ClosedIsEmpty
  <1>14. explorer' = [stored |-> explorer.stored, writer |-> explorer.writer, tab |-> [explorer.tab EXCEPT ![t] = next]]
    BY <1>1, <1>2
  <1>15. explorer.writer = t => SameSettings(explorer.stored, next.overrides)
    <2> SUFFICES ASSUME explorer.writer = t PROVE SameSettings(explorer.stored, next.overrides)
      OBVIOUS
    <2>1. CASE t # Absent
      BY <1>7, <1>9, <2>1 DEF DashboardInv
    <2>2. CASE t = Absent
      BY <2>2, ExplorerAssumption
    <2>3. QED
      BY <2>1, <2>2
  <1>16. QED
    BY <1>1, <1>13, <1>14, <1>15, TabStep

-----------------------------------------------------------------------------
LEMMA DashboardInvInit == ExplorerInit => DashboardInv
  <1> SUFFICES ASSUME NEW stored \in Foreign,
                      explorer = [stored |-> stored, writer |-> Absent, tab |-> [t \in Tabs |-> ClosedTab]]
               PROVE  DashboardInv
    BY DEF ExplorerInit
  <1> DEFINE none == [p \in PanelNames |-> 0]
  <1>1. none \in [PanelNames -> Nat] /\ \A p \in PanelNames : none[p] = 0
    OBVIOUS
  <1>2. ClosedTab = [open |-> FALSE, overrides |-> <<>>, started |-> 0, loads |-> {}, newest |-> none,
                     from |-> none, shown |-> Absent, refreshing |-> FALSE]
    BY DEF ClosedTab
  <1> HIDE DEF none
  <1>3. ClosedTab \in Tab /\ ClosedTab.started = 0
    BY <1>1, <1>2, NoOverrides DEF Tab
  <1>4. Numbered(ClosedTab) /\ FirstIsWhole(ClosedTab) /\ LoadsSettings(ClosedTab)
    BY <1>1, <1>2 DEF Numbered, FirstIsWhole, LoadsSettings
  <1>5. ClosedTab = [ClosedTab EXCEPT !.started = ClosedTab.started]
    BY <1>3 DEF Tab
  <1>6. TabInv(ClosedTab)
    BY <1>3, <1>4, <1>5 DEF TabInv, ClosedIsEmpty
  <1>7. QED
    BY <1>3, <1>6 DEF DashboardInv

LEMMA DashboardInvStep == DashboardInv /\ [ExplorerNext]_explorer => DashboardInv'
  <1> SUFFICES ASSUME DashboardInv, [ExplorerNext]_explorer PROVE DashboardInv'
    OBVIOUS
  <1>1. CASE UNCHANGED explorer
    BY <1>1 DEF DashboardInv
  <1>2. ASSUME NEW t \in Tabs, OpenTab(t) PROVE DashboardInv'
    BY <1>2, OpenTabKeeps
  <1>3. ASSUME NEW t \in Tabs, CloseTab(t) PROVE DashboardInv'
    BY <1>3, CloseTabKeeps
  <1>4. ASSUME NEW t \in Tabs, Apply(t) PROVE DashboardInv'
    <2>1. PICK form \in Forms : ChangeSettings(t, WriteOrClear(explorer.tab[t].overrides, form))
      BY <1>4 DEF Apply
    <2>2. explorer.tab[t].overrides \in Overrides
      BY TabFacts
    <2>3. QED
      BY <2>1, <2>2, FormMeans, ChangeSettingsKeeps
  <1>5. ASSUME NEW t \in Tabs, ResetAll(t) PROVE DashboardInv'
    <2> DEFINE none == <<>>
    <2>0. none \in [{} -> OverrideTexts]
      OBVIOUS
    <2> HIDE DEF none
    <2>01. Meant(none)
      BY <2>0 DEF Meant
    <2>1. Meant(<<>>)
      BY <2>01 DEF none
    <2>2. QED
      BY <1>5, <2>1, NoOverrides, ChangeSettingsKeeps DEF ResetAll
  <1>6. ASSUME NEW t \in Tabs, RefreshAll(t) PROVE DashboardInv'
    <2>1. WholeLoad(explorer.tab[t].overrides) \in Request
          /\ WholeLoad(explorer.tab[t].overrides).config = MergeConfig(explorer.tab[t].overrides)
      BY TabFacts, WholeRequest
    <2>2. QED
      BY <1>6, <2>1, RefreshKeeps DEF RefreshAll
  <1>7. ASSUME NEW t \in Tabs, NEW p \in PanelNames, RefreshPanel(t, p) PROVE DashboardInv'
    <2> DEFINE request == [panels |-> {p}, config |-> MergeConfig(explorer.tab[t].overrides)]
    <2>1. request \in Request /\ request.config = MergeConfig(explorer.tab[t].overrides)
      BY TabFacts DEF Request, Configs
    <2>2. QED
      BY <1>7, <2>1, RefreshKeeps DEF RefreshPanel
  <1>8. ASSUME NEW t \in Tabs, NEW load \in explorer.tab[t].loads, LoadDashboard(t, load)
        PROVE  DashboardInv'
    BY <1>8, LoadKeeps
  <1>9. QED
    BY <1>1, <1>2, <1>3, <1>4, <1>5, <1>6, <1>7, <1>8 DEF ExplorerNext

LEMMA DashboardInvImplies == DashboardInv => DashboardIsCurrent
  <1> SUFFICES ASSUME DashboardInv PROVE DashboardIsCurrent
    OBVIOUS
  <1>1. ASSUME NEW t \in Tabs, NEW p \in PanelNames, explorer.tab[t].shown # Absent,
               explorer.tab[t].from[p] = explorer.tab[t].newest[p]
        PROVE  explorer.tab[t].shown[p] = LoadPanel(MergeConfig(explorer.tab[t].overrides), p)
    BY <1>1 DEF DashboardInv, TabInv, LoadsSettings
  <1>2. explorer.writer # Absent /\ explorer.tab[explorer.writer].open =>
          MergeConfig(ReadStoredOverrides(explorer.stored)) = MergeConfig(explorer.tab[explorer.writer].overrides)
    BY DEF DashboardInv, SameSettings
  <1>3. ASSUME NEW t \in Tabs, NEW p \in PanelNames, explorer.tab[t].shown # Absent,
               explorer.tab[t].from[p] = explorer.tab[t].newest[p], p = "reader", explorer.tab[t].shown[p] = "ok"
        PROVE  LET config == MergeConfig(explorer.tab[t].overrides)
               IN  config.contentTags # {}
                   /\ \A g \in config.contentTags : Says[config.readerUrl][g].status \in 200 .. 299
    BY <1>1, <1>3, PanelLoaded, ZenonT(60)
  <1>4. QED
    BY <1>1, <1>2, <1>3, ZenonT(60) DEF DashboardIsCurrent

\* The explorer shows what its settings lead to, whatever its tabs do, however late the loads answer.
THEOREM ExplorerIsCurrent == ExplorerSpec => []DashboardIsCurrent
  BY DashboardInvInit, DashboardInvStep, DashboardInvImplies, PTL DEF ExplorerSpec

-----------------------------------------------------------------------------
(* Rows in the order of their columns *)

LEMMA LeastIndex ==
  ASSUME NEW S \in SUBSET Nat, S # {}
  PROVE  \E n \in S : \A m \in S : n <= m
  <1>1. PICK n \in S : \A m \in S : ~(<<m, n>> \in OpToRel(<, Nat))
    BY NatLessThanWellFounded, WFMin
  <1>2. \A m \in S : ~(m < n)
    BY <1>1 DEF OpToRel
  <1>3. QED
    BY <1>2

LEMMA LexOrders ==
  ASSUME NEW n \in Nat, NEW s \in [1 .. n -> Int], NEW t \in [1 .. n -> Int], LexLess(s, t)
  PROVE  /\ ~LexLess(t, s)
         /\ \A u \in [1 .. n -> Int] : LexLess(s, u) \/ LexLess(u, t)
  <1>1. PICK i \in 1 .. n : s[i] < t[i] /\ \A j \in 1 .. i - 1 : s[j] = t[j]
    BY DEF LexLess
  <1>2. ASSUME LexLess(t, s) PROVE FALSE
    <2>1. PICK k \in 1 .. n : t[k] < s[k] /\ \A j \in 1 .. k - 1 : t[j] = s[j]
      BY <1>2 DEF LexLess
    <2>2. s[i] \in Int /\ t[i] \in Int /\ s[k] \in Int /\ t[k] \in Int /\ i \in Int /\ k \in Int
      OBVIOUS
    <2>3. CASE i = k
      BY <1>1, <2>1, <2>2, <2>3
    <2>4. CASE i < k
      <3>1. i \in 1 .. k - 1
        BY <2>4
      <3>2. QED
        BY <1>1, <2>1, <2>2, <3>1
    <2>5. CASE k < i
      <3>1. k \in 1 .. i - 1
        BY <2>5
      <3>2. QED
        BY <1>1, <2>1, <2>2, <3>1
    <2>6. QED
      BY <2>2, <2>3, <2>4, <2>5
  <1>3. ASSUME NEW u \in [1 .. n -> Int] PROVE LexLess(s, u) \/ LexLess(u, t)
    <2> DEFINE differ == {j \in 1 .. i : u[j] # s[j]}
    <2>1. CASE differ = {}
      <3>1. \A j \in 1 .. i - 1 : u[j] = t[j]
        <4>0. \A j \in 1 .. i - 1 : j \in 1 .. i
          OBVIOUS
        <4>1. \A j \in 1 .. i - 1 : u[j] = s[j]
          BY <2>1, <4>0
        <4>2. QED
          BY <1>1, <4>1
      <3>2. u[i] = s[i]
        BY <2>1
      <3>3. DOMAIN u = 1 .. n
        OBVIOUS
      <3>4. QED
        BY <1>1, <3>1, <3>2, <3>3 DEF LexLess
    <2>2. CASE differ # {}
      <3>1. PICK k \in differ : \A m \in differ : k <= m
        <4>1. differ \in SUBSET Nat
          OBVIOUS
        <4> HIDE DEF differ
        <4>2. QED
          BY <2>2, <4>1, LeastIndex
      <3>2. k \in 1 .. n /\ k <= i /\ u[k] # s[k] /\ k \in Int
        OBVIOUS
      <3>3. \A j \in 1 .. k - 1 : u[j] = s[j]
        <4>1. \A j \in 1 .. k - 1 : j \in 1 .. i /\ ~(k <= j)
          BY <3>2
        <4>2. QED
          BY <3>1, <4>1
      <3>4. u[k] \in Int /\ s[k] \in Int /\ t[k] \in Int /\ DOMAIN u = 1 .. n /\ DOMAIN s = 1 .. n
        BY <3>2
      <3> HIDE DEF differ
      <3>5. CASE s[k] < u[k]
        BY <3>2, <3>3, <3>4, <3>5 DEF LexLess
      <3>6. CASE u[k] < s[k]
        <4>1. \A j \in 1 .. k - 1 : u[j] = t[j]
          <5>1. \A j \in 1 .. k - 1 : j \in 1 .. i - 1
            BY <3>2
          <5>2. QED
            BY <1>1, <3>3, <5>1
        <4>2. u[k] < t[k]
          <5>1. CASE k = i
            BY <1>1, <3>4, <3>6, <5>1
          <5>2. CASE k # i
            <6>1. k \in 1 .. i - 1
              BY <3>2, <5>2
            <6>2. QED
              BY <1>1, <3>6, <6>1
          <5>3. QED
            BY <5>1, <5>2
        <4>3. QED
          BY <3>2, <3>4, <4>1, <4>2 DEF LexLess
      <3>7. QED
        BY <3>2, <3>4, <3>5, <3>6
    <2>3. QED
      BY <2>1, <2>2
  <1>4. QED
    BY <1>2, <1>3

\* Rows with a place of numbers each can be ordered by it.
LEMMA PlacesCompare ==
  ASSUME NEW found, NEW n \in Nat, NEW place \in [found -> [1 .. n -> Int]], NEW precedes,
         \A x, y \in found : <<x, y>> \in precedes <=> LexLess(place[x], place[y])
  PROVE  Compares(precedes, found)
  <1>1. ASSUME NEW x \in found, NEW y \in found, <<x, y>> \in precedes PROVE <<y, x>> \notin precedes
    <2>1. place[x] \in [1 .. n -> Int] /\ place[y] \in [1 .. n -> Int] /\ LexLess(place[x], place[y])
      BY <1>1
    <2>2. ~LexLess(place[y], place[x])
      BY <2>1, LexOrders
    <2>3. QED
      BY <2>2
  <1>2. ASSUME NEW x \in found, NEW y \in found, NEW z \in found, <<x, z>> \in precedes
        PROVE  <<x, y>> \in precedes \/ <<y, z>> \in precedes
    <2>1. /\ place[x] \in [1 .. n -> Int] /\ place[y] \in [1 .. n -> Int] /\ place[z] \in [1 .. n -> Int]
          /\ LexLess(place[x], place[z])
      BY <1>2
    <2>2. LexLess(place[x], place[y]) \/ LexLess(place[y], place[z])
      BY <2>1, LexOrders
    <2>3. QED
      BY <2>2
  <1>3. QED
    BY <1>1, <1>2 DEF Compares

LEMMA PlacesCompareBack ==
  ASSUME NEW found, NEW n \in Nat, NEW place \in [found -> [1 .. n -> Int]], NEW precedes,
         \A x, y \in found : <<x, y>> \in precedes <=> LexLess(place[y], place[x])
  PROVE  Compares(precedes, found)
  <1> DEFINE back == {p \in found \X found : LexLess(place[p[1]], place[p[2]])}
  <1>1. \A x, y \in found : <<x, y>> \in back <=> LexLess(place[x], place[y])
    OBVIOUS
  <1> HIDE DEF back
  <1>2. Compares(back, found)
    BY <1>1, PlacesCompare
  <1>3. QED
    BY <1>1, <1>2 DEF Compares

\* LIMIT: rows that were found, and no more than asked for.
LEMMA LimitedRows ==
  ASSUME NEW found, IsFiniteSet(found), NEW precedes, Compares(precedes, found),
         NEW limit \in Nat \cup {Absent}, limit # 0
  PROVE  LET sorted == Arranged(SetToSeq(found), precedes)
             list == IF limit = Absent \/ Len(sorted) < limit THEN sorted ELSE SubSeq(sorted, 1, limit)
         IN  /\ list \in Seq(found) /\ \A i \in DOMAIN list : list[i] \in found
             /\ limit \in Nat => Len(list) <= limit
  <1> DEFINE sorted == Arranged(SetToSeq(found), precedes)
             list == IF limit = Absent \/ Len(sorted) < limit THEN sorted ELSE SubSeq(sorted, 1, limit)
             n == Cardinality(found)
  <1>1. n \in Nat /\ sorted \in [1 .. n -> found]
    BY FoundRows
  <1>2. Absent \notin Nat
    BY ReadApiAssumption
  <1> HIDE DEF sorted, n
  <1>3. sorted \in Seq(found) /\ Len(sorted) = n
    BY <1>1
  <1>4. ASSUME limit = Absent \/ Len(sorted) < limit
        PROVE  list \in Seq(found) /\ (\A i \in DOMAIN list : list[i] \in found)
                /\ (limit \in Nat => Len(list) <= limit)
    <2>1. list = sorted
      BY <1>4
    <2>2. limit \in Nat => Len(sorted) <= limit
      BY <1>1, <1>2, <1>3, <1>4
    <2>3. \A i \in DOMAIN sorted : sorted[i] \in found
      BY <1>1
    <2> HIDE DEF list
    <2>4. QED
      BY <1>3, <2>1, <2>2, <2>3
  <1>5. ASSUME ~(limit = Absent \/ Len(sorted) < limit)
        PROVE  list \in Seq(found) /\ (\A i \in DOMAIN list : list[i] \in found)
                /\ (limit \in Nat => Len(list) <= limit)
    <2>1. limit \in Nat /\ limit <= Len(sorted) /\ limit >= 1
      BY <1>1, <1>3, <1>5
    <2>2. SubSeq(sorted, 1, limit) \in Seq(found) /\ Len(SubSeq(sorted, 1, limit)) = limit
      BY <1>3, <2>1
    <2>3. list = SubSeq(sorted, 1, limit)
      BY <1>5
    <2> HIDE DEF list
    <2>4. \A i \in DOMAIN list : list[i] \in found
      BY <2>2, <2>3
    <2>5. QED
      BY <2>1, <2>2, <2>3, <2>4
  <1>6. QED
    BY <1>4, <1>5 DEF sorted

-----------------------------------------------------------------------------
(* The requests of the four servers *)

LEMMA FirstOfThree ==
  ASSUME NEW checks, DOMAIN checks = {1, 2, 3}, checks[3][1] = TRUE
  PROVE  FirstOf(checks) =
            IF checks[1][1] THEN checks[1][2] ELSE IF checks[2][1] THEN checks[2][2] ELSE checks[3][2]
  <1> DEFINE first(i) == checks[i][1] /\ \A j \in 1 .. i - 1 : ~checks[j][1]
             chosen == CHOOSE i \in DOMAIN checks : first(i)
  <1>1. FirstOf(checks) = checks[chosen][2]
    BY DEF FirstOf
  <1>2. (first(1) <=> checks[1][1]) /\ (first(2) <=> checks[2][1] /\ ~checks[1][1]) /\ (first(3) <=> checks[3][1] /\ ~checks[1][1] /\ ~checks[2][1])
    <2>1. \A j : j \in 1 .. 1 - 1 <=> FALSE
      OBVIOUS
    <2>2. \A j : j \in 1 .. 2 - 1 <=> j = 1
      OBVIOUS
    <2>3. \A j : j \in 1 .. 3 - 1 <=> j = 1 \/ j = 2
      OBVIOUS
    <2>4. QED
      BY <2>1, <2>2, <2>3
  <1> HIDE DEF first
  <1>3. \E i \in DOMAIN checks : first(i)
    BY <1>2
  <1>4. chosen \in {1, 2, 3} /\ first(chosen)
    BY <1>3
  <1>5. QED
    BY <1>1, <1>2, <1>4

LEMMA FirstOfFour ==
  ASSUME NEW checks, DOMAIN checks = {1, 2, 3, 4}, checks[4][1] = TRUE
  PROVE  FirstOf(checks) =
            IF checks[1][1] THEN checks[1][2] ELSE IF checks[2][1] THEN checks[2][2] ELSE IF checks[3][1] THEN checks[3][2] ELSE checks[4][2]
  <1> DEFINE first(i) == checks[i][1] /\ \A j \in 1 .. i - 1 : ~checks[j][1]
             chosen == CHOOSE i \in DOMAIN checks : first(i)
  <1>1. FirstOf(checks) = checks[chosen][2]
    BY DEF FirstOf
  <1>2. (first(1) <=> checks[1][1]) /\ (first(2) <=> checks[2][1] /\ ~checks[1][1]) /\ (first(3) <=> checks[3][1] /\ ~checks[1][1] /\ ~checks[2][1]) /\ (first(4) <=> checks[4][1] /\ ~checks[1][1] /\ ~checks[2][1] /\ ~checks[3][1])
    <2>1. \A j : j \in 1 .. 1 - 1 <=> FALSE
      OBVIOUS
    <2>2. \A j : j \in 1 .. 2 - 1 <=> j = 1
      OBVIOUS
    <2>3. \A j : j \in 1 .. 3 - 1 <=> j = 1 \/ j = 2
      OBVIOUS
    <2>4. \A j : j \in 1 .. 4 - 1 <=> j = 1 \/ j = 2 \/ j = 3
      OBVIOUS
    <2>5. QED
      BY <2>1, <2>2, <2>3, <2>4
  <1> HIDE DEF first
  <1>3. \E i \in DOMAIN checks : first(i)
    BY <1>2
  <1>4. chosen \in {1, 2, 3, 4} /\ first(chosen)
    BY <1>3
  <1>5. QED
    BY <1>1, <1>2, <1>4

\* What AnsweredAsAsked says of one request and its answer.
RowFits(req, r) ==
    /\ req.server = "reader" => /\ r.tag = req.tag /\ Accepts(req.status, r.status)
                                /\ req.path = "/messages" => Accepts(req.sender, r.sender)
    /\ req.server = "indexer" =>
         IF req.version # Absent THEN r.version = req.version
         ELSE \E g \in Stored.generations : g.current /\ g.id = r.version

Suits(req, given) ==
    /\ (\E p \in ReadBy(req) : req[p] = Bad) => given.status \in {204, 400, 401, 404, 405}
    /\ req.path # "/health" => \A i \in DOMAIN given.rows : RowFits(req, given.rows[i])
    /\ req.limit \in Nat /\ req.path \in {"/messages", "/batches", "/posts", "/replies", "/profile/", "/proof"}
          => Len(given.rows) <= req.limit

\* An answer without rows suits, if it is not a failure a malformed parameter could lead to.
LEMMA WithoutRows ==
  ASSUME NEW req, NEW code, code \in {204, 400, 401, 404, 405} \/ \A p \in ReadBy(req) : req[p] # Bad
  PROVE  Suits(req, Status(code))
  <1>1. Status(code).status = code /\ Status(code).rows = <<>>
    BY DEF Status
  <1>2. DOMAIN <<>> = {} /\ Len(<<>>) = 0
    <2> DEFINE none == <<>>
    <2>1. none \in Seq({}) /\ Len(none) = 0
      OBVIOUS
    <2>2. DOMAIN none = 1 .. Len(none)
      BY <2>1
    <2>3. QED
      BY <2>1, <2>2
  <1> HIDE DEF Status
  <1>3. req.limit \in Nat => 0 <= req.limit
    OBVIOUS
  <1>4. QED
    BY <1>1, <1>2, <1>3 DEF Suits

\* Rows that were found under conditions the request fits.
LEMMA RowsGiven ==
  ASSUME NEW req, NEW rows, \A p \in ReadBy(req) : req[p] # Bad,
         \A i \in DOMAIN rows : RowFits(req, rows[i]), req.limit \in Nat => Len(rows) <= req.limit
  PROVE  Suits(req, Serve(rows))
  BY DEF Suits, Serve

LEMMA NullIsNoNumber == Absent \notin Nat /\ Bad \notin Nat /\ Huge \notin Nat
  BY ReadApiAssumption

LEMMA ListLimit ==
  ASSUME NEW limit, limit = Absent \/ limit \in 1 .. 1000
  PROVE  limit \in Nat \cup {Absent} /\ limit # 0
  <1>1. CASE limit = Absent
    BY <1>1, NullIsNoNumber
  <1>2. CASE limit \in 1 .. 1000
    BY <1>2
  <1>3. QED
    BY <1>1, <1>2

\* Columns of a row in their order of significance.
LEMMA MessagesFound ==
  ASSUME NEW req \in Requests, req.limit = Absent \/ req.limit \in 1 .. 1000
  PROVE  LET list == ListedMessages(req)
         IN  /\ \A i \in DOMAIN list : /\ list[i].tag = req.tag /\ Accepts(req.status, list[i].status)
                                       /\ Accepts(req.sender, list[i].sender)
             /\ req.limit \in Nat => Len(list) <= req.limit
  <1> DEFINE ok(r) == /\ r.tag = req.tag /\ Accepts(req.status, r.status)
                      /\ Accepts(req.batchRef, r.batchRef) /\ Accepts(req.sender, r.sender)
             found == {r \in Stored.messages : ok(r)}
             precedes == {p \in found \X found : MessageBefore(p[1], p[2])}
             place == [r \in found |-> IF r.block = Absent THEN <<1, 0, 0, 0, r.seq>>
                                       ELSE <<0, r.block, r.tx, r.index, r.seq>>]
             sorted == Arranged(SetToSeq(found), precedes)
             list == ListedMessages(req)
  <1>1. list = IF req.limit = Absent \/ Len(sorted) < req.limit THEN sorted ELSE SubSeq(sorted, 1, req.limit)
    BY DEF ListedMessages, Query
  <1>2. IsFiniteSet(found)
    BY StoredAssumption, FS_Subset
  <1>3. \A r \in found : r.seq \in Nat /\ (r.block # Absent => r.block \in Nat /\ r.tx \in Nat /\ r.index \in Nat)
    BY StoredAssumption
  <1>4. \A r \in found : ok(r)
    OBVIOUS
  <1>5. \A x, y \in found : <<x, y>> \in precedes <=> LexLess(place[x], place[y])
    BY DEF MessageBefore
  <1> HIDE DEF found, ok
  <1>6. place \in [found -> [1 .. 5 -> Int]]
    BY <1>3
  <1> HIDE DEF place, precedes
  <1>7. Compares(precedes, found)
    BY <1>5, <1>6, PlacesCompare, Zenon
  <1>8. req.limit \in Nat \cup {Absent} /\ req.limit # 0
    BY ListLimit
  <1> HIDE DEF list
  <1>9. /\ \A i \in DOMAIN list : list[i] \in found
        /\ req.limit \in Nat => Len(list) <= req.limit
    BY <1>1, <1>2, <1>7, <1>8, LimitedRows
  <1>10. \A i \in DOMAIN list : ok(list[i])
    BY <1>4, <1>9
  <1>11. QED
    BY <1>9, <1>10 DEF ok, list

LEMMA BatchesFound ==
  ASSUME NEW req \in Requests, req.limit = Absent \/ req.limit \in 1 .. 1000
  PROVE  LET list == ListedBatches(req)
         IN  /\ \A i \in DOMAIN list : list[i].tag = req.tag /\ Accepts(req.status, list[i].status)
             /\ req.limit \in Nat => Len(list) <= req.limit
  <1> DEFINE ok(r) == /\ r.tag = req.tag /\ Accepts(req.status, r.status)
                      /\ req.since # Absent => r.includedAt # Absent /\ r.includedAt >= req.since
             found == {r \in Stored.batches : ok(r)}
             precedes == {p \in found \X found : BatchBefore(p[1], p[2])}
             place == [r \in found |-> IF r.block = Absent THEN <<0, 0, r.submittedAt>>
                                       ELSE <<r.block + 1, r.tx, r.submittedAt>>]
             sorted == Arranged(SetToSeq(found), precedes)
             list == ListedBatches(req)
  <1>1. list = IF req.limit = Absent \/ Len(sorted) < req.limit THEN sorted ELSE SubSeq(sorted, 1, req.limit)
    BY DEF ListedBatches, Query
  <1>2. IsFiniteSet(found)
    BY StoredAssumption, FS_Subset
  <1>3. \A r \in found : r.submittedAt \in Nat /\ (r.block # Absent => r.block \in Nat /\ r.tx \in Nat)
    BY StoredAssumption
  <1>4. \A r \in found : ok(r)
    OBVIOUS
  <1>5. \A x, y \in found : <<x, y>> \in precedes <=> LexLess(place[y], place[x])
    BY DEF BatchBefore
  <1> HIDE DEF found, ok
  <1>6. place \in [found -> [1 .. 3 -> Int]]
    BY <1>3
  <1> HIDE DEF place, precedes
  <1>7. Compares(precedes, found)
    BY <1>5, <1>6, PlacesCompareBack, Zenon
  <1>8. req.limit \in Nat \cup {Absent} /\ req.limit # 0
    BY ListLimit
  <1> HIDE DEF list
  <1>9. /\ \A i \in DOMAIN list : list[i] \in found
        /\ req.limit \in Nat => Len(list) <= req.limit
    BY <1>1, <1>2, <1>7, <1>8, LimitedRows
  <1>10. \A i \in DOMAIN list : ok(list[i])
    BY <1>4, <1>9
  <1>11. QED
    BY <1>9, <1>10 DEF ok, list

LEMMA PostsByPlace ==
  ASSUME NEW found \in SUBSET Stored.posts, NEW limit \in 1 .. 200
  PROVE  LET sorted == Arranged(SetToSeq(found), {p \in found \X found : NewestPost(p[1], p[2])})
             list == IF limit = Absent \/ Len(sorted) < limit THEN sorted ELSE SubSeq(sorted, 1, limit)
         IN  (\A i \in DOMAIN list : list[i] \in found) /\ Len(list) <= limit
  <1> DEFINE precedes == {p \in found \X found : NewestPost(p[1], p[2])}
             place == [r \in found |-> r.coord]
  <1>1. IsFiniteSet(found) /\ place \in [found -> [1 .. 3 -> Int]]
    <2>1. \A r \in found : r.coord \in [1 .. 3 -> Nat]
      BY StoredAssumption
    <2>2. \A r \in found : r.coord \in [1 .. 3 -> Int]
      BY <2>1
    <2>3. IsFiniteSet(found)
      BY StoredAssumption, FS_Subset
    <2>4. QED
      BY <2>2, <2>3
  <1>2. \A x, y \in found : <<x, y>> \in precedes <=> LexLess(place[y], place[x])
    BY DEF NewestPost
  <1> HIDE DEF precedes, place
  <1>3. Compares(precedes, found)
    BY <1>1, <1>2, PlacesCompareBack
  <1>4. limit \in Nat \cup {Absent} /\ limit # 0 /\ limit \in Nat
    OBVIOUS
  <1>5. QED
    BY <1>1, <1>3, <1>4, LimitedRows DEF precedes

LEMMA NumberAhead ==
  ASSUME NEW number \in Nat, NEW numbers \in [1 .. 3 -> Nat]
  PROVE  <<number>> \o numbers \in [1 .. 4 -> Int]
  <1> DEFINE n == 3
             a == <<number>>
             d == a \o numbers
  <1>1. n \in Nat /\ numbers \in [1 .. n -> Nat]
    OBVIOUS
  <1> HIDE DEF n
  <1>2. numbers \in Seq(Nat) /\ Len(numbers) = n
    BY <1>1
  <1>3. a \in Seq(Nat) /\ Len(a) = 1
    OBVIOUS
  <1> HIDE DEF a
  <1>4. d \in Seq(Nat) /\ Len(d) = Len(a) + Len(numbers)
    BY <1>2, <1>3, ConcatProperties
  <1> HIDE DEF d
  <1>41. Len(d) = 4
    BY <1>2, <1>3, <1>4 DEF n
  <1>42. \A i \in 1 .. Len(d) : d[i] \in Nat
    BY <1>4, ElementOfSeq
  <1>5. Len(d) = 4 /\ \A i \in 1 .. Len(d) : d[i] \in Nat
    BY <1>41, <1>42
  <1>6. d \in [1 .. Len(d) -> Int]
    BY <1>4, <1>5
  <1>7. d \in [1 .. 4 -> Int]
    BY <1>5, <1>6
  <1>8. QED
    BY <1>7 DEF d, a

LEMMA PostsByTime ==
  ASSUME NEW found \in SUBSET Stored.posts, NEW limit \in 1 .. 200
  PROVE  LET sorted == Arranged(SetToSeq(found), {p \in found \X found : OldestReply(p[1], p[2])})
             list == IF limit = Absent \/ Len(sorted) < limit THEN sorted ELSE SubSeq(sorted, 1, limit)
         IN  (\A i \in DOMAIN list : list[i] \in found) /\ Len(list) <= limit
  <1> DEFINE precedes == {p \in found \X found : OldestReply(p[1], p[2])}
             place == [r \in found |-> <<r.timestamp>> \o r.coord]
  <1>1. IsFiniteSet(found) /\ place \in [found -> [1 .. 4 -> Int]]
    <2>1. \A r \in found : r.timestamp \in Nat /\ r.coord \in [1 .. 3 -> Nat]
      BY StoredAssumption
    <2>2. \A r \in found : <<r.timestamp>> \o r.coord \in [1 .. 4 -> Int]
      BY <2>1, NumberAhead
    <2>3. IsFiniteSet(found)
      BY StoredAssumption, FS_Subset
    <2>4. QED
      BY <2>2, <2>3
  <1>2. \A x, y \in found : <<x, y>> \in precedes <=> LexLess(place[x], place[y])
    BY DEF OldestReply
  <1> HIDE DEF precedes, place
  <1>3. Compares(precedes, found)
    BY <1>1, <1>2, PlacesCompare
  <1>4. limit \in Nat \cup {Absent} /\ limit # 0 /\ limit \in Nat
    OBVIOUS
  <1>5. QED
    BY <1>1, <1>3, <1>4, LimitedRows DEF precedes

-----------------------------------------------------------------------------
\* The answers of each server.

\* A server without rows of a tag or a generation says nothing wrong where nothing was asked.
LEMMA NothingAsked ==
  ASSUME NEW req, req.server \notin {"reader", "indexer"}, ReadBy(req) = {},
         req.path \notin {"/messages", "/batches", "/posts", "/replies", "/profile/", "/proof"}, NEW given
  PROVE  Suits(req, given)
  BY DEF Suits, RowFits

LEMMA PosterSuits ==
  ASSUME NEW req \in Requests, req.server = "poster"
  PROVE  Suits(req, PosterAnswer(req))
  <1> DEFINE a == req.method = "OPTIONS"
             b == AuthToken # Absent /\ req.token # AuthToken
             c == <<req.method, req.path>> \notin PosterRoutes
             checks == << <<a, 204>>, <<b, 401>>, <<c, 404>>, <<TRUE, 0>> >>
             refused == FirstOf(checks)
  <1>0. /\ DOMAIN checks = {1, 2, 3, 4} /\ checks[4][1] = TRUE /\ checks[4][2] = 0
        /\ checks[1][1] = a /\ checks[2][1] = b /\ checks[3][1] = c
        /\ checks[1][2] = 204 /\ checks[2][2] = 401 /\ checks[3][2] = 404
    OBVIOUS
  <1> HIDE DEF checks
  <1>00. DOMAIN checks = {1, 2, 3, 4} /\ checks[4][1] = TRUE
    BY <1>0
  <1>01. refused = IF checks[1][1] THEN checks[1][2] ELSE IF checks[2][1] THEN checks[2][2]
                   ELSE IF checks[3][1] THEN checks[3][2] ELSE checks[4][2]
    BY <1>00, FirstOfFour
  <1> HIDE DEF refused
  <1>1. refused = IF a THEN 204 ELSE IF b THEN 401 ELSE IF c THEN 404 ELSE 0
    BY <1>0, <1>01
  <1> HIDE DEF a, b, c
  <1> HIDE DEF refused
  <1>2. PosterAnswer(req) =
            CASE refused # 0 -> Status(refused)
              [] refused = 0 /\ req.path = "/submit" -> SubmitAnswer(req)
              [] refused = 0 /\ req.path = "/pending" -> PendingAnswer(req)
              [] refused = 0 /\ req.path = "/submitted-batches" -> SubmittedAnswer(req)
              [] refused = 0 /\ req.path = "/nonce/" -> NonceAnswer(req)
              [] refused = 0 /\ req.path = "/flush" -> FlushAnswer(req)
              [] refused = 0 /\ req.path \in {"/status", "/health"} -> Status(200)
    BY DEF PosterAnswer, refused, checks, a, b, c
  <1>3. CASE refused # 0
    <2>1. PosterAnswer(req) = Status(refused)
      BY <1>2, <1>3
    <2>2. refused \in {204, 400, 401, 404, 405}
      BY <1>1, <1>3
    <2>3. QED
      BY <2>1, <2>2, WithoutRows
  <1>4. CASE refused = 0
    <2>1. req.path \in {"/submit", "/pending", "/submitted-batches", "/nonce/", "/status", "/health", "/flush"}
      BY <1>1, <1>4 DEF c, PosterRoutes
    <2>2. CASE req.path = "/submit"
      BY <2>2, NothingAsked DEF ReadBy
    <2>3. CASE req.path \in {"/status", "/health", "/flush"}
      <3>1. ReadBy(req) = {}
        BY <2>3 DEF ReadBy
      <3>2. QED
        BY <2>3, <3>1, NothingAsked
    <2>4. CASE req.path = "/pending"
      <3>1. PosterAnswer(req) = Status(IF PosterLimitOK(req.limit) THEN 200 ELSE 400)
        BY <1>2, <1>4, <2>4 DEF PendingAnswer
      <3>2. ReadBy(req) = {"limit"}
        BY <2>4 DEF ReadBy
      <3>3. PosterLimitOK(req.limit) => \A p \in ReadBy(req) : req[p] # Bad
        BY <3>2 DEF PosterLimitOK
      <3>4. QED
        BY <3>1, <3>3, WithoutRows
    <2>5. CASE req.path = "/submitted-batches"
      <3> DEFINE d == req.since = Bad \/ ~PosterLimitOK(req.limit)
                 e == req.since = Huge
                 codes == << <<d, 400>>, <<e, 500>>, <<TRUE, 200>> >>
      <3>1. PosterAnswer(req) = Status(FirstOf(codes))
        BY <1>2, <1>4, <2>5 DEF SubmittedAnswer
      <3>2. /\ DOMAIN codes = {1, 2, 3} /\ codes[3][1] = TRUE /\ codes[3][2] = 200
            /\ codes[1][1] = d /\ codes[2][1] = e /\ codes[1][2] = 400 /\ codes[2][2] = 500
        OBVIOUS
      <3>3. ReadBy(req) = {"since", "limit"}
        BY <2>5 DEF ReadBy
      <3>4. ~d => \A p \in ReadBy(req) : req[p] # Bad
        BY <3>3 DEF PosterLimitOK
      <3> HIDE DEF codes, d, e
      <3>5. FirstOf(codes) = IF d THEN 400 ELSE IF e THEN 500 ELSE 200
        <4>1. FirstOf(codes) = IF codes[1][1] THEN codes[1][2] ELSE IF codes[2][1] THEN codes[2][2] ELSE codes[3][2]
          BY <3>2, FirstOfThree
        <4>2. QED
          BY <3>2, <4>1
      <3>6. QED
        BY <3>1, <3>4, <3>5, WithoutRows
    <2>6. CASE req.path = "/nonce/"
      <3>1. PosterAnswer(req) = Status(IF req.param \in {Absent, Bad} THEN 400 ELSE 200)
        BY <1>2, <1>4, <2>6 DEF NonceAnswer
      <3>2. ReadBy(req) = {"param"}
        BY <2>6 DEF ReadBy
      <3>3. QED
        BY <3>1, <3>2, WithoutRows
    <2>7. QED
      BY <2>1, <2>2, <2>3, <2>4, <2>5, <2>6
  <1>5. QED
    BY <1>3, <1>4

-----------------------------------------------------------------------------
LEMMA ListSuits ==
  ASSUME NEW req \in Requests, req.server = "reader", req.path \in {"/messages", "/batches"}
  PROVE  Suits(req, ListAnswer(req))
  <1> DEFINE statuses == IF req.path = "/messages" THEN {"pending", "submitted", "confirmed", "reorged"}
                         ELSE {"pending_tx", "confirmed", "reorged"}
             ok == ListQueryOK(req, statuses)
             rows == IF req.path = "/messages" THEN ListedMessages(req) ELSE ListedBatches(req)
  <1>1. ListAnswer(req) = IF ~ok THEN Status(400) ELSE Serve(rows)
    BY DEF ListAnswer
  <1>2. Bad \notin statuses /\ Absent # Bad
    BY RequestsAssumption, ReadApiAssumption
  <1>3. CASE ~ok
    BY <1>1, <1>3, WithoutRows
  <1>4. CASE ok
    <2>1. /\ req.tag # Bad /\ req.status \in statuses \cup {Absent} /\ req.limit # Bad
          /\ req.limit = Absent \/ req.limit \in 1 .. 1000
          /\ req.path = "/messages" => req.batchRef # Bad /\ req.sender # Bad
          /\ req.path = "/batches" => req.since # Bad
      BY <1>4 DEF ListQueryOK
    <2>2. req.status # Bad
      BY <1>2, <2>1
    <2>3. \A p \in ReadBy(req) : req[p] # Bad
      <3>1. CASE req.path = "/messages"
        <4>1. ReadBy(req) = {"tag", "status", "limit", "batchRef", "sender"}
          BY <3>1 DEF ReadBy
        <4>2. QED
          BY <2>1, <2>2, <3>1, <4>1
      <3>2. CASE req.path = "/batches"
        <4>1. ReadBy(req) = {"tag", "status", "limit", "since"}
          BY <3>2 DEF ReadBy
        <4>2. QED
          BY <2>1, <2>2, <3>2, <4>1
      <3>3. QED
        BY <3>1, <3>2
    <2>4. (\A i \in DOMAIN rows : RowFits(req, rows[i])) /\ (req.limit \in Nat => Len(rows) <= req.limit)
      <3>1. CASE req.path = "/messages"
        <4>1. rows = ListedMessages(req)
          BY <3>1
        <4> HIDE DEF rows
        <4>2. /\ \A i \in DOMAIN rows : /\ rows[i].tag = req.tag /\ Accepts(req.status, rows[i].status)
                                        /\ Accepts(req.sender, rows[i].sender)
              /\ req.limit \in Nat => Len(rows) <= req.limit
          BY <2>1, <4>1, MessagesFound
        <4>3. QED
          BY <4>2 DEF RowFits
      <3>2. CASE req.path = "/batches"
        <4>1. rows = ListedBatches(req)
          BY <3>2
        <4> HIDE DEF rows
        <4>2. /\ \A i \in DOMAIN rows : rows[i].tag = req.tag /\ Accepts(req.status, rows[i].status)
              /\ req.limit \in Nat => Len(rows) <= req.limit
          BY <2>1, <4>1, BatchesFound
        <4>3. QED
          BY <3>2, <4>2 DEF RowFits
      <3>3. QED
        BY <3>1, <3>2
    <2> HIDE DEF rows
    <2>5. QED
      BY <1>1, <1>4, <2>3, <2>4, RowsGiven
  <1>5. QED
    BY <1>3, <1>4

LEMMA ItemSuits ==
  ASSUME NEW req \in Requests, req.path \in {"/batches/", "/blobs/"}
  PROVE  Suits(req, ItemAnswer(req))
  <1> DEFINE found == IF req.path = "/batches/" THEN BatchOfTx(req.param) # <<>> ELSE req.param \in Stored.blobs
             code == IF req.param = Bad THEN 400 ELSE IF found THEN 200 ELSE 404
  <1>1. ItemAnswer(req) = Status(code)
    BY DEF ItemAnswer
  <1>2. ReadBy(req) = {"param"}
    <2>1. CASE req.path = "/batches/"
      BY <2>1 DEF ReadBy
    <2>2. CASE req.path = "/blobs/"
      BY <2>2 DEF ReadBy
    <2>3. QED
      BY <2>1, <2>2
  <1>3. code = 400 \/ \A p \in ReadBy(req) : req[p] # Bad
    BY <1>2
  <1> HIDE DEF code
  <1>4. QED
    BY <1>1, <1>3, WithoutRows

LEMMA ReaderSuits ==
  ASSUME NEW req \in Requests, req.server = "reader"
  PROVE  Suits(req, ReaderAnswer(req))
  <1> DEFINE item == req.path \in {"/batches/", "/blobs/"}
             a == req.method = "OPTIONS"
             b == req.method # "GET" \/ req.path \notin ReaderRoutes \/ (item /\ req.param = Absent)
             checks == << <<a, 204>>, <<b, 404>>, <<TRUE, 0>> >>
             refused == FirstOf(checks)
  <1>0. /\ DOMAIN checks = {1, 2, 3} /\ checks[3][1] = TRUE /\ checks[3][2] = 0
        /\ checks[1][1] = a /\ checks[2][1] = b /\ checks[1][2] = 204 /\ checks[2][2] = 404
    OBVIOUS
  <1> HIDE DEF checks
  <1>1. refused = IF a THEN 204 ELSE IF b THEN 404 ELSE 0
    <2>1. DOMAIN checks = {1, 2, 3} /\ checks[3][1] = TRUE
      BY <1>0
    <2>2. refused = IF checks[1][1] THEN checks[1][2] ELSE IF checks[2][1] THEN checks[2][2] ELSE checks[3][2]
      BY <2>1, FirstOfThree
    <2> HIDE DEF a, b, refused
    <2>3. QED
      BY <1>0, <2>2
  <1> HIDE DEF refused
  <1>2. ReaderAnswer(req) =
            CASE refused # 0 -> Status(refused)
              [] refused = 0 /\ req.path \in {"/messages", "/batches"} -> ListAnswer(req)
              [] refused = 0 /\ item -> ItemAnswer(req)
              [] refused = 0 /\ req.path = "/health" -> Serve(<<BlocksBehind(Stored.head, Stored.cursor)>>)
    BY DEF ReaderAnswer, refused, checks
  <1>3. CASE refused # 0
    <2>1. ReaderAnswer(req) = Status(refused)
      BY <1>2, <1>3
    <2>2. refused \in {204, 404}
      BY <1>1, <1>3
    <2>3. QED
      BY <2>1, <2>2, WithoutRows
  <1>4. CASE refused = 0
    <2>1. req.path \in {"/messages", "/batches", "/batches/", "/blobs/", "/health"}
      BY <1>1, <1>4 DEF ReaderRoutes
    <2>2. CASE req.path \in {"/messages", "/batches"}
      <3>1. ReaderAnswer(req) = ListAnswer(req)
        BY <1>2, <1>4, <2>2
      <3>2. QED
        BY <2>2, <3>1, ListSuits
    <2>3. CASE item
      <3>1. ReaderAnswer(req) = ItemAnswer(req)
        BY <1>2, <1>4, <2>3
      <3>2. QED
        BY <2>3, <3>1, ItemSuits
    <2>4. CASE req.path = "/health"
      <3>1. ReadBy(req) = {}
        BY <2>4 DEF ReadBy
      <3>2. QED
        BY <2>4, <3>1 DEF Suits
    <2>5. QED
      BY <2>1, <2>2, <2>3, <2>4
  <1>5. QED
    BY <1>3, <1>4

-----------------------------------------------------------------------------
\* The rows of one generation fit a request for it, or for the current one.
LEMMA OfItsVersion ==
  ASSUME NEW req, req.server = "indexer", NEW r, r.version = ResolveVersion(req.version),
         ResolveVersion(req.version) # Absent
  PROVE  RowFits(req, r) /\ req.version # Bad
  <1> DEFINE fits == {g \in Stored.generations : IF req.version = Absent THEN g.current ELSE g.id = req.version}
             found == CHOOSE g \in fits : TRUE
  <1>1. ResolveVersion(req.version) = IF fits = {} THEN Absent ELSE found.id
    BY DEF ResolveVersion
  <1>2. fits # {}
    BY <1>1
  <1>3. found \in fits
    BY <1>2
  <1>4. r.version = found.id
    BY <1>1, <1>2
  <1> HIDE DEF found
  <1>5. found \in Stored.generations /\ (IF req.version = Absent THEN found.current ELSE found.id = req.version)
    BY <1>3
  <1>6. found.id \notin {Absent, Bad}
    BY <1>5, StoredAssumption
  <1>7. CASE req.version = Absent
    <2>1. req.version # Bad
      BY <1>7, ReadApiAssumption
    <2>2. QED
      BY <1>4, <1>5, <1>7, <2>1 DEF RowFits
  <1>8. CASE req.version # Absent
    BY <1>4, <1>5, <1>6, <1>8 DEF RowFits
  <1>9. QED
    BY <1>7, <1>8

\* A handler of one generation suits the request if it does where its checks pass.
LEMMA VersionSuits ==
  ASSUME NEW req, NEW refused \in {0, 400, 404}, NEW result, refused = 0 => Suits(req, result)
  PROVE  Suits(req, IF refused # 0 THEN Status(refused) ELSE result)
  <1>1. CASE refused = 0
    BY <1>1
  <1>2. CASE refused # 0
    <2>1. refused \in {204, 400, 401, 404, 405}
      BY <1>2
    <2>2. Suits(req, Status(refused))
      BY <2>1, WithoutRows
    <2>3. QED
      BY <1>2, <2>2
  <1>3. QED
    BY <1>1, <1>2

LEMMA LimitKept ==
  ASSUME NEW limit, IndexerLimitOK(limit)
  PROVE  IndexerLimit(limit) \in 1 .. 200 /\ limit # Bad /\ (limit \in Nat => IndexerLimit(limit) = limit)
  BY NullIsNoNumber DEF IndexerLimitOK, IndexerLimit

LEMMA PostsSuits ==
  ASSUME NEW req \in Requests, req.server = "indexer", req.path = "/posts"
  PROVE  Suits(req, PostsAnswer(req))
  <1> DEFINE v == ResolveVersion(req.version)
             ok == IndexerLimitOK(req.limit) /\ req.sender # Bad /\ req.since # Bad
             wrong == ~ok \/ (req.version # Absent /\ v = Absent)
             none == v = Absent
             checks == << <<wrong, 400>>, <<none, 404>>, <<TRUE, 0>> >>
             found == {p \in Stored.posts : /\ p.version = v /\ p.parent = Absent
                                            /\ Accepts(req.sender, p.sender)
                                            /\ req.since # Absent => p.coord[1] >= req.since}
             sorted == Arranged(SetToSeq(found), {p \in found \X found : NewestPost(p[1], p[2])})
             limit == IndexerLimit(req.limit)
             list == IF limit = Absent \/ Len(sorted) < limit THEN sorted ELSE SubSeq(sorted, 1, limit)
             refused == FirstOf(checks)
             result == IF req.since = Huge THEN Status(500) ELSE Serve(list)
  <1>1. PostsAnswer(req) = IF refused # 0 THEN Status(refused) ELSE result
    BY DEF PostsAnswer, OfVersion, Query
  <1>2. /\ DOMAIN checks = {1, 2, 3} /\ checks[3][1] = TRUE /\ checks[3][2] = 0
        /\ checks[1][1] = wrong /\ checks[1][2] = 400 /\ checks[2][1] = none /\ checks[2][2] = 404
    OBVIOUS
  <1>3. ASSUME ok, v # Absent PROVE Suits(req, result)
    <2>1. ReadBy(req) = {"limit", "sender", "since", "version"}
      BY DEF ReadBy
    <2>2. limit \in 1 .. 200 /\ req.limit # Bad /\ (req.limit \in Nat => limit = req.limit)
      BY <1>3, LimitKept
    <2>3. found \in SUBSET Stored.posts /\ \A p \in found : p.version = v
      OBVIOUS
    <2> HIDE DEF found, limit
    <2>4. (\A i \in DOMAIN list : list[i] \in found) /\ Len(list) <= limit
      BY <2>2, <2>3, PostsByPlace, Zenon
    <2> HIDE DEF list
    <2>5. \A i \in DOMAIN list : RowFits(req, list[i])
      BY <1>3, <2>3, <2>4, OfItsVersion
    <2>6. req.version # Bad
      <3> DEFINE r == [version |-> v]
      <3>1. r.version = v
        OBVIOUS
      <3> HIDE DEF r
      <3>2. QED
        BY <1>3, <3>1, OfItsVersion
    <2>7. \A p \in ReadBy(req) : req[p] # Bad
      BY <1>3, <2>1, <2>2, <2>6
    <2>8. Suits(req, Serve(list))
      BY <2>2, <2>4, <2>5, <2>7, RowsGiven
    <2>9. Suits(req, Status(500))
      BY <2>7, WithoutRows
    <2>10. QED
      BY <2>8, <2>9
  <1>4. refused = IF wrong THEN 400 ELSE IF none THEN 404 ELSE 0
    <2> HIDE DEF checks
    <2>1. DOMAIN checks = {1, 2, 3} /\ checks[3][1] = TRUE
      BY <1>2
    <2>2. refused = IF checks[1][1] THEN checks[1][2] ELSE IF checks[2][1] THEN checks[2][2] ELSE checks[3][2]
      BY <2>1, FirstOfThree
    <2> HIDE DEF wrong, none, refused
    <2>3. QED
      BY <1>2, <2>2
  <1>5. (refused = 0 => Suits(req, result)) /\ refused \in {0, 400, 404}
    <2> HIDE DEF refused, result
    <2>1. QED
      BY <1>3, <1>4
  <1> HIDE DEF refused, result
  <1>6. QED
    BY <1>1, <1>5, VersionSuits

-----------------------------------------------------------------------------
LEMMA RepliesSuits ==
  ASSUME NEW req \in Requests, req.server = "indexer", req.path = "/replies"
  PROVE  Suits(req, RepliesAnswer(req))
  <1> DEFINE v == ResolveVersion(req.version)
             ok == IndexerLimitOK(req.limit) /\ req.param \notin {Absent, Bad}
             wrong == ~ok \/ (req.version # Absent /\ v = Absent)
             none == v = Absent
             checks == << <<wrong, 400>>, <<none, 404>>, <<TRUE, 0>> >>
             found == {p \in Stored.posts : p.version = v /\ p.parent = req.param}
             sorted == Arranged(SetToSeq(found), {p \in found \X found : OldestReply(p[1], p[2])})
             limit == IndexerLimit(req.limit)
             list == IF limit = Absent \/ Len(sorted) < limit THEN sorted ELSE SubSeq(sorted, 1, limit)
             refused == FirstOf(checks)
             result == Serve(list)
  <1>1. RepliesAnswer(req) = IF refused # 0 THEN Status(refused) ELSE result
    BY DEF RepliesAnswer, OfVersion, Query
  <1>2. /\ DOMAIN checks = {1, 2, 3} /\ checks[3][1] = TRUE /\ checks[3][2] = 0
        /\ checks[1][1] = wrong /\ checks[1][2] = 400 /\ checks[2][1] = none /\ checks[2][2] = 404
    OBVIOUS
  <1>3. ASSUME ok, v # Absent PROVE Suits(req, result)
    <2>1. ReadBy(req) = {"limit", "param", "version"}
      BY DEF ReadBy
    <2>2. limit \in 1 .. 200 /\ req.limit # Bad /\ (req.limit \in Nat => limit = req.limit)
      BY <1>3, LimitKept
    <2>3. found \in SUBSET Stored.posts /\ \A p \in found : p.version = v
      OBVIOUS
    <2> HIDE DEF found, limit
    <2>4. (\A i \in DOMAIN list : list[i] \in found) /\ Len(list) <= limit
      BY <2>2, <2>3, PostsByTime, Zenon
    <2> HIDE DEF list
    <2>5. \A i \in DOMAIN list : RowFits(req, list[i])
      BY <1>3, <2>3, <2>4, OfItsVersion
    <2>6. req.version # Bad
      <3> DEFINE r == [version |-> v]
      <3>1. r.version = v
        OBVIOUS
      <3> HIDE DEF r
      <3>2. QED
        BY <1>3, <3>1, OfItsVersion
    <2>7. \A p \in ReadBy(req) : req[p] # Bad
      BY <1>3, <2>1, <2>2, <2>6
    <2>8. QED
      BY <2>2, <2>4, <2>5, <2>7, RowsGiven
  <1>4. refused = IF wrong THEN 400 ELSE IF none THEN 404 ELSE 0
    <2> HIDE DEF checks
    <2>1. DOMAIN checks = {1, 2, 3} /\ checks[3][1] = TRUE
      BY <1>2
    <2>2. refused = IF checks[1][1] THEN checks[1][2] ELSE IF checks[2][1] THEN checks[2][2] ELSE checks[3][2]
      BY <2>1, FirstOfThree
    <2> HIDE DEF wrong, none, refused
    <2>3. QED
      BY <1>2, <2>2
  <1>5. (refused = 0 => Suits(req, result)) /\ refused \in {0, 400, 404}
    <2> HIDE DEF refused, result
    <2>1. QED
      BY <1>3, <1>4
  <1> HIDE DEF refused, result
  <1>6. QED
    BY <1>1, <1>5, VersionSuits

LEMMA ProfileSuits ==
  ASSUME NEW req \in Requests, req.server = "indexer", req.path = "/profile/"
  PROVE  Suits(req, ProfileAnswer(req))
  <1> DEFINE v == ResolveVersion(req.version)
             ok == req.param # Bad /\ IndexerLimitOK(req.limit)
             wrong == ~ok \/ (req.version # Absent /\ v = Absent)
             none == v = Absent
             checks == << <<wrong, 400>>, <<none, 404>>, <<TRUE, 0>> >>
             found == {p \in Stored.posts : p.version = v /\ p.sender = req.param}
             sorted == Arranged(SetToSeq(found), {p \in found \X found : NewestPost(p[1], p[2])})
             limit == IndexerLimit(req.limit)
             list == IF limit = Absent \/ Len(sorted) < limit THEN sorted ELSE SubSeq(sorted, 1, limit)
             refused == FirstOf(checks)
             result == Serve(list)
  <1>1. ProfileAnswer(req) = IF refused # 0 THEN Status(refused) ELSE result
    BY DEF ProfileAnswer, OfVersion, Query
  <1>2. /\ DOMAIN checks = {1, 2, 3} /\ checks[3][1] = TRUE /\ checks[3][2] = 0
        /\ checks[1][1] = wrong /\ checks[1][2] = 400 /\ checks[2][1] = none /\ checks[2][2] = 404
    OBVIOUS
  <1>3. ASSUME ok, v # Absent PROVE Suits(req, result)
    <2>1. ReadBy(req) = {"limit", "param", "version"}
      BY DEF ReadBy
    <2>2. limit \in 1 .. 200 /\ req.limit # Bad /\ (req.limit \in Nat => limit = req.limit)
      BY <1>3, LimitKept
    <2>3. found \in SUBSET Stored.posts /\ \A p \in found : p.version = v
      OBVIOUS
    <2> HIDE DEF found, limit
    <2>4. (\A i \in DOMAIN list : list[i] \in found) /\ Len(list) <= limit
      BY <2>2, <2>3, PostsByPlace, Zenon
    <2> HIDE DEF list
    <2>5. \A i \in DOMAIN list : RowFits(req, list[i])
      BY <1>3, <2>3, <2>4, OfItsVersion
    <2>6. req.version # Bad
      <3> DEFINE r == [version |-> v]
      <3>1. r.version = v
        OBVIOUS
      <3> HIDE DEF r
      <3>2. QED
        BY <1>3, <3>1, OfItsVersion
    <2>7. \A p \in ReadBy(req) : req[p] # Bad
      BY <1>3, <2>1, <2>2, <2>6
    <2>8. QED
      BY <2>2, <2>4, <2>5, <2>7, RowsGiven
  <1>4. refused = IF wrong THEN 400 ELSE IF none THEN 404 ELSE 0
    <2> HIDE DEF checks
    <2>1. DOMAIN checks = {1, 2, 3} /\ checks[3][1] = TRUE
      BY <1>2
    <2>2. refused = IF checks[1][1] THEN checks[1][2] ELSE IF checks[2][1] THEN checks[2][2] ELSE checks[3][2]
      BY <2>1, FirstOfThree
    <2> HIDE DEF wrong, none, refused
    <2>3. QED
      BY <1>2, <2>2
  <1>5. (refused = 0 => Suits(req, result)) /\ refused \in {0, 400, 404}
    <2> HIDE DEF refused, result
    <2>1. QED
      BY <1>3, <1>4
  <1> HIDE DEF refused, result
  <1>6. QED
    BY <1>1, <1>5, VersionSuits

\* The rows of a set, in any order.
LEMMA RowsOfSet ==
  ASSUME NEW found, IsFiniteSet(found)
  PROVE  \A i \in DOMAIN SetToSeq(found) : SetToSeq(found)[i] \in found
  <1> DEFINE n == Cardinality(found)
             s == SetToSeq(found)
  <1>1. n \in Nat /\ ExistsBijection(1 .. n, found)
    BY FS_CardinalityType
  <1>2. \E f \in [1 .. n -> found] : IsInjective(f)
    BY <1>1 DEF ExistsBijection, Bijection, Injection, IsInjective
  <1>3. s \in [1 .. n -> found]
    BY <1>2 DEF SetToSeq
  <1> HIDE DEF s
  <1>4. QED
    BY <1>3 DEF s

LEMMA PostSuits ==
  ASSUME NEW req \in Requests, req.server = "indexer", req.path \in {"/posts/id/", "/posts/hash/"}
  PROVE  Suits(req, PostAnswer(req))
  <1> DEFINE v == ResolveVersion(req.version)
             ok == req.param # Bad
             wrong == ~ok \/ (req.version # Absent /\ v = Absent)
             none == v = Absent
             checks == << <<wrong, 400>>, <<none, 404>>, <<TRUE, 0>> >>
             found == {p \in Stored.posts : p.version = v /\ p.hash = req.param}
             list == SetToSeq(found)
             refused == FirstOf(checks)
             result == IF found = {} THEN Status(404) ELSE Serve(list)
  <1>1. PostAnswer(req) = IF refused # 0 THEN Status(refused) ELSE result
    BY DEF PostAnswer, OfVersion
  <1>2. /\ DOMAIN checks = {1, 2, 3} /\ checks[3][1] = TRUE /\ checks[3][2] = 0
        /\ checks[1][1] = wrong /\ checks[1][2] = 400 /\ checks[2][1] = none /\ checks[2][2] = 404
    OBVIOUS
  <1>3. ASSUME ok, v # Absent PROVE Suits(req, result)
    <2>1. ReadBy(req) = {"param", "version"}
      <3>1. CASE req.path = "/posts/id/"
        BY <3>1 DEF ReadBy
      <3>2. CASE req.path = "/posts/hash/"
        BY <3>2 DEF ReadBy
      <3>3. QED
        BY <3>1, <3>2
    <2>2. IsFiniteSet(found) /\ \A p \in found : p.version = v
      BY StoredAssumption, FS_Subset
    <2>3. \A i \in DOMAIN list : list[i] \in found
      <3> HIDE DEF found
      <3>1. QED
        BY <2>2, RowsOfSet
    <2> HIDE DEF found, list
    <2>5. \A i \in DOMAIN list : RowFits(req, list[i])
      BY <1>3, <2>2, <2>3, OfItsVersion
    <2>6. req.version # Bad
      <3> DEFINE r == [version |-> v]
      <3>1. r.version = v
        OBVIOUS
      <3> HIDE DEF r
      <3>2. QED
        BY <1>3, <3>1, OfItsVersion
    <2>7. \A p \in ReadBy(req) : req[p] # Bad
      BY <1>3, <2>1, <2>6
    <2>8. Suits(req, Serve(list))
      BY <2>5, <2>7 DEF Suits, Serve
    <2>9. Suits(req, Status(404))
      BY <2>7, WithoutRows
    <2>10. QED
      BY <2>8, <2>9
  <1>4. refused = IF wrong THEN 400 ELSE IF none THEN 404 ELSE 0
    <2> HIDE DEF checks
    <2>1. DOMAIN checks = {1, 2, 3} /\ checks[3][1] = TRUE
      BY <1>2
    <2>2. refused = IF checks[1][1] THEN checks[1][2] ELSE IF checks[2][1] THEN checks[2][2] ELSE checks[3][2]
      BY <2>1, FirstOfThree
    <2> HIDE DEF wrong, none, refused
    <2>3. QED
      BY <1>2, <2>2
  <1>5. (refused = 0 => Suits(req, result)) /\ refused \in {0, 400, 404}
    <2> HIDE DEF refused, result
    <2>1. QED
      BY <1>3, <1>4
  <1> HIDE DEF refused, result
  <1>6. QED
    BY <1>1, <1>5, VersionSuits

LEMMA IndexerSuits ==
  ASSUME NEW req \in Requests, req.server = "indexer"
  PROVE  Suits(req, IndexerAnswer(req))
  <1> DEFINE item == req.path \in {"/posts/id/", "/posts/hash/", "/profile/"}
             a == req.method = "OPTIONS"
             b == req.method # "GET" \/ req.path \notin IndexerRoutes \/ (item /\ req.param = Absent)
             checks == << <<a, 204>>, <<b, 404>>, <<TRUE, 0>> >>
             refused == FirstOf(checks)
  <1>0. /\ DOMAIN checks = {1, 2, 3} /\ checks[3][1] = TRUE /\ checks[3][2] = 0
        /\ checks[1][1] = a /\ checks[2][1] = b /\ checks[1][2] = 204 /\ checks[2][2] = 404
    OBVIOUS
  <1> HIDE DEF checks
  <1>1. refused = IF a THEN 204 ELSE IF b THEN 404 ELSE 0
    <2>1. DOMAIN checks = {1, 2, 3} /\ checks[3][1] = TRUE
      BY <1>0
    <2>2. refused = IF checks[1][1] THEN checks[1][2] ELSE IF checks[2][1] THEN checks[2][2] ELSE checks[3][2]
      BY <2>1, FirstOfThree
    <2> HIDE DEF a, b, refused
    <2>3. QED
      BY <1>0, <2>2
  <1> HIDE DEF refused
  <1>2. IndexerAnswer(req) =
            CASE refused # 0 -> Status(refused)
              [] refused = 0 /\ req.path = "/posts" -> PostsAnswer(req)
              [] refused = 0 /\ req.path \in {"/posts/id/", "/posts/hash/"} -> PostAnswer(req)
              [] refused = 0 /\ req.path = "/replies" -> RepliesAnswer(req)
              [] refused = 0 /\ req.path = "/profile/" -> ProfileAnswer(req)
              [] refused = 0 /\ req.path \in {"/health", "/versions"} -> Status(200)
    BY DEF IndexerAnswer, refused, checks
  <1>3. CASE refused # 0
    <2>1. IndexerAnswer(req) = Status(refused)
      BY <1>2, <1>3
    <2>2. refused \in {204, 404}
      BY <1>1, <1>3
    <2>3. QED
      BY <2>1, <2>2, WithoutRows
  <1>4. CASE refused = 0
    <2>1. req.path \in {"/posts", "/posts/id/", "/posts/hash/", "/replies", "/profile/", "/health", "/versions"}
      BY <1>1, <1>4 DEF IndexerRoutes
    <2>2. CASE req.path = "/posts"
      <3>1. IndexerAnswer(req) = PostsAnswer(req)
        BY <1>2, <1>4, <2>2
      <3>2. QED
        BY <2>2, <3>1, PostsSuits
    <2>3. CASE req.path \in {"/posts/id/", "/posts/hash/"}
      <3>1. IndexerAnswer(req) = PostAnswer(req)
        BY <1>2, <1>4, <2>3
      <3>2. QED
        BY <2>3, <3>1, PostSuits
    <2>4. CASE req.path = "/replies"
      <3>1. IndexerAnswer(req) = RepliesAnswer(req)
        BY <1>2, <1>4, <2>4
      <3>2. QED
        BY <2>4, <3>1, RepliesSuits
    <2>5. CASE req.path = "/profile/"
      <3>1. IndexerAnswer(req) = ProfileAnswer(req)
        BY <1>2, <1>4, <2>5
      <3>2. QED
        BY <2>5, <3>1, ProfileSuits
    <2>6. CASE req.path \in {"/health", "/versions"}
      <3>1. IndexerAnswer(req) = Status(200)
        BY <1>2, <1>4, <2>6
      <3>2. ReadBy(req) = {}
        <4>1. CASE req.path = "/health"
          BY <4>1 DEF ReadBy
        <4>2. CASE req.path = "/versions"
          BY <4>2 DEF ReadBy
        <4>3. QED
          BY <2>6, <4>1, <4>2
      <3>3. QED
        BY <3>1, <3>2, WithoutRows
    <2>7. QED
      BY <2>1, <2>2, <2>3, <2>4, <2>5, <2>6
  <1>5. QED
    BY <1>3, <1>4

-----------------------------------------------------------------------------
LEMMA ProofsSuit ==
  ASSUME NEW req \in Requests, req.server = "coprocessor", req.path \in {"/proof", "/validation/latest"},
         NEW rows \in {Stored.proofs, Stored.validations}
  PROVE  Suits(req, ListProofs(req, rows))
  <1> DEFINE ok == CoprocessorLimitOK(req.limit) /\ req.cursor # Bad
             found == {r \in rows : req.cursor = Absent \/ Newest(req.cursor, r)}
             precedes == {p \in found \X found : Newest(p[1], p[2])}
             place == [r \in found |-> <<r.at, r.hash>>]
             sorted == Arranged(SetToSeq(found), precedes)
             limit == PageSize(req.limit)
             list == IF limit = Absent \/ Len(sorted) < limit THEN sorted ELSE SubSeq(sorted, 1, limit)
  <1>1. ListProofs(req, rows) = IF ~ok THEN Status(400) ELSE Serve(list)
    BY DEF ListProofs, ProofPageOf, Query
  <1>2. CASE ~ok
    BY <1>1, <1>2, WithoutRows
  <1>3. CASE ok
    <2>1. limit \in 1 .. 200 /\ req.limit # Bad /\ (req.limit \in Nat => limit = req.limit)
      BY <1>3, NullIsNoNumber DEF CoprocessorLimitOK, PageSize
    <2>2. ReadBy(req) = {"limit", "cursor"}
      <3>1. CASE req.path = "/proof"
        BY <3>1 DEF ReadBy
      <3>2. CASE req.path = "/validation/latest"
        BY <3>2 DEF ReadBy
      <3>3. QED
        BY <3>1, <3>2
    <2>3. \A p \in ReadBy(req) : req[p] # Bad
      BY <1>3, <2>1, <2>2
    <2>4. IsFiniteSet(found) /\ \A r \in found : r.at \in Nat /\ r.hash \in Nat
      <3>1. IsFiniteSet(rows) /\ \A r \in rows : r.at \in Nat /\ r.hash \in Nat
        BY StoredAssumption
      <3>2. QED
        BY <3>1, FS_Subset
    <2>5. \A x, y \in found : <<x, y>> \in precedes <=> LexLess(place[y], place[x])
      BY DEF Newest
    <2> HIDE DEF found, limit
    <2>6. place \in [found -> [1 .. 2 -> Int]]
      BY <2>4
    <2> HIDE DEF place, precedes
    <2>7. Compares(precedes, found)
      BY <2>5, <2>6, PlacesCompareBack
    <2>8. limit \in Nat \cup {Absent} /\ limit # 0 /\ limit \in Nat
      BY <2>1
    <2>9. Len(list) <= limit
      BY <2>4, <2>7, <2>8, LimitedRows
    <2> HIDE DEF list
    <2>10. req.limit \in Nat => Len(list) <= req.limit
      BY <2>1, <2>9
    <2>11. \A i \in DOMAIN list : RowFits(req, list[i])
      BY DEF RowFits
    <2>12. QED
      BY <1>1, <1>3, <2>3, <2>10, <2>11, RowsGiven
  <1>4. QED
    BY <1>2, <1>3

LEMMA CoprocessorSuits ==
  ASSUME NEW req \in Requests, req.server = "coprocessor"
  PROVE  Suits(req, CoprocessorAnswer(req))
  <1> DEFINE a == req.path \notin CoprocessorRoutes
             b == req.method # "GET"
             checks == << <<a, 404>>, <<b, 405>>, <<TRUE, 0>> >>
             refused == FirstOf(checks)
  <1>0. /\ DOMAIN checks = {1, 2, 3} /\ checks[3][1] = TRUE /\ checks[3][2] = 0
        /\ checks[1][1] = a /\ checks[2][1] = b /\ checks[1][2] = 404 /\ checks[2][2] = 405
    OBVIOUS
  <1> HIDE DEF checks
  <1>1. refused = IF a THEN 404 ELSE IF b THEN 405 ELSE 0
    <2>1. DOMAIN checks = {1, 2, 3} /\ checks[3][1] = TRUE
      BY <1>0
    <2>2. refused = IF checks[1][1] THEN checks[1][2] ELSE IF checks[2][1] THEN checks[2][2] ELSE checks[3][2]
      BY <2>1, FirstOfThree
    <2> HIDE DEF a, b, refused
    <2>3. QED
      BY <1>0, <2>2
  <1> HIDE DEF refused
  <1>2. CoprocessorAnswer(req) =
            CASE refused # 0 -> Status(refused)
              [] refused = 0 /\ req.path = "/validation/latest" -> ListValidations(req, Stored.validations)
              [] refused = 0 /\ req.path = "/proof" -> ListProofs(req, Stored.proofs)
              [] refused = 0 /\ req.path = "/proof/" -> ProofByHash(req, Stored.proofs)
              [] refused = 0 /\ req.path = "/proof/by-blob/" -> ProofsByBlob(req, Stored.proofs)
              [] refused = 0 /\ req.path = "/proof/vk" -> VerifyingKey(Stored.proofs)
              [] refused = 0 /\ req.path = "/health" -> Status(200)
    BY DEF CoprocessorAnswer, refused, checks
  <1>3. CASE refused # 0
    <2>1. CoprocessorAnswer(req) = Status(refused)
      BY <1>2, <1>3
    <2>2. refused \in {404, 405}
      BY <1>1, <1>3
    <2>3. QED
      BY <2>1, <2>2, WithoutRows
  <1>4. CASE refused = 0
    <2>1. req.path \in {"/validation/latest", "/proof", "/proof/", "/proof/by-blob/", "/proof/vk", "/health"}
      BY <1>1, <1>4 DEF CoprocessorRoutes
    <2>2. CASE req.path = "/validation/latest"
      <3> DEFINE none == CoprocessorLimitOK(req.limit) /\ req.cursor = Absent /\ Stored.validations = {}
      <3>1. CoprocessorAnswer(req) = IF none THEN Status(503) ELSE ListProofs(req, Stored.validations)
        BY <1>2, <1>4, <2>2 DEF ListValidations
      <3>2. ReadBy(req) = {"limit", "cursor"}
        BY <2>2 DEF ReadBy
      <3>3. none => \A p \in ReadBy(req) : req[p] # Bad
        BY <3>2, ReadApiAssumption DEF CoprocessorLimitOK
      <3>4. CASE none
        BY <3>1, <3>3, <3>4, WithoutRows
      <3>5. CASE ~none
        BY <2>2, <3>1, <3>5, ProofsSuit
      <3>6. QED
        BY <3>4, <3>5
    <2>3. CASE req.path = "/proof"
      <3>1. CoprocessorAnswer(req) = ListProofs(req, Stored.proofs)
        BY <1>2, <1>4, <2>3
      <3>2. QED
        BY <2>3, <3>1, ProofsSuit
    <2>4. CASE req.path = "/proof/"
      <3> DEFINE found == {r \in Stored.proofs : r.hash = req.param}
                 code == IF req.param = Bad THEN 400 ELSE IF found = {} THEN 404 ELSE 200
      <3>1. CoprocessorAnswer(req) = Status(code)
        BY <1>2, <1>4, <2>4 DEF ProofByHash
      <3>2. ReadBy(req) = {"param"}
        BY <2>4 DEF ReadBy
      <3>3. code = 400 \/ \A p \in ReadBy(req) : req[p] # Bad
        BY <3>2
      <3> HIDE DEF code
      <3>4. QED
        BY <3>1, <3>3, WithoutRows
    <2>5. CASE req.path = "/proof/by-blob/"
      <3> DEFINE list == SetToSeq({r \in Stored.proofs : r.blob = req.param})
      <3>1. CoprocessorAnswer(req) = IF req.param = Bad THEN Status(400) ELSE Serve(list)
        BY <1>2, <1>4, <2>5 DEF ProofsByBlob
      <3>2. ReadBy(req) = {"param"}
        BY <2>5 DEF ReadBy
      <3> HIDE DEF list
      <3>3. CASE req.param = Bad
        BY <3>1, <3>3, WithoutRows
      <3>4. CASE req.param # Bad
        BY <2>5, <3>1, <3>2, <3>4 DEF Suits, RowFits, Serve
      <3>5. QED
        BY <3>3, <3>4
    <2>6. CASE req.path \in {"/proof/vk", "/health"}
      <3>1. ReadBy(req) = {}
        <4>1. CASE req.path = "/proof/vk"
          BY <4>1 DEF ReadBy
        <4>2. CASE req.path = "/health"
          BY <4>2 DEF ReadBy
        <4>3. QED
          BY <2>6, <4>1, <4>2
      <3>2. QED
        BY <2>6, <3>1, NothingAsked
    <2>7. QED
      BY <2>1, <2>2, <2>3, <2>4, <2>5, <2>6
  <1>5. QED
    BY <1>3, <1>4

LEMMA EveryAnswerSuits == \A req \in Requests : Suits(req, AnswerOf(req))
  <1> SUFFICES ASSUME NEW req \in Requests PROVE Suits(req, AnswerOf(req))
    OBVIOUS
  <1>1. req.server \in {"poster", "reader", "indexer", "coprocessor"}
    BY RequestsAssumption
  <1>2. CASE req.server = "poster"
    BY <1>2, PosterSuits DEF AnswerOf
  <1>3. CASE req.server = "reader"
    BY <1>3, ReaderSuits DEF AnswerOf
  <1>4. CASE req.server = "indexer"
    BY <1>4, IndexerSuits DEF AnswerOf
  <1>5. CASE req.server = "coprocessor"
    BY <1>5, CoprocessorSuits DEF AnswerOf
  <1>6. QED
    BY <1>1, <1>2, <1>3, <1>4, <1>5

Answered == asked # Absent => asked \in Requests /\ answer = AnswerOf(asked)

\* Whatever is stored and asked, a malformed parameter is the client's error, and the rows are of the
\* tag, status, sender or generation that was asked for and no more than that (the handlers of the
\* four servers).
THEOREM RequestsAreAnswered == ReadApiSpec => []AnsweredAsAsked
  <1>1. ReadApiInit => Answered
    BY DEF ReadApiInit, Answered
  <1>2. Answered /\ [AskNext \/ PagingNext]_apiVars => Answered'
    <2> SUFFICES ASSUME Answered, [AskNext \/ PagingNext]_apiVars PROVE Answered'
      OBVIOUS
    <2>1. CASE AskNext
      BY <2>1 DEF AskNext, Ask, Answered
    <2>2. CASE PagingNext
      <3>1. UNCHANGED <<asked, answer>>
        BY <2>2 DEF PagingNext, InsertProof, FetchPage, requestVars
      <3>2. QED
        BY <3>1 DEF Answered
    <2>3. CASE UNCHANGED apiVars
      BY <2>3 DEF apiVars, requestVars, Answered
    <2>4. QED
      BY <2>1, <2>2, <2>3
  <1>3. Answered => AnsweredAsAsked
    <2> SUFFICES ASSUME Answered, asked # Absent PROVE AnsweredAsAsked
      BY DEF AnsweredAsAsked
    <2>1. Suits(asked, answer)
      BY EveryAnswerSuits DEF Answered
    <2>2. QED
      BY <2>1 DEF Suits, RowFits, AnsweredAsAsked
  <1>4. QED
    BY <1>1, <1>2, <1>3, PTL DEF ReadApiSpec

-----------------------------------------------------------------------------
(* The pages of the applications *)

\* A filter keeps some rows.
LEMMA FilteredRows ==
  ASSUME NEW S, NEW rows \in Seq(S), NEW kept \in SUBSET DOMAIN rows
  PROVE  [n \in 1 .. Cardinality(kept) |-> rows[CHOOSE i \in kept : Cardinality({j \in kept : j < i}) = n - 1]]
            \in Seq({rows[i] : i \in kept})
  <1> DEFINE order == {p \in kept \X kept : p[1] < p[2]}
             n == Cardinality(kept)
             at == ByRank(kept, order)
             list == [m \in 1 .. n |-> rows[CHOOSE i \in kept : Cardinality({j \in kept : j < i}) = m - 1]]
             some == {rows[i] : i \in kept}
  <1>1. IsFiniteSet(kept) /\ kept \subseteq Int
    <2>1. DOMAIN rows = 1 .. Len(rows) /\ Len(rows) \in Nat
      OBVIOUS
    <2>2. IsFiniteSet(1 .. Len(rows))
      BY <2>1, FS_Interval
    <2>3. QED
      BY <2>1, <2>2, FS_Subset
  <1>2. \A i, j \in kept : <<j, i>> \in order <=> j < i
    OBVIOUS
  <1>3. Orders(order, kept)
    <2> HIDE DEF order
    <2>1. QED
      BY <1>1, <1>2 DEF Orders
  <1>4. n \in Nat /\ at \in [1 .. n -> kept]
    <2> HIDE DEF order
    <2>1. QED
      BY <1>1, <1>3, RankedRows
  <1>5. \A m \in 1 .. n : at[m] = CHOOSE i \in kept : Cardinality({j \in kept : j < i}) = m - 1
    <2>1. \A i \in kept : {j \in kept : <<j, i>> \in order} = {j \in kept : j < i}
      BY <1>2
    <2>2. at = [m \in 1 .. n |-> CHOOSE i \in kept : Cardinality({j \in kept : <<j, i>> \in order}) = m - 1]
      BY DEF ByRank
    <2> DEFINE ranks(i, m) == Cardinality({j \in kept : <<j, i>> \in order}) = m - 1
               places(i, m) == Cardinality({j \in kept : j < i}) = m - 1
    <2>3. \A i \in kept, m \in 1 .. n : ranks(i, m) <=> places(i, m)
      BY <2>1
    <2>4. \A m \in 1 .. n : at[m] = CHOOSE i \in kept : ranks(i, m)
      BY <2>2
    <2> HIDE DEF ranks, places, at
    <2>5. \A m \in 1 .. n : (CHOOSE i \in kept : ranks(i, m)) = CHOOSE i \in kept : places(i, m)
      BY <2>3
    <2>6. \A m \in 1 .. n : at[m] = CHOOSE i \in kept : places(i, m)
      BY <2>4, <2>5
    <2>7. QED
      BY <2>6 DEF places
  <1> HIDE DEF at, n
  <1>6. list = [m \in 1 .. n |-> rows[at[m]]]
    <2> DEFINE chosen(m) == CHOOSE i \in kept : Cardinality({j \in kept : j < i}) = m - 1
    <2>1. list = [m \in 1 .. n |-> rows[chosen(m)]] /\ \A m \in 1 .. n : at[m] = chosen(m)
      BY <1>5
    <2> HIDE DEF chosen, list
    <2>2. QED
      BY <2>1
  <1> HIDE DEF list
  <1>7. \A m \in 1 .. n : rows[at[m]] \in some
    BY <1>4
  <1> HIDE DEF some
  <1>8. list \in [1 .. n -> some]
    BY <1>6, <1>7
  <1>9. list \in Seq(some)
    BY <1>4, <1>8
  <1>10. QED
    BY <1>9 DEF list, some, n

LEMMA SortedKept ==
  ASSUME NEW S, NEW rows \in Seq(S), NEW precedes, Compares(precedes, Range(rows))
  PROVE  Arranged(rows, precedes) \in Seq(S)
  <1> DEFINE n == Len(rows)
  <1>1. n \in Nat /\ DOMAIN rows = 1 .. n /\ \A i \in 1 .. n : rows[i] \in S
    OBVIOUS
  <1> HIDE DEF n
  <1>2. PICK at \in [1 .. n -> 1 .. n] : Arranged(rows, precedes) = [i \in 1 .. n |-> rows[at[i]]]
    BY <1>1, ArrangedRows, SMTT(30)
  <1>3. Arranged(rows, precedes) \in [1 .. n -> S]
    BY <1>1, <1>2
  <1>4. QED
    BY <1>1, <1>3

\* Rows can be compared by a number each has.
LEMMA NumbersCompare ==
  ASSUME NEW S, NEW number \in [S -> Int], NEW precedes,
         \A x, y \in S : <<x, y>> \in precedes <=> number[x] < number[y]
  PROVE  Compares(precedes, S)
  <1>1. \A x \in S : number[x] \in Int
    OBVIOUS
  <1>2. QED
    BY <1>1 DEF Compares

LEMMA NumbersCompareBack ==
  ASSUME NEW S, NEW number \in [S -> Int], NEW precedes,
         \A x, y \in S : <<x, y>> \in precedes <=> number[x] > number[y]
  PROVE  Compares(precedes, S)
  <1>1. \A x \in S : number[x] \in Int
    OBVIOUS
  <1>2. QED
    BY <1>1 DEF Compares

-----------------------------------------------------------------------------
Replied(v) == {v.says[p[2]] : p \in {q \in AskedBy(v) : q[1] \notin v.unset}}
RowsTold(v) == UNION {Range(r.body) : r \in {s \in Replied(v) \ {Down} : s.body \notin {Bare, Garbled}}}

LEMMA AskedReplies ==
  ASSUME NEW v \in Visits, NEW service, NEW path, <<service, path>> \in AskedBy(v), service \notin v.unset
  PROVE  v.says[path] \in Replied(v)
  <1> DEFINE asks == <<service, path>>
  <1>1. asks[1] = service /\ asks[2] = path /\ asks \in AskedBy(v)
    OBVIOUS
  <1> HIDE DEF asks
  <1>2. QED
    BY <1>1 DEF Replied

LEMMA RowsReplied ==
  ASSUME NEW v \in Visits, NEW reply \in Replied(v) \ {Down}
  PROVE  /\ reply.status \in Nat
         /\ reply.body \notin {Bare, Garbled} => reply.body \in Seq(RowsTold(v))
         /\ reply.body # Garbled => RowsOf(reply.body) \in Seq(RowsTold(v))
  <1>1. PICK asks \in AskedBy(v) : reply = v.says[asks[2]]
    BY DEF Replied
  <1>2. reply.status \in Nat /\ (reply.body \notin {Bare, Garbled} => reply.body \in Seq(Range(reply.body)))
    BY <1>1, VisitsAssumption
  <1>3. ASSUME reply.body \notin {Bare, Garbled} PROVE reply.body \in Seq(RowsTold(v))
    <2> DEFINE body == reply.body
               R == Range(body)
               T == RowsTold(v)
    <2>1. R \subseteq T
      BY <1>3 DEF RowsTold
    <2>2. body \in Seq(R)
      BY <1>2, <1>3
    <2> HIDE DEF R, T, body
    <2>3. body \in Seq(T)
      <3>1. Len(body) \in Nat /\ body \in [1 .. Len(body) -> R]
        BY <2>2
      <3>2. body \in [1 .. Len(body) -> T]
        BY <2>1, <3>1
      <3>3. QED
        BY <3>1, <3>2
    <2>4. QED
      BY <2>3 DEF T, body
  <1>4. <<>> \in Seq(RowsTold(v))
    OBVIOUS
  <1>5. QED
    BY <1>2, <1>3, <1>4 DEF RowsOf

LEMMA RowsHaveNumbers ==
  ASSUME NEW v \in Visits, NEW r \in RowsTold(v)
  PROVE  "author" \in DOMAIN r /\ r.block \in Nat /\ r.index \in Nat /\ r.time \in Nat
  <1>1. PICK reply \in Replied(v) \ {Down} : reply.body \notin {Bare, Garbled} /\ r \in Range(reply.body)
    BY DEF RowsTold
  <1>2. PICK asks \in AskedBy(v) : reply = v.says[asks[2]]
    BY DEF Replied
  <1>3. "author" \in DOMAIN r /\ {r.block, r.index, r.time} \subseteq Nat
    BY <1>1, <1>2, VisitsAssumption
  <1>4. QED
    BY <1>3

-----------------------------------------------------------------------------
\* What PagesAreHonest says of any page.
PageIsTold(v, given) ==
    /\ given.status = 200 => \E r \in Replied(v) \ {Down} : r.status = 200
    /\ given.error # "none" => given.rows = <<>>
    /\ \A i \in DOMAIN given.rows :
          IF v.route = "/blobbles/" THEN \E r \in RowsTold(v) : r.author = given.rows[i].author
          ELSE given.rows[i] \in RowsTold(v)
    /\ given.status = 502 /\ given.error # "none" =>
          Down \in Replied(v) \/ \E r \in Replied(v) \ {Down} : r.status # 200 \/ r.body = Bare
    /\ given.status = 404 => Replied(v) \ {Down} # {}

LEMMA NoneShown == \A i : i \notin DOMAIN <<>>
  <1> DEFINE none == <<>>
  <1>1. none \in [{} -> {}]
    OBVIOUS
  <1> HIDE DEF none
  <1>2. DOMAIN none = {}
    BY <1>1
  <1>3. QED
    BY <1>2 DEF none

LEMMA ErrorTold ==
  ASSUME NEW v, NEW code, NEW error, code # 200,
         code = 502 => Down \in Replied(v) \/ \E r \in Replied(v) \ {Down} : r.status # 200 \/ r.body = Bare,
         code = 404 => Replied(v) \ {Down} # {}
  PROVE  PageIsTold(v, RouteError(code, error))
  <1> DEFINE given == RouteError(code, error)
  <1>1. given.status = code /\ given.rows = <<>>
    BY DEF RouteError
  <1> HIDE DEF given
  <1>2. \A i : i \notin DOMAIN given.rows
    BY <1>1, NoneShown
  <1>3. QED
    BY <1>1, <1>2 DEF PageIsTold, given

LEMMA ListTold ==
  ASSUME NEW v, NEW rows, \E r \in Replied(v) \ {Down} : r.status = 200,
         \A i \in DOMAIN rows : IF v.route = "/blobbles/" THEN \E r \in RowsTold(v) : r.author = rows[i].author
                                ELSE rows[i] \in RowsTold(v)
  PROVE  PageIsTold(v, Page(rows))
  <1> DEFINE given == Page(rows)
  <1>1. given.status = 200 /\ given.rows = rows /\ given.error = "none"
    BY DEF Page
  <1> HIDE DEF given
  <1>2. QED
    BY <1>1 DEF PageIsTold, given

LEMMA PageTold ==
  ASSUME NEW v, NEW rows \in Seq(RowsTold(v)), \E r \in Replied(v) \ {Down} : r.status = 200
  PROVE  PageIsTold(v, Page(rows))
  <1>1. \A i \in DOMAIN rows : rows[i] \in RowsTold(v)
    OBVIOUS
  <1>2. QED
    BY <1>1, ListTold

LEMMA ForwardTold ==
  ASSUME NEW v \in Visits, NEW reply \in Replied(v) \ {Down}
  PROVE  PageIsTold(v, Forward(reply)) /\ Forward(reply).status = reply.status
  <1> DEFINE rows == IF reply.body \in {Bare, Garbled} THEN <<>> ELSE reply.body
             given == Forward(reply)
  <1>1. given.status = reply.status /\ given.rows = rows /\ given.error = "none"
    BY DEF Forward, Page
  <1>2. rows \in Seq(RowsTold(v))
    <2>1. <<>> \in Seq(RowsTold(v))
      OBVIOUS
    <2>2. QED
      BY <2>1, RowsReplied
  <1> HIDE DEF rows, given
  <1>3. \A i \in DOMAIN rows : rows[i] \in RowsTold(v)
    BY <1>2
  <1>4. QED
    BY <1>1, <1>3 DEF PageIsTold, given

\* What most routes do with a reply.
LEMMA RenderedTold ==
  ASSUME NEW v \in Visits, NEW reply \in Replied(v) \ {Down}, NEW shown,
         reply.status = 200 /\ reply.body # Garbled => shown \in Seq(RowsTold(v))
  PROVE  PageIsTold(v, CASE reply.status # 200 -> Forward(reply)
                   [] reply.status = 200 /\ reply.body = Garbled -> Crash
                   [] OTHER -> Page(shown))
  <1>1. PageIsTold(v, Forward(reply))
    BY ForwardTold
  <1>2. PageIsTold(v, Crash)
    BY ErrorTold DEF Crash
  <1>3. ASSUME reply.status = 200, reply.body # Garbled PROVE PageIsTold(v, Page(shown))
    BY <1>3, PageTold
  <1>4. CASE reply.status # 200
    BY <1>1, <1>4
  <1>5. CASE reply.status = 200 /\ reply.body = Garbled
    BY <1>2, <1>5
  <1>6. CASE reply.status = 200 /\ reply.body # Garbled
    BY <1>3, <1>6
  <1>7. QED
    BY <1>4, <1>5, <1>6

-----------------------------------------------------------------------------
\* A service that is not configured, or does not reply.
LEMMA ThroughTold ==
  ASSUME NEW v \in Visits, NEW service, NEW path, <<service, path>> \in AskedBy(v), NEW handled,
         service \notin v.unset /\ v.says[path] # Down => PageIsTold(v, handled)
  PROVE  PageIsTold(v, CASE service \in v.unset -> RouteError(500, "url_not_configured")
                   [] Unreachable(v, service, path) -> RouteError(502, "unreachable")
                   [] OTHER -> handled)
  <1>1. CASE service \in v.unset
    <2>1. PageIsTold(v, RouteError(500, "url_not_configured"))
      BY ErrorTold
    <2>2. ~Unreachable(v, service, path)
      BY <1>1 DEF Unreachable
    <2>3. QED
      BY <1>1, <2>1, <2>2
  <1>2. CASE Unreachable(v, service, path)
    <2>1. service \notin v.unset /\ Down \in Replied(v)
      BY <1>2, AskedReplies DEF Unreachable
    <2>2. PageIsTold(v, RouteError(502, "unreachable"))
      BY <2>1, ErrorTold
    <2>3. QED
      BY <1>2, <2>1, <2>2
  <1>3. CASE service \notin v.unset /\ ~Unreachable(v, service, path)
    BY <1>3 DEF Unreachable
  <1>4. QED
    BY <1>1, <1>2, <1>3

LEMMA SentTold ==
  ASSUME NEW v, NEW given, PageIsTold(v, given), {"status", "error", "rows"} \subseteq DOMAIN given, NEW sent
  PROVE  PageIsTold(v, [given EXCEPT !.sent = sent])
  <1> DEFINE told == [given EXCEPT !.sent = sent]
  <1>1. told.status = given.status /\ told.error = given.error /\ told.rows = given.rows
    OBVIOUS
  <1> HIDE DEF told
  <1>2. QED
    BY <1>1 DEF PageIsTold, told

LEMMA ForwardThrough ==
  ASSUME NEW v \in Visits, NEW service, NEW path, <<service, path>> \in AskedBy(v)
  PROVE  LET given == Through(v, service, path, Forward)
         IN  PageIsTold(v, given) /\ {"status", "error", "rows", "sent"} \subseteq DOMAIN given
  <1> DEFINE reply == v.says[path]
             given == Through(v, service, path, Forward)
  <1>1. given = CASE service \in v.unset -> RouteError(500, "url_not_configured")
                  [] Unreachable(v, service, path) -> RouteError(502, "unreachable")
                  [] OTHER -> Forward(reply)
    BY DEF Through
  <1>2. service \notin v.unset /\ reply # Down => PageIsTold(v, Forward(reply))
    BY AskedReplies, ForwardTold
  <1> HIDE DEF given, reply
  <1>3. PageIsTold(v, given)
    BY <1>1, <1>2, ThroughTold DEF reply
  <1>4. \A code, error : {"status", "error", "rows", "sent"} \subseteq DOMAIN RouteError(code, error)
    BY DEF RouteError
  <1>5. {"status", "error", "rows", "sent"} \subseteq DOMAIN Forward(reply)
    BY DEF Forward, Page
  <1>6. {"status", "error", "rows", "sent"} \subseteq DOMAIN given
    BY <1>1, <1>4, <1>5
  <1>7. QED
    BY <1>3, <1>6 DEF given

LEMMA PosterPages ==
  ASSUME NEW v \in Visits, v.route \in {"/pending", "/status", "/health", "/submitted-batches", "/flush"}
  PROVE  PageIsTold(v, PosterProxy(v, v.route))
  <1>1. <<"poster", v.route>> \in AskedBy(v)
    BY DEF AskedBy
  <1>2. QED
    BY <1>1, ForwardThrough, SentTold DEF PosterProxy

\* The forum and twitter send what was posted under their own tag.
LEMMA MessagePages ==
  ASSUME NEW v \in Visits, v.route = "/messages"
  PROVE  /\ PageIsTold(v, PostMessage(v))
         /\ v.app # "blobble" /\ PostMessage(v).sent # Absent => PostMessage(v).sent.tag = AppTag[v.app]
  <1> DEFINE refuses == v.body = Bad \/ (v.body = Bare /\ v.app # "blobble")
             through == Through(v, "poster", "/submit", Forward)
             given == [through EXCEPT !.sent = Envelope(v)]
  <1>1. PostMessage(v) = IF refuses THEN RouteError(400, "malformed") ELSE given
    BY DEF PostMessage
  <1>2. CASE refuses
    <2>1. PageIsTold(v, RouteError(400, "malformed")) /\ RouteError(400, "malformed").sent = Absent
      BY ErrorTold DEF RouteError
    <2>2. QED
      BY <1>1, <1>2, <2>1
  <1>3. CASE ~refuses
    <2>1. <<"poster", "/submit">> \in AskedBy(v)
      BY DEF AskedBy
    <2>2. PageIsTold(v, through) /\ {"status", "error", "rows", "sent"} \subseteq DOMAIN through
      BY <2>1, ForwardThrough
    <2> HIDE DEF through
    <2>3. PageIsTold(v, given) /\ given.sent = Envelope(v)
      BY <2>2, SentTold
    <2>4. v.app # "blobble" => Envelope(v).tag = AppTag[v.app]
      BY DEF Envelope
    <2> HIDE DEF given
    <2>5. QED
      BY <1>1, <1>3, <2>3, <2>4
  <1>4. QED
    BY <1>2, <1>3

LEMMA NoncePages ==
  ASSUME NEW v \in Visits, v.route = "/next-nonce"
  PROVE  PageIsTold(v, NonceRoute(v))
  <1> DEFINE reply == v.says["/nonce/"]
             nonce == CASE reply.status # 200 -> RouteError(502, "nonce_lookup_failed")
                        [] reply.status = 200 /\ reply.body = Garbled -> Crash
                        [] reply.status = 200 /\ reply.body = Bare -> RouteError(502, "nonce_lookup_failed")
                        [] OTHER -> Page(reply.body)
             through == CASE "poster" \in v.unset -> RouteError(500, "url_not_configured")
                          [] Unreachable(v, "poster", "/nonce/") -> RouteError(502, "unreachable")
                          [] OTHER -> nonce
  <1>1. NonceRoute(v) = IF v.param = Bad THEN RouteError(400, "invalid_sender") ELSE through
    BY DEF NonceRoute, Through
  <1>2. <<"poster", "/nonce/">> \in AskedBy(v)
    BY DEF AskedBy
  <1>3. ASSUME "poster" \notin v.unset, reply # Down PROVE PageIsTold(v, nonce)
    <2>1. reply \in Replied(v) \ {Down}
      BY <1>2, <1>3, AskedReplies
    <2> HIDE DEF reply
    <2>2. CASE reply.status # 200
      <3>1. PageIsTold(v, RouteError(502, "nonce_lookup_failed"))
        BY <2>1, <2>2, ErrorTold
      <3>2. QED
        BY <2>2, <3>1
    <2>3. CASE reply.status = 200 /\ reply.body = Garbled /\ reply.body # Bare
      <3>1. PageIsTold(v, Crash)
        BY ErrorTold DEF Crash
      <3>2. QED
        BY <2>3, <3>1
    <2>4. CASE reply.status = 200 /\ reply.body = Bare /\ reply.body # Garbled
      <3>1. PageIsTold(v, RouteError(502, "nonce_lookup_failed"))
        BY <2>1, <2>4, ErrorTold
      <3>2. QED
        BY <2>4, <3>1
    <2>5. CASE reply.status = 200 /\ reply.body \notin {Bare, Garbled}
      <3>1. PageIsTold(v, Page(reply.body))
        BY <2>1, <2>5, RowsReplied, PageTold
      <3>2. QED
        BY <2>5, <3>1
    <2>6. CASE reply.status = 200 /\ reply.body = Bare /\ reply.body = Garbled
      <3>1. PageIsTold(v, RouteError(502, "nonce_lookup_failed")) /\ PageIsTold(v, Crash)
        BY <2>1, <2>6, ErrorTold DEF Crash
      <3>2. QED
        BY <2>6, <3>1
    <2>7. QED
      BY <2>2, <2>3, <2>4, <2>5, <2>6
  <1> HIDE DEF nonce
  <1>4. PageIsTold(v, through)
    BY <1>2, <1>3, ThroughTold
  <1>5. PageIsTold(v, RouteError(400, "invalid_sender"))
    BY ErrorTold
  <1> HIDE DEF through
  <1>6. QED
    BY <1>1, <1>4, <1>5

-----------------------------------------------------------------------------
LEMMA BatchedRows ==
  ASSUME NEW S, NEW rows \in Seq(S)
  PROVE  Batched(rows) \in Seq(S)
  <1> DEFINE kept == {i \in DOMAIN rows : rows[i].batchRef # Absent}
             some == {rows[i] : i \in kept}
  <1>1. Batched(rows) = [n \in 1 .. Cardinality(kept) |-> rows[CHOOSE i \in kept : Cardinality({j \in kept : j < i}) = n - 1]]
    BY DEF Batched, Filtered
  <1>2. kept \in SUBSET DOMAIN rows /\ some \subseteq S
    OBVIOUS
  <1> HIDE DEF kept
  <1>3. Batched(rows) \in Seq(some)
    BY <1>1, <1>2, FilteredRows, ZenonT(60)
  <1> HIDE DEF some
  <1>4. QED
    BY <1>2, <1>3

LEMMA ConfirmedPages ==
  ASSUME NEW v \in Visits, <<"reader", "/messages">> \in AskedBy(v)
  PROVE  /\ PageIsTold(v, ConfirmedFromReader(v))
         /\ "reader" \notin v.unset /\ v.says["/messages"] # Down /\ v.says["/messages"].status = 200
              /\ v.says["/messages"].body # Garbled => ConfirmedFromReader(v).status = 200
  <1> DEFINE reply == v.says["/messages"]
             shown == Batched(RowsOf(reply.body))
             rendered == CASE reply.status # 200 -> Forward(reply)
                           [] reply.status = 200 /\ reply.body = Garbled -> Crash
                           [] OTHER -> Page(shown)
             through == CASE "reader" \in v.unset -> RouteError(500, "url_not_configured")
                          [] Unreachable(v, "reader", "/messages") -> RouteError(502, "unreachable")
                          [] OTHER -> rendered
  <1>1. ConfirmedFromReader(v) = through
    BY DEF ConfirmedFromReader, Through, Rendered
  <1>2. ASSUME "reader" \notin v.unset, reply # Down PROVE PageIsTold(v, rendered)
    <2>1. reply \in Replied(v) \ {Down}
      BY <1>2, AskedReplies
    <2> HIDE DEF reply
    <2>2. reply.body # Garbled => shown \in Seq(RowsTold(v))
      BY <2>1, RowsReplied, BatchedRows
    <2> HIDE DEF shown
    <2>3. QED
      BY <2>1, <2>2, RenderedTold
  <1>3. ASSUME "reader" \notin v.unset, reply # Down, reply.status = 200, reply.body # Garbled
        PROVE  through.status = 200
    <2>1. through = Page(shown)
      BY <1>3 DEF Unreachable
    <2> HIDE DEF through
    <2>2. QED
      BY <2>1 DEF Page
  <1> HIDE DEF rendered
  <1>4. PageIsTold(v, through)
    BY <1>2, ThroughTold
  <1> HIDE DEF through
  <1>5. QED
    BY <1>1, <1>3, <1>4

LEMMA TwitterPages ==
  ASSUME NEW v \in Visits, v.route = "/confirmed-messages", v.app = "twitter"
  PROVE  /\ PageIsTold(v, TwitterConfirmed(v))
         /\ "reader" \notin v.unset /\ v.says["/messages"] # Down /\ v.says["/messages"].status = 200
              /\ v.says["/messages"].body # Garbled =>
              \/ TwitterConfirmed(v).status = 200
              \/ "indexer" \notin v.unset /\ v.says["/posts"] # Down /\ v.says["/posts"].body = Garbled
  <1> DEFINE reply == v.says["/posts"]
             shown == RowsOf(reply.body)
             rendered == CASE reply.status # 200 -> Forward(reply)
                           [] reply.status = 200 /\ reply.body = Garbled -> Crash
                           [] OTHER -> Page(shown)
  <1>0. <<"indexer", "/posts">> \in AskedBy(v) /\ <<"reader", "/messages">> \in AskedBy(v)
    BY DEF AskedBy
  <1>1. TwitterConfirmed(v) =
          IF "indexer" \in v.unset \/ reply = Down THEN ConfirmedFromReader(v)
          ELSE IF reply.status # 200 THEN ConfirmedFromReader(v) ELSE rendered
    BY DEF TwitterConfirmed, IndexerSilent, Rendered
  <1>2. CASE "indexer" \in v.unset \/ reply = Down
    BY <1>0, <1>1, <1>2, ConfirmedPages
  <1>3. CASE "indexer" \notin v.unset /\ reply # Down
    <2>1. reply \in Replied(v) \ {Down}
      BY <1>0, <1>3, AskedReplies
    <2>2. CASE reply.status # 200
      BY <1>0, <1>1, <1>3, <2>2, ConfirmedPages
    <2>3. CASE reply.status = 200
      <3>1. TwitterConfirmed(v) = rendered
        BY <1>1, <1>3, <2>3
      <3>2. reply.body # Garbled => rendered.status = 200
        <4>1. reply.body # Garbled => rendered = Page(shown)
          BY <2>3
        <4> HIDE DEF rendered
        <4>2. QED
          BY <4>1 DEF Page
      <3>3. PageIsTold(v, rendered)
        <4> HIDE DEF reply
        <4>1. reply.body # Garbled => shown \in Seq(RowsTold(v))
          BY <2>1, RowsReplied
        <4> HIDE DEF shown
        <4>2. QED
          BY <2>1, <4>1, RenderedTold
      <3> HIDE DEF rendered
      <3>4. QED
        BY <1>3, <3>1, <3>2, <3>3
    <2>4. QED
      BY <2>2, <2>3
  <1>4. QED
    BY <1>2, <1>3

LEMMA BlobblePages ==
  ASSUME NEW v \in Visits, v.route = "/blobbles"
  PROVE  PageIsTold(v, Blobbles(v))
  <1> DEFINE reply == v.says["/batches"]
             rows == RowsOf(reply.body)
             newest == {p \in Range(rows) \X Range(rows) : p[1].block > p[2].block}
             shown == Arranged(rows, newest)
             rendered == CASE reply.status # 200 -> Forward(reply)
                           [] reply.status = 200 /\ reply.body = Garbled -> Crash
                           [] OTHER -> Page(shown)
             through == CASE "reader" \in v.unset -> RouteError(500, "url_not_configured")
                          [] Unreachable(v, "reader", "/batches") -> RouteError(502, "unreachable")
                          [] OTHER -> rendered
  <1>1. Blobbles(v) = through
    BY DEF Blobbles, Through, Rendered, SortedRows
  <1>2. <<"reader", "/batches">> \in AskedBy(v)
    BY DEF AskedBy
  <1>3. ASSUME "reader" \notin v.unset, reply # Down PROVE PageIsTold(v, rendered)
    <2>1. reply \in Replied(v) \ {Down}
      BY <1>2, <1>3, AskedReplies
    <2> HIDE DEF reply
    <2>2. reply.body # Garbled => shown \in Seq(RowsTold(v))
      <3> SUFFICES ASSUME reply.body # Garbled PROVE shown \in Seq(RowsTold(v))
        OBVIOUS
      <3>1. rows \in Seq(RowsTold(v))
        BY <2>1, RowsReplied
      <3> DEFINE S == Range(rows)
                 number == [r \in S |-> r.block]
      <3> HIDE DEF rows
      <3>2. S \subseteq RowsTold(v)
        BY <3>1 DEF Range
      <3>3. \A r \in S : r.block \in Int
        BY <3>2, RowsHaveNumbers
      <3>4. \A x, y \in S : <<x, y>> \in newest <=> number[x] > number[y]
        OBVIOUS
      <3>5. number \in [S -> Int]
        BY <3>3
      <3> HIDE DEF number, newest
      <3>6. Compares(newest, S)
        <4> HIDE DEF S
        <4>1. QED
          BY <3>4, <3>5, NumbersCompareBack
      <3>7. QED
        BY <3>1, <3>6, SortedKept
    <2> HIDE DEF shown
    <2>3. QED
      BY <2>1, <2>2, RenderedTold
  <1> HIDE DEF rendered
  <1>4. PageIsTold(v, through)
    BY <1>2, <1>3, ThroughTold
  <1> HIDE DEF through
  <1>5. QED
    BY <1>1, <1>4

LEMMA EntryAuthor ==
  ASSUME NEW entry, "author" \in DOMAIN entry, NEW rows
  PROVE  Entry(entry, rows).author = entry.author
  <1> DEFINE match == Filtered(rows, LAMBDA r : r.author = entry.author)
             content == IF match = <<>> \/ ~Last(match).decodes THEN Absent ELSE Last(match).content
  <1>1. Entry(entry, rows) = [entry EXCEPT !.content = content]
    BY DEF Entry
  <1> HIDE DEF content
  <1>2. QED
    BY <1>1

LEMMA BlobbleOfPages ==
  ASSUME NEW v \in Visits, v.route = "/blobbles/"
  PROVE  PageIsTold(v, BlobbleOf(v))
  <1> DEFINE batch == v.says["/batches/"]
             messages == v.says["/messages"]
             body == batch.body
             earlier == {p \in Range(body) \X Range(body) : p[1].index < p[2].index}
             snapshot == Arranged(body, earlier)
             rows == RowsOf(messages.body)
             entries == [i \in DOMAIN snapshot |-> Entry(snapshot[i], rows)]
  <1>1. BlobbleOf(v) =
          CASE "reader" \in v.unset -> RouteError(500, "url_not_configured")
            [] "reader" \notin v.unset /\ Down \in {batch, messages} -> RouteError(502, "unreachable")
            [] OTHER -> IF batch.status # 200 THEN Forward(batch)
                        ELSE IF messages.status # 200 THEN Forward(messages)
                        ELSE IF batch.body = Garbled THEN Crash
                        ELSE IF batch.body = Bare THEN RouteError(404, "not_found")
                        ELSE IF messages.body = Garbled THEN Crash
                        ELSE Page(entries)
    BY DEF BlobbleOf, SortedRows
  <1>2. <<"reader", "/batches/">> \in AskedBy(v) /\ <<"reader", "/messages">> \in AskedBy(v)
    BY DEF AskedBy
  <1>3. CASE "reader" \in v.unset
    <2>1. PageIsTold(v, RouteError(500, "url_not_configured"))
      BY ErrorTold
    <2>2. QED
      BY <1>1, <1>3, <2>1
  <1>4. CASE "reader" \notin v.unset /\ Down \in {batch, messages}
    <2>1. Down \in Replied(v)
      BY <1>2, <1>4, AskedReplies
    <2>2. PageIsTold(v, RouteError(502, "unreachable"))
      BY <2>1, ErrorTold
    <2>3. QED
      BY <1>1, <1>4, <2>2
  <1>5. CASE "reader" \notin v.unset /\ Down \notin {batch, messages}
    <2>1. batch \in Replied(v) \ {Down} /\ messages \in Replied(v) \ {Down}
      BY <1>2, <1>5, AskedReplies
    <2>2. BlobbleOf(v) =
            IF batch.status # 200 THEN Forward(batch)
            ELSE IF messages.status # 200 THEN Forward(messages)
            ELSE IF batch.body = Garbled THEN Crash
            ELSE IF batch.body = Bare THEN RouteError(404, "not_found")
            ELSE IF messages.body = Garbled THEN Crash
            ELSE Page(entries)
      BY <1>1, <1>5
    <2> HIDE DEF batch, messages
    <2>3. PageIsTold(v, Forward(batch)) /\ PageIsTold(v, Forward(messages))
      BY <2>1, ForwardTold
    <2>4. PageIsTold(v, Crash) /\ PageIsTold(v, RouteError(404, "not_found"))
      BY <2>1, ErrorTold DEF Crash
    <2>5. ASSUME batch.status = 200, body \notin {Bare, Garbled} PROVE PageIsTold(v, Page(entries))
      <3> DEFINE S == Range(body)
                 number == [r \in S |-> r.index]
      <3>1. body \in Seq(RowsTold(v))
        BY <2>1, <2>5, RowsReplied
      <3> HIDE DEF body
      <3>2. S \subseteq RowsTold(v)
        BY <3>1 DEF Range
      <3>3. \A r \in S : r.index \in Int
        BY <3>2, RowsHaveNumbers
      <3>4. \A x, y \in S : <<x, y>> \in earlier <=> number[x] < number[y]
        OBVIOUS
      <3>5. number \in [S -> Int]
        BY <3>3
      <3> HIDE DEF number, earlier
      <3>6. Compares(earlier, S)
        <4> HIDE DEF S
        <4>1. QED
          BY <3>4, <3>5, NumbersCompare
      <3>7. snapshot \in Seq(RowsTold(v))
        BY <3>1, <3>6, SortedKept
      <3> HIDE DEF snapshot, rows, S
      <3>8. \A i \in DOMAIN entries : \E r \in RowsTold(v) : r.author = entries[i].author
        <4> SUFFICES ASSUME NEW i \in DOMAIN snapshot PROVE \E r \in RowsTold(v) : r.author = entries[i].author
          OBVIOUS
        <4>1. snapshot[i] \in RowsTold(v)
          BY <3>7
        <4>2. "author" \in DOMAIN snapshot[i]
          BY <4>1, RowsHaveNumbers
        <4>3. entries[i].author = snapshot[i].author
          BY <4>2, EntryAuthor
        <4>4. QED
          BY <4>1, <4>3
      <3> HIDE DEF entries
      <3>9. QED
        BY <2>1, <2>5, <3>8, ListTold
    <2> HIDE DEF entries
    <2>6. QED
      BY <2>2, <2>3, <2>4, <2>5
  <1>6. QED
    BY <1>3, <1>4, <1>5

-----------------------------------------------------------------------------
LEMMA KeptRows ==
  ASSUME NEW S, NEW rows \in Seq(S), NEW kept \in SUBSET DOMAIN rows
  PROVE  [n \in 1 .. Cardinality(kept) |-> rows[CHOOSE i \in kept : Cardinality({j \in kept : j < i}) = n - 1]]
            \in Seq(S)
  <1> DEFINE some == {rows[i] : i \in kept}
             list == [n \in 1 .. Cardinality(kept) |-> rows[CHOOSE i \in kept : Cardinality({j \in kept : j < i}) = n - 1]]
  <1>1. some \subseteq S
    OBVIOUS
  <1>2. list \in Seq(some)
    BY FilteredRows
  <1> HIDE DEF some, list
  <1>3. list \in Seq(S)
    BY <1>1, <1>2
  <1>4. QED
    BY <1>3 DEF list

\* A post among the Reader's rows and its replies.
LEMMA ThreadRows ==
  ASSUME NEW S, NEW rows \in Seq(S), NEW hash, \A r \in S : r.time \in Nat,
         ThreadAmong(rows, hash) # Absent
  PROVE  ThreadAmong(rows, hash) \in Seq(S)
  <1> DEFINE kept == {i \in DOMAIN rows : rows[i].batchRef # Absent /\ rows[i].decodes}
             decoded == [n \in 1 .. Cardinality(kept) |-> rows[CHOOSE i \in kept : Cardinality({j \in kept : j < i}) = n - 1]]
             posts == {i \in DOMAIN decoded : decoded[i].hash = hash}
             post == [n \in 1 .. Cardinality(posts) |-> decoded[CHOOSE i \in posts : Cardinality({j \in posts : j < i}) = n - 1]]
             answers == {i \in DOMAIN decoded : decoded[i].hash # hash /\ decoded[i].parent = hash}
             replies == [n \in 1 .. Cardinality(answers) |-> decoded[CHOOSE i \in answers : Cardinality({j \in answers : j < i}) = n - 1]]
             earlier == {p \in Range(replies) \X Range(replies) : p[1].time < p[2].time}
             sorted == Arranged(replies, earlier)
  <1>1. ThreadAmong(rows, hash) = IF post = <<>> THEN Absent ELSE <<Last(post)>> \o sorted
    BY Zenon DEF ThreadAmong, Filtered, SortedRows
  <1>2. kept \in SUBSET DOMAIN rows
    OBVIOUS
  <1> HIDE DEF kept
  <1>3. decoded \in Seq(S)
    BY <1>2, KeptRows
  <1>4. posts \in SUBSET DOMAIN decoded /\ answers \in SUBSET DOMAIN decoded
    OBVIOUS
  <1> HIDE DEF decoded, posts, answers
  <1>5. post \in Seq(S) /\ replies \in Seq(S)
    BY <1>3, <1>4, KeptRows
  <1> HIDE DEF post, replies
  <1>6. sorted \in Seq(S)
    <2> DEFINE T == Range(replies)
               number == [r \in T |-> r.time]
    <2>1. T \subseteq S
      BY <1>5 DEF Range
    <2>2. \A x, y \in T : <<x, y>> \in earlier <=> number[x] < number[y]
      OBVIOUS
    <2>3. number \in [T -> Int]
      BY <2>1
    <2> HIDE DEF number, earlier
    <2>4. Compares(earlier, T)
      <3> HIDE DEF T
      <3>1. QED
        BY <2>2, <2>3, NumbersCompare
    <2>5. QED
      BY <1>5, <2>4, SortedKept
  <1> HIDE DEF sorted
  <1>7. ASSUME post # <<>> PROVE <<Last(post)>> \o sorted \in Seq(S)
    <2> DEFINE last == <<Last(post)>>
    <2>1. Len(post) \in 1 .. Len(post) /\ Last(post) = post[Len(post)]
      BY <1>5, <1>7 DEF Last
    <2>2. Last(post) \in S
      BY <1>5, <2>1
    <2>3. last \in Seq(S)
      BY <2>2
    <2> HIDE DEF last
    <2>4. last \o sorted \in Seq(S)
      BY <1>6, <2>3
    <2>5. QED
      BY <2>4 DEF last
  <1>8. QED
    BY <1>1, <1>7

\* What the Indexer knows of a thread.
LEMMA IndexedRows ==
  ASSUME NEW v \in Visits, v.route = "/thread/", IndexedThread(v) # Absent
  PROVE  /\ IndexedThread(v) \in Seq(RowsTold(v))
         /\ \E r \in Replied(v) \ {Down} : r.status = 200
  <1> DEFINE post == v.says["/posts/hash/"]
             replies == v.says["/replies"]
             more == RowsOf(replies.body)
             silent == "indexer" \in v.unset \/ post = Down \/ replies = Down
  <1>1. IndexedThread(v) =
          IF silent THEN Absent
          ELSE IF post.status # 200 \/ post.body \in {Bare, Garbled} THEN Absent
          ELSE IF replies.status # 200 THEN post.body
          ELSE IF replies.body = Garbled THEN Absent
          ELSE post.body \o more
    <2>1. IndexerSilent(v, {"/posts/hash/", "/replies"}) <=> silent
      BY DEF IndexerSilent
    <2>2. CASE silent
      BY <2>1, <2>2 DEF IndexedThread
    <2>3. CASE ~silent
      BY <2>1, <2>3 DEF IndexedThread
    <2>4. QED
      BY <2>2, <2>3
  <1>2. ~silent /\ post.status = 200 /\ post.body \notin {Bare, Garbled}
    BY <1>1
  <1>3. <<"indexer", "/posts/hash/">> \in AskedBy(v) /\ <<"indexer", "/replies">> \in AskedBy(v)
    BY DEF AskedBy
  <1>4. post \in Replied(v) \ {Down} /\ replies \in Replied(v) \ {Down}
    BY <1>2, <1>3, AskedReplies
  <1> HIDE DEF post, replies
  <1>5. post.body \in Seq(RowsTold(v))
    BY <1>2, <1>4, RowsReplied
  <1>6. CASE replies.status # 200
    BY <1>1, <1>2, <1>4, <1>5, <1>6
  <1>7. CASE replies.status = 200
    <2>1. replies.body # Garbled /\ IndexedThread(v) = post.body \o more
      BY <1>1, <1>2, <1>7
    <2>2. more \in Seq(RowsTold(v))
      BY <1>4, <2>1, RowsReplied
    <2> HIDE DEF more
    <2>3. post.body \o more \in Seq(RowsTold(v))
      BY <1>5, <2>2
    <2>4. QED
      BY <1>2, <1>4, <2>1, <2>3
  <1>8. QED
    BY <1>6, <1>7

LEMMA ThreadPages ==
  ASSUME NEW v \in Visits, v.route = "/thread/"
  PROVE  /\ PageIsTold(v, TwitterThread(v))
         /\ v.param # Bad /\ "reader" \notin v.unset /\ v.says["/messages"] # Down /\ v.says["/messages"].status = 200
              /\ v.says["/messages"].body # Garbled => TwitterThread(v).status \in {200, 404}
  <1> DEFINE reply == v.says["/messages"]
             thread == ThreadAmong(RowsOf(reply.body), v.param)
             found == IF thread = Absent THEN RouteError(404, "not_found") ELSE Page(thread)
             handled == CASE reply.status # 200 -> RouteError(502, "reader_error")
                          [] reply.status = 200 /\ reply.body = Garbled -> Crash
                          [] OTHER -> found
             through == CASE "reader" \in v.unset -> RouteError(500, "url_not_configured")
                          [] Unreachable(v, "reader", "/messages") -> RouteError(502, "unreachable")
                          [] OTHER -> handled
             indexed == IndexedThread(v)
  <1>1. TwitterThread(v) =
          CASE v.param = Bad -> RouteError(400, "bad_request")
            [] v.param # Bad /\ indexed # Absent -> Page(indexed)
            [] OTHER -> through
    BY DEF TwitterThread, Through
  <1>2. <<"reader", "/messages">> \in AskedBy(v)
    BY DEF AskedBy
  <1>3. ASSUME "reader" \notin v.unset, reply # Down PROVE PageIsTold(v, handled)
    <2>1. reply \in Replied(v) \ {Down}
      BY <1>2, <1>3, AskedReplies
    <2> HIDE DEF reply
    <2>2. CASE reply.status # 200
      <3>1. PageIsTold(v, RouteError(502, "reader_error"))
        BY <2>1, <2>2, ErrorTold
      <3>2. QED
        BY <2>2, <3>1
    <2>3. CASE reply.status = 200 /\ reply.body = Garbled
      <3>1. PageIsTold(v, Crash)
        BY ErrorTold DEF Crash
      <3>2. QED
        BY <2>3, <3>1
    <2>4. CASE reply.status = 200 /\ reply.body # Garbled
      <3>1. thread # Absent => thread \in Seq(RowsTold(v))
        <4>1. RowsOf(reply.body) \in Seq(RowsTold(v))
          BY <2>1, <2>4, RowsReplied
        <4>2. QED
          BY <4>1, RowsHaveNumbers, ThreadRows
      <3> HIDE DEF thread
      <3>2. PageIsTold(v, found)
        <4>1. PageIsTold(v, RouteError(404, "not_found"))
          BY <2>1, ErrorTold
        <4>2. thread # Absent => PageIsTold(v, Page(thread))
          BY <2>1, <2>4, <3>1, PageTold
        <4>3. QED
          BY <4>1, <4>2
      <3>3. handled = found
        BY <2>4
      <3> HIDE DEF handled, found
      <3>4. QED
        BY <3>2, <3>3
    <2>5. QED
      BY <2>2, <2>3, <2>4
  <1>4. ASSUME "reader" \notin v.unset, reply # Down, reply.status = 200, reply.body # Garbled
        PROVE  through.status \in {200, 404}
    <2>1. through = found
      BY <1>4 DEF Unreachable
    <2>2. found.status \in {200, 404}
      <3> HIDE DEF thread
      <3>1. QED
        BY DEF RouteError, Page
    <2> HIDE DEF through, found
    <2>3. QED
      BY <2>1, <2>2
  <1> HIDE DEF handled
  <1>5. PageIsTold(v, through)
    BY <1>2, <1>3, ThroughTold
  <1> HIDE DEF through, indexed
  <1>6. CASE v.param = Bad
    <2>1. PageIsTold(v, RouteError(400, "bad_request"))
      BY ErrorTold
    <2>2. QED
      BY <1>1, <1>6, <2>1
  <1>7. CASE v.param # Bad /\ indexed # Absent
    <2>1. indexed \in Seq(RowsTold(v)) /\ \E r \in Replied(v) \ {Down} : r.status = 200
      BY <1>7, IndexedRows DEF indexed
    <2>2. PageIsTold(v, Page(indexed)) /\ Page(indexed).status = 200
      BY <2>1, PageTold DEF Page
    <2>3. QED
      BY <1>1, <1>7, <2>2
  <1>8. CASE v.param # Bad /\ indexed = Absent
    <2>1. TwitterThread(v) = through
      BY <1>1, <1>8
    <2>2. QED
      BY <1>4, <1>5, <2>1
  <1>9. QED
    BY <1>6, <1>7, <1>8

-----------------------------------------------------------------------------
LEMMA ItemReplied ==
  ASSUME NEW v \in Visits, NEW reply \in Replied(v) \ {Down}, ItemOf(reply) # Absent
  PROVE  ItemOf(reply) \in Seq(RowsTold(v)) /\ reply.status = 200
  BY RowsReplied DEF ItemOf

LEMMA ProofPages ==
  ASSUME NEW v \in Visits, <<"coprocessor", "/proof/">> \in AskedBy(v)
  PROVE  /\ PageIsTold(v, Proof(v))
         /\ Proof(v).status = 200 => Proof(v).rows \in Seq(RowsTold(v))
  <1> DEFINE reply == v.says["/proof/"]
             bundle == CASE Failing(reply, 404) -> RouteError(502, "unreachable")
                         [] ~Failing(reply, 404) /\ ItemOf(reply) = Absent -> RouteError(404, "not_found")
                         [] OTHER -> Page(ItemOf(reply))
             through == CASE "coprocessor" \in v.unset -> RouteError(500, "url_not_configured")
                          [] Unreachable(v, "coprocessor", "/proof/") -> RouteError(502, "unreachable")
                          [] OTHER -> bundle
             shown(given) == given.status = 200 => given.rows \in Seq(RowsTold(v))
  <1>1. Proof(v) = IF v.param = Bad THEN RouteError(400, "invalid_message_hash") ELSE through
    BY DEF Proof, Through
  <1>2. \A code, error : code # 200 => shown(RouteError(code, error))
    BY DEF RouteError
  <1>3. ASSUME "coprocessor" \notin v.unset, reply # Down PROVE PageIsTold(v, bundle) /\ shown(bundle)
    <2>1. reply \in Replied(v) \ {Down}
      BY <1>3, AskedReplies
    <2> HIDE DEF reply, shown
    <2>2. CASE Failing(reply, 404)
      <3>1. reply.status \in Nat /\ reply.status # 200
        BY <2>1, <2>2, RowsReplied DEF Failing
      <3>2. PageIsTold(v, RouteError(502, "unreachable"))
        BY <2>1, <3>1, ErrorTold
      <3>3. bundle = RouteError(502, "unreachable")
        BY <2>2
      <3> HIDE DEF bundle
      <3>4. QED
        BY <1>2, <3>2, <3>3
    <2>3. CASE ~Failing(reply, 404) /\ ItemOf(reply) = Absent
      <3>1. PageIsTold(v, RouteError(404, "not_found"))
        BY <2>1, ErrorTold
      <3>2. bundle = RouteError(404, "not_found")
        BY <2>3
      <3> HIDE DEF bundle
      <3>3. QED
        BY <1>2, <3>1, <3>2
    <2>4. CASE ~Failing(reply, 404) /\ ItemOf(reply) # Absent
      <3>1. ItemOf(reply) \in Seq(RowsTold(v)) /\ reply.status = 200
        BY <2>1, <2>4, ItemReplied
      <3>2. PageIsTold(v, Page(ItemOf(reply)))
        BY <2>1, <3>1, PageTold
      <3>3. bundle = Page(ItemOf(reply))
        BY <2>4
      <3>4. shown(Page(ItemOf(reply)))
        BY <3>1 DEF shown, Page
      <3> HIDE DEF bundle
      <3>5. QED
        BY <3>2, <3>3, <3>4
    <2>5. QED
      BY <2>2, <2>3, <2>4
  <1> HIDE DEF bundle, shown
  <1>4. PageIsTold(v, through)
    BY <1>3, ThroughTold
  <1>5. shown(through)
    <2>1. CASE "coprocessor" \in v.unset
      <3>1. through = RouteError(500, "url_not_configured")
        BY <2>1 DEF Unreachable
      <3> HIDE DEF through
      <3>2. QED
        BY <1>2, <3>1
    <2>2. CASE "coprocessor" \notin v.unset /\ reply = Down
      <3>1. through = RouteError(502, "unreachable")
        BY <2>2 DEF Unreachable
      <3> HIDE DEF through
      <3>2. QED
        BY <1>2, <3>1
    <2>3. CASE "coprocessor" \notin v.unset /\ reply # Down
      <3>1. through = bundle
        BY <2>3 DEF Unreachable
      <3> HIDE DEF through
      <3>2. QED
        BY <1>3, <2>3, <3>1
    <2>4. QED
      BY <2>1, <2>2, <2>3
  <1> HIDE DEF through
  <1>6. PageIsTold(v, RouteError(400, "invalid_message_hash")) /\ shown(RouteError(400, "invalid_message_hash"))
    BY <1>2, ErrorTold
  <1>7. PageIsTold(v, Proof(v)) /\ shown(Proof(v))
    BY <1>1, <1>4, <1>5, <1>6
  <1>8. QED
    BY <1>7 DEF shown

LEMMA DownloadPages ==
  ASSUME NEW v \in Visits, v.route = "/proof/download"
  PROVE  PageIsTold(v, ProofDownload(v))
  <1> DEFINE key == v.says["/proof/vk"]
             both == Proof(v).rows \o ItemOf(key)
  <1>1. <<"coprocessor", "/proof/">> \in AskedBy(v) /\ <<"coprocessor", "/proof/vk">> \in AskedBy(v)
    BY DEF AskedBy
  <1>2. PageIsTold(v, Proof(v)) /\ (Proof(v).status = 200 => Proof(v).rows \in Seq(RowsTold(v)))
    BY <1>1, ProofPages
  <1>3. ProofDownload(v) =
          IF v.param = Bad \/ "coprocessor" \in v.unset THEN Proof(v)
          ELSE IF key = Down THEN RouteError(502, "unreachable")
          ELSE IF Failing(key, 503) THEN RouteError(502, "unreachable")
          ELSE IF Proof(v).status # 200 \/ ItemOf(key) = Absent THEN Proof(v)
          ELSE Page(both)
    <2>1. CASE v.param = Bad \/ "coprocessor" \in v.unset
      BY <2>1 DEF ProofDownload
    <2>2. CASE ~(v.param = Bad \/ "coprocessor" \in v.unset)
      BY <2>2 DEF ProofDownload
    <2>3. QED
      BY <2>1, <2>2
  <1>4. CASE v.param = Bad \/ "coprocessor" \in v.unset
    BY <1>2, <1>3, <1>4
  <1>5. CASE "coprocessor" \notin v.unset /\ v.param # Bad
    <2>1. key \in Replied(v)
      BY <1>1, <1>5, AskedReplies
    <2> HIDE DEF key
    <2>2. CASE key = Down
      <3>1. PageIsTold(v, RouteError(502, "unreachable"))
        BY <2>1, <2>2, ErrorTold
      <3>2. QED
        BY <1>3, <1>5, <2>2, <3>1
    <2>3. CASE key # Down /\ Failing(key, 503)
      <3>1. key.status \in Nat /\ key.status # 200
        BY <2>1, <2>3, RowsReplied DEF Failing
      <3>2. PageIsTold(v, RouteError(502, "unreachable"))
        BY <2>1, <2>3, <3>1, ErrorTold
      <3>3. QED
        BY <1>3, <1>5, <2>3, <3>2
    <2>4. CASE key # Down /\ ~Failing(key, 503) /\ (Proof(v).status # 200 \/ ItemOf(key) = Absent)
      BY <1>2, <1>3, <1>5, <2>4
    <2>5. CASE key # Down /\ ~Failing(key, 503) /\ Proof(v).status = 200 /\ ItemOf(key) # Absent
      <3>1. ItemOf(key) \in Seq(RowsTold(v)) /\ key.status = 200
        BY <2>1, <2>5, ItemReplied
      <3>2. both \in Seq(RowsTold(v))
        BY <1>2, <2>5, <3>1
      <3> HIDE DEF both
      <3>3. PageIsTold(v, Page(both))
        BY <2>1, <2>5, <3>1, <3>2, PageTold
      <3>4. QED
        BY <1>3, <1>5, <2>5, <3>3
    <2>6. QED
      BY <2>2, <2>3, <2>4, <2>5
  <1>6. QED
    BY <1>4, <1>5

-----------------------------------------------------------------------------
LEMMA EveryPageTold == \A v \in Visits : PageIsTold(v, RouteAnswer(v))
  <1> SUFFICES ASSUME NEW v \in Visits PROVE PageIsTold(v, RouteAnswer(v))
    OBVIOUS
  <1>1. v.route \in PageRoutes
    BY VisitsAssumption
  <1>2. CASE v.route \in {"/pending", "/status", "/health", "/submitted-batches", "/flush"}
    BY <1>2, PosterPages DEF RouteAnswer
  <1>3. CASE v.route = "/next-nonce"
    BY <1>3, NoncePages DEF RouteAnswer
  <1>4. CASE v.route = "/messages"
    BY <1>4, MessagePages DEF RouteAnswer
  <1>5. CASE v.route = "/confirmed-messages"
    <2>1. <<"reader", "/messages">> \in AskedBy(v)
      BY <1>5 DEF AskedBy
    <2>2. QED
      BY <1>5, <2>1, ConfirmedPages, TwitterPages DEF RouteAnswer
  <1>6. CASE v.route = "/thread/"
    BY <1>6, ThreadPages DEF RouteAnswer
  <1>7. CASE v.route = "/blobbles"
    BY <1>7, BlobblePages DEF RouteAnswer
  <1>8. CASE v.route = "/blobbles/"
    BY <1>8, BlobbleOfPages DEF RouteAnswer
  <1>9. CASE v.route = "/proof/"
    <2>1. <<"coprocessor", "/proof/">> \in AskedBy(v)
      BY <1>9 DEF AskedBy
    <2>2. QED
      BY <1>9, <2>1, ProofPages DEF RouteAnswer
  <1>10. CASE v.route = "/proof/download"
    BY <1>10, DownloadPages DEF RouteAnswer
  <1>11. QED
    BY <1>1, <1>2, <1>3, <1>4, <1>5, <1>6, <1>7, <1>8, <1>9, <1>10 DEF PageRoutes

\* A twitter page needs the Reader only.
LEMMA TwitterServed ==
  ASSUME NEW v \in Visits, v.app = "twitter", v.route \in {"/thread/", "/confirmed-messages"}, v.param # Bad,
         "reader" \notin v.unset, v.says["/messages"] # Down, v.says["/messages"].status = 200,
         v.says["/messages"].body # Garbled
  PROVE  \/ RouteAnswer(v).status \in {200} \cup (IF v.route = "/thread/" THEN {404} ELSE {})
         \/ "indexer" \notin v.unset /\ v.says["/posts"] # Down /\ v.says["/posts"].body = Garbled
  <1>1. CASE v.route = "/thread/"
    <2>1. RouteAnswer(v) = TwitterThread(v)
      BY <1>1 DEF RouteAnswer
    <2>2. TwitterThread(v).status \in {200, 404}
      BY <1>1, ThreadPages
    <2>3. QED
      BY <1>1, <2>1, <2>2
  <1>2. CASE v.route = "/confirmed-messages"
    <2>1. RouteAnswer(v) = TwitterConfirmed(v)
      BY <1>2 DEF RouteAnswer
    <2>2. QED
      BY <1>2, <2>1, TwitterPages
  <1>3. QED
    BY <1>1, <1>2

Visited == visit.asked # Absent => visit.asked \in Visits /\ visit.answer = RouteAnswer(visit.asked)

LEMMA VisitedImplies == Visited => PagesAreHonest
  <1> SUFFICES ASSUME Visited, visit.asked # Absent PROVE PagesAreHonest
    BY DEF PagesAreHonest
  <1> DEFINE v == visit.asked
             given == visit.answer
             fromReader == "reader" \notin v.unset /\ v.says["/messages"] # Down
                             /\ v.says["/messages"].status = 200 /\ v.says["/messages"].body # Garbled
  <1>1. v \in Visits /\ given = RouteAnswer(v)
    BY DEF Visited
  <1>2. PageIsTold(v, given)
    BY <1>1, EveryPageTold
  <1>3. v.app = "twitter" /\ v.route \in {"/thread/", "/confirmed-messages"} /\ v.param # Bad /\ fromReader =>
          \/ given.status \in {200} \cup (IF v.route = "/thread/" THEN {404} ELSE {})
          \/ "indexer" \notin v.unset /\ v.says["/posts"] # Down /\ v.says["/posts"].body = Garbled
    BY <1>1, TwitterServed
  <1>4. v.route = "/messages" /\ v.app # "blobble" /\ given.sent # Absent => given.sent.tag = AppTag[v.app]
    <2>1. v.route = "/messages" => given = PostMessage(v)
      BY <1>1 DEF RouteAnswer
    <2>2. QED
      BY <1>1, <2>1, MessagePages
  <1>5. Replied(v) = {v.says[p[2]] : p \in {q \in AskedBy(v) : q[1] \notin v.unset}}
    BY DEF Replied
  <1>6. RowsTold(v) = UNION {Range(r.body) : r \in {s \in Replied(v) \ {Down} : s.body \notin {Bare, Garbled}}}
    BY DEF RowsTold
  <1>7. /\ given.status = 200 => {r \in Replied(v) \ {Down} : r.status = 200} # {}
        /\ given.error # "none" => given.rows = <<>>
        /\ \A i \in DOMAIN given.rows :
              IF v.route = "/blobbles/" THEN \E r \in RowsTold(v) : r.author = given.rows[i].author
              ELSE given.rows[i] \in RowsTold(v)
        /\ given.status = 502 /\ given.error # "none" =>
              Down \in Replied(v) \/ \E r \in Replied(v) \ {Down} : r.status # 200 \/ r.body = Bare
        /\ given.status = 404 => Replied(v) \ {Down} # {}
    BY <1>2 DEF PageIsTold
  <1>8. QED
    BY <1>3, <1>4, <1>5, <1>6, <1>7, ZenonT(60) DEF PagesAreHonest

\* A page of an application makes nothing up, whatever the services reply, or if they do not (the
\* routes under src/app/api).
THEOREM HonestPages == ProxiesSpec => []PagesAreHonest
  <1>1. NoVisit => Visited
    BY DEF NoVisit, Visited
  <1>2. Visited /\ [ProxiesNext]_visit => Visited'
    <2> SUFFICES ASSUME Visited, [ProxiesNext]_visit PROVE Visited'
      OBVIOUS
    <2>1. CASE ProxiesNext
      BY <2>1 DEF ProxiesNext, Visit, Visited
    <2>2. CASE UNCHANGED visit
      BY <2>2 DEF Visited
    <2>3. QED
      BY <2>1, <2>2
  <1>3. QED
    BY <1>1, <1>2, VisitedImplies, PTL DEF ProxiesSpec

\* Whoever reads is told what the services say, whatever is stored, asked, replied and clicked, and in
\* whatever order (the routes of the services and of the applications, and the explorer).
THEOREM ClientsAlwaysServed == ServedSpec => []ClientsAreServed
  BY PagesAreComplete, RequestsAreAnswered, HonestPages, ExplorerIsCurrent, PTL DEF ServedSpec, ClientsAreServed
=============================================================================
