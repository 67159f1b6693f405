----------------------------- MODULE LoginProofs -----------------------------
(***************************************************************************)
(* Theorems about Login, for any number of client addresses, attempts,     *)
(* window, time to live and restarts.                                      *)
(*                                                                         *)
(* What the rate limiter remembers is the tail of what it has checked, cut *)
(* where the window begins or where the gateway was restarted: what lies   *)
(* before the cut is too old to count, or counts for an earlier life of    *)
(* the gateway.  That needs one fact about the loop of Allow: on a list in *)
(* the order of time, it drops a beginning and keeps the rest.  The loop   *)
(* is a recursive function; what it computes follows from the              *)
(* well-foundedness of < on the naturals (NatLessThanWellFounded).         *)
(***************************************************************************)
EXTENDS Login, SequenceTheorems, FiniteSetTheorems, WellFoundedInduction, TLAPS

-----------------------------------------------------------------------------
(* Induction over the naturals, for sets.                                  *)

\* A set of naturals that is not empty has a least member.
LEMMA Least ==
    ASSUME NEW T, T \subseteq Nat, T # {}
    PROVE  \E x \in T : \A y \in T : x <= y
<1> DEFINE R == OpToRel(<, Nat)
<1>1. \E x \in T : \A y \in T : <<y, x>> \notin R
  <2>1. IsWellFoundedOn(R, Nat)
    BY NatLessThanWellFounded, Zenon
  <2> HIDE DEF R
  <2> QED BY <2>1, WFMin
<1>2. \A x, y \in Nat : <<y, x>> \notin R => x <= y
  BY DEF OpToRel
<1> HIDE DEF R
<1> QED BY <1>1, <1>2

\* A set with 0 and the successor of each of its naturals has all naturals.
LEMMA Induction ==
    ASSUME NEW S, 0 \in S, \A n \in Nat : n \in S => n + 1 \in S
    PROVE  \A n \in Nat : n \in S
<1> SUFFICES ASSUME NEW m \in Nat, m \notin S PROVE FALSE
  OBVIOUS
<1> DEFINE T == Nat \ S
<1>1. PICK x \in T : \A y \in T : x <= y
  <2>1. T # {} /\ T \subseteq Nat
    OBVIOUS
  <2> HIDE DEF T
  <2> QED BY <2>1, Least
<1>2. x \in Nat /\ x # 0
  BY <1>1
<1>3. x - 1 \in Nat /\ ~(x <= x - 1) /\ (x - 1) + 1 = x
  BY <1>2
<1>4. x - 1 \in S
  BY <1>1, <1>3
<1>5. x \in S
  BY <1>3, <1>4
<1> QED BY <1>1, <1>5

-----------------------------------------------------------------------------
(* The loop of Allow.                                                      *)

\* Times that never go back.
Ascending(s) == \A m, n \in 1 .. Len(s) : m <= n => s[m] <= s[n]

\* A list in the order of time can be cut in two at any time: up to the
\* d-th member nothing is later than the cutoff, beyond it everything is.
LEMMA Cut ==
    ASSUME NEW s \in Seq(Int), NEW c \in Int, Ascending(s)
    PROVE  \E d \in 0 .. Len(s) : \A n \in 1 .. Len(s) : s[n] > c <=> n > d
<1> DEFINE T == {d \in 0 .. Len(s) : \A n \in 1 .. Len(s) : n > d => s[n] > c}
<1>1. Len(s) \in Nat /\ \A n \in 1 .. Len(s) : s[n] \in Int
  BY LenProperties, ElementOfSeq
<1>2. PICK d \in T : \A e \in T : d <= e
  <2>1. Len(s) \in T
    BY <1>1
  <2>2. T \subseteq Nat
    BY <1>1
  <2> HIDE DEF T
  <2> QED BY <2>1, <2>2, Least
<1>3. ASSUME NEW n \in 1 .. Len(s), n <= d
      PROVE  s[n] <= c
  <2>1. d \in 1 .. Len(s) /\ d - 1 \in Nat /\ ~(d <= d - 1)
    BY <1>1, <1>2, <1>3
  <2>4. d - 1 \notin T
    BY <1>2, <2>1
  <2>2. PICK m \in 1 .. Len(s) : m > d - 1 /\ ~(s[m] > c)
    BY <1>1, <2>1, <2>4
  <2>3. m = d
    BY <1>1, <1>2, <2>1, <2>2
  <2>5. s[n] <= s[d]
    BY <1>3, <2>1 DEF Ascending
  <2> QED BY <1>1, <2>1, <2>2, <2>3, <2>5
<1>4. \A n \in 1 .. Len(s) : s[n] > c <=> n > d
  <2> SUFFICES ASSUME NEW n \in 1 .. Len(s) PROVE s[n] > c <=> n > d
    OBVIOUS
  <2>1. CASE n > d
    BY <1>2, <2>1
  <2>2. CASE ~(n > d)
    BY <1>1, <1>2, <1>3, <2>2
  <2> QED BY <2>1, <2>2
<1> QED BY <1>1, <1>2, <1>4

\* The loop drops such a beginning and keeps the rest in its order.
LEMMA AfterIsTail ==
    ASSUME NEW s \in Seq(Int), NEW c \in Int,
           NEW d \in 0 .. Len(s), \A n \in 1 .. Len(s) : s[n] > c <=> n > d
    PROVE  /\ After(s, c) \in Seq(Int)
           /\ Len(After(s, c)) = Len(s) - d
           /\ \A n \in 1 .. Len(s) - d : After(s, c)[n] = s[n + d]
<1> DEFINE
      L == Len(s)
      body(f, n) == IF n = 0 THEN <<>>
                    ELSE IF s[n] > c THEN Append(f[n - 1], s[n])
                    ELSE f[n - 1]
      tail(n) == [k \in 1 .. (IF n > d THEN n - d ELSE 0) |-> s[k + d]]
      kept == CHOOSE f : f = [n \in 0 .. L |-> body(f, n)]
<1>1. L \in Nat /\ d \in Nat /\ d <= L /\ \A n \in 1 .. L : s[n] \in Int
  BY LenProperties, ElementOfSeq
<1>2. \A n \in 0 .. L : tail(n) \in Seq(Int)
                        /\ Len(tail(n)) = (IF n > d THEN n - d ELSE 0)
  <2> SUFFICES ASSUME NEW n \in 0 .. L
               PROVE  tail(n) \in Seq(Int) /\ Len(tail(n)) = (IF n > d THEN n - d ELSE 0)
    OBVIOUS
  <2> DEFINE len == IF n > d THEN n - d ELSE 0
  <2>1. len \in Nat /\ \A k \in 1 .. len : k + d \in 1 .. L
    BY <1>1
  <2>2. \A k \in 1 .. len : s[k + d] \in Int
    BY <1>1, <2>1
  <2> HIDE DEF len
  <2>3. [k \in 1 .. len |-> s[k + d]] \in Seq(Int)
    BY <2>1, <2>2, IsASeq
  <2>4. Len([k \in 1 .. len |-> s[k + d]]) = len
    BY <2>1, <2>3, LenProperties
  <2> QED BY <2>3, <2>4 DEF len
<1>3. ASSUME NEW n \in 1 .. L
      PROVE  tail(n) = IF s[n] > c THEN Append(tail(n - 1), s[n]) ELSE tail(n - 1)
  <2>1. n \in Nat /\ n - 1 \in 0 .. L /\ n \in 0 .. L
    BY <1>1
  <2>2. CASE ~(n > d)
    BY <1>1, <2>1, <2>2
  <2>3. CASE n > d
    <3>1. s[n] > c
      BY <2>3
    <3>2. tail(n - 1) \in Seq(Int) /\ Len(tail(n - 1)) = n - 1 - d
      BY <1>1, <1>2, <2>1, <2>3
    <3>3. tail(n) \in Seq(Int) /\ Len(tail(n)) = n - d
      BY <1>1, <1>2, <2>1, <2>3
    <3>4. \A k \in 1 .. n - d : tail(n)[k] = s[k + d]
      BY <1>1, <2>1, <2>3
    <3>5. \A k \in 1 .. n - 1 - d : tail(n - 1)[k] = s[k + d]
      BY <1>1, <2>1, <2>3
    <3> HIDE DEF tail
    <3>6. s[n] \in Int
      BY <1>1
    <3>7. /\ Append(tail(n - 1), s[n]) \in Seq(Int)
          /\ Len(Append(tail(n - 1), s[n])) = n - d
          /\ \A k \in 1 .. n - 1 - d : Append(tail(n - 1), s[n])[k] = tail(n - 1)[k]
          /\ Append(tail(n - 1), s[n])[n - d] = s[n]
      BY <1>1, <2>1, <2>3, <3>2, <3>6, AppendProperties
    <3>8. \A k \in 1 .. n - d : Append(tail(n - 1), s[n])[k] = tail(n)[k]
      <4> DEFINE u == Append(tail(n - 1), s[n])
      <4> SUFFICES ASSUME NEW k \in 1 .. n - d PROVE u[k] = tail(n)[k]
        OBVIOUS
      <4>1. tail(n)[k] = s[k + d]
        BY <3>4
      <4>2. CASE k \in 1 .. n - 1 - d
        <5>1. u[k] = tail(n - 1)[k]
          BY <3>7, <4>2
        <5> QED BY <3>5, <4>1, <4>2, <5>1
      <4>3. CASE k = n - d
        <5>1. u[k] = s[n] /\ k + d = n
          BY <1>1, <2>1, <3>7, <4>3
        <5> QED BY <4>1, <5>1
      <4>4. k \in 1 .. n - 1 - d \/ k = n - d
        BY <1>1, <2>1
      <4> HIDE DEF u
      <4> QED BY <4>2, <4>3, <4>4
    <3>9. tail(n) = Append(tail(n - 1), s[n])
      BY <3>3, <3>7, <3>8, SeqEqual
    <3> QED BY <3>1, <3>9
  <2> QED BY <2>2, <2>3
<1>4. tail(0) = <<>>
  BY <1>1
<1> HIDE DEF tail
<1>5. \E f : f = [n \in 0 .. L |-> body(f, n)]
  <2> DEFINE f == [n \in 0 .. L |-> tail(n)]
  <2>1. ASSUME NEW n \in 0 .. L
        PROVE  tail(n) = body(f, n)
    <3>1. CASE n = 0
      BY <1>4, <3>1
    <3>2. CASE n # 0
      <4>1. n \in 1 .. L /\ n - 1 \in 0 .. L
        BY <1>1, <3>2
      <4>2. f[n - 1] = tail(n - 1)
        BY <4>1
      <4> QED BY <1>3, <3>2, <4>1, <4>2
    <3> QED BY <3>1, <3>2
  <2>2. f = [n \in 0 .. L |-> body(f, n)]
    BY <2>1
  <2> QED BY <2>2
<1>6. kept = [n \in 0 .. L |-> body(kept, n)]
  BY <1>5
<1>7. After(s, c) = kept[L]
  BY DEF After
<1> HIDE DEF kept
<1>8. \A n \in Nat : n \in {m \in Nat : m <= L => kept[m] = tail(m)}
  <2> DEFINE S == {m \in Nat : m <= L => kept[m] = tail(m)}
  <2>1. 0 \in S
    BY <1>1, <1>4, <1>6
  <2>2. ASSUME NEW n \in Nat, n \in S
        PROVE  n + 1 \in S
    <3> SUFFICES ASSUME n + 1 <= L PROVE kept[n + 1] = tail(n + 1)
      OBVIOUS
    <3>1. n + 1 \in 1 .. L /\ n + 1 \in 0 .. L /\ n + 1 # 0 /\ (n + 1) - 1 = n /\ n <= L
      BY <1>1
    <3>2. kept[n] = tail(n)
      BY <2>2, <3>1
    <3>3. kept[n + 1] = IF s[n + 1] > c THEN Append(kept[n], s[n + 1]) ELSE kept[n]
      BY <1>6, <3>1
    <3> QED BY <1>3, <3>1, <3>2, <3>3
  <2> HIDE DEF S
  <2>3. \A n \in Nat : n \in S
    BY <2>1, <2>2, Induction
  <2> QED BY <2>3 DEF S
<1>9. After(s, c) = tail(L)
  BY <1>1, <1>7, <1>8
<1>10. L \in 0 .. L /\ (IF L > d THEN L - d ELSE 0) = L - d
  BY <1>1
<1>11. tail(L) = [k \in 1 .. L - d |-> s[k + d]]
  BY <1>10 DEF tail
<1> QED BY <1>2, <1>9, <1>10, <1>11

-----------------------------------------------------------------------------
(* The invariant of the rate limiter.                                      *)

\* What has been checked, and how much of it the limiter has forgotten.
Count(k) == Len(checked[k])
Forgotten(k) == Count(k) - Len(attempts[k])

\* An attempt that cannot count any more: it is older than the window, or was
\* checked before the last restart.
Gone(k, n) == checked[k][n] <= now - Window \/ life[k][n] < restarts

\* The limiter remembers the last of the checked attempts, and has forgotten
\* only what is gone.
Remembers(k) ==
    /\ Ascending(checked[k])
    /\ \A n \in 1 .. Count(k) : checked[k][n] <= now
    /\ \A n \in 1 .. Count(k) : life[k][n] <= restarts
    /\ Forgotten(k) >= 0
    /\ \A n \in 1 .. Len(attempts[k]) : attempts[k][n] = checked[k][n + Forgotten(k)]
    /\ \A n \in 1 .. Forgotten(k) : Gone(k, n)

\* The parts of TypeOK that are about one key.
KeyOK(k) ==
    /\ attempts[k] \in Seq(Times)
    /\ Len(attempts[k]) <= MaxAttempts
    /\ checked[k] \in Seq(Times)
    /\ life[k] \in Seq(0 .. Restarts)
    /\ Len(life[k]) = Len(checked[k])

LEMMA Constants ==
    /\ MaxAttempts \in Nat /\ MaxAttempts > 0
    /\ Window \in Nat /\ Window > 0
    /\ TTL \in Nat
    /\ Grain \in Nat \ {0}
    /\ Horizon \in Nat /\ Restarts \in Nat /\ Cookies \in Nat
    /\ Times \subseteq Nat
BY LoginAssumption DEF Times

\* A list of times whose members all lie in a set is a list over that set.
LEMMA Within ==
    ASSUME NEW s \in Seq(Int), NEW S, \A n \in 1 .. Len(s) : s[n] \in S
    PROVE  s \in Seq(S)
<1>1. Len(s) \in Nat /\ s = [n \in 1 .. Len(s) |-> s[n]]
  BY LenProperties
<1>2. [n \in 1 .. Len(s) |-> s[n]] \in Seq(S)
  BY <1>1, IsASeq
<1> QED BY <1>1, <1>2

\* Pruning: what is kept are the last of the checked attempts, all within the
\* window, and what is not kept is gone.
LEMMA Pruning ==
    ASSUME NEW k \in Keys, KeyOK(k), Remembers(k), now \in Times
    PROVE  /\ Kept(k) \in Seq(Times)
           /\ Len(Kept(k)) \in Nat
           /\ Count(k) \in Nat
           /\ Len(Kept(k)) <= Len(attempts[k])
           /\ Len(Kept(k)) <= Count(k)
           /\ \A n \in 1 .. Len(Kept(k)) :
                 /\ Kept(k)[n] = checked[k][n + (Count(k) - Len(Kept(k)))]
                 /\ Kept(k)[n] > now - Window
           /\ \A n \in 1 .. Count(k) - Len(Kept(k)) : Gone(k, n)
<1> DEFINE s == attempts[k]
           c == now - Window
           F == Forgotten(k)
<1>1. s \in Seq(Int) /\ c \in Int /\ Len(s) \in Nat
  <2>1. s \in Seq(Int)
    <3>1. Times \subseteq Int
      BY DEF Times
    <3>2. Seq(Times) \subseteq Seq(Int)
      BY <3>1, SeqMonotonic
    <3> QED BY <3>2 DEF KeyOK
  <2>2. now \in Nat /\ Window \in Nat
    BY Constants
  <2> QED BY <2>1, <2>2, LenProperties
<1>2. Count(k) \in Nat /\ F \in Nat /\ F = Count(k) - Len(s)
  <2>1. Count(k) \in Nat
    BY LenProperties DEF KeyOK, Count
  <2> QED BY <1>1, <2>1 DEF Remembers, Forgotten
<1>3. \A n \in 1 .. Len(s) : n + F \in 1 .. Count(k) /\ s[n] = checked[k][n + F]
  <2>1. \A n \in 1 .. Len(s) : s[n] = checked[k][n + F]
    BY DEF Remembers
  <2> HIDE DEF F, s
  <2> QED BY <1>1, <1>2, <2>1
<1>4. Ascending(s)
  <2> SUFFICES ASSUME NEW m \in 1 .. Len(s), NEW n \in 1 .. Len(s), m <= n
               PROVE  s[m] <= s[n]
    BY DEF Ascending
  <2>1. m + F <= n + F
    BY <1>1, <1>2
  <2>2. checked[k][m + F] <= checked[k][n + F]
    BY <1>3, <2>1 DEF Remembers, Ascending, Count
  <2> QED BY <1>3, <2>2
<1> HIDE DEF F, s, c
<1>5. PICK d \in 0 .. Len(s) : \A n \in 1 .. Len(s) : s[n] > c <=> n > d
  BY <1>1, <1>4, Cut
<1>6. Kept(k) = After(s, c)
  BY DEF Kept, s, c
<1>7. /\ Kept(k) \in Seq(Int)
      /\ Len(Kept(k)) = Len(s) - d
      /\ \A n \in 1 .. Len(s) - d : Kept(k)[n] = s[n + d]
  <2>1. /\ After(s, c) \in Seq(Int)
        /\ Len(After(s, c)) = Len(s) - d
        /\ \A n \in 1 .. Len(s) - d : After(s, c)[n] = s[n + d]
    BY <1>1, <1>5, AfterIsTail
  <2> QED BY <1>6, <2>1
<1>8. /\ Len(Kept(k)) \in Nat
      /\ Len(Kept(k)) <= Len(s)
      /\ Len(Kept(k)) <= Count(k)
      /\ Count(k) - Len(Kept(k)) = F + d
  BY <1>1, <1>2, <1>5, <1>7
<1>9. ASSUME NEW n \in 1 .. Len(Kept(k))
      PROVE  /\ Kept(k)[n] = checked[k][n + (F + d)]
             /\ Kept(k)[n] > c
             /\ Kept(k)[n] \in Times
  <2>1. n + d \in 1 .. Len(s) /\ n + d > d /\ (n + d) + F = n + (F + d)
    BY <1>1, <1>2, <1>5, <1>7
  <2>2. Kept(k)[n] = s[n + d]
    BY <1>7
  <2>3. s[n + d] = checked[k][n + (F + d)]
    BY <1>3, <2>1
  <2>4. s[n + d] > c
    BY <1>5, <2>1
  <2>5. s[n + d] \in Times
    BY <2>1, ElementOfSeq DEF KeyOK, s
  <2> QED BY <2>2, <2>3, <2>4, <2>5
<1>10. Kept(k) \in Seq(Times)
  BY <1>7, <1>9, Within
<1>11. ASSUME NEW n \in 1 .. F + d
       PROVE  Gone(k, n)
  <2>1. CASE n <= F
    <3>1. n \in 1 .. Forgotten(k)
      BY <1>2, <1>5, <2>1 DEF F
    <3> QED BY <3>1 DEF Remembers
  <2>2. CASE ~(n <= F)
    <3>1. n - F \in 1 .. Len(s) /\ ~(n - F > d) /\ (n - F) + F = n
      <4>1. n \in Nat /\ n <= F + d /\ n > F /\ d \in Nat /\ d <= Len(s)
        BY <1>1, <1>2, <1>5, <2>2
      <4>2. n - F \in Int /\ n - F > 0 /\ n - F <= d
        BY <1>2, <4>1
      <4>3. n - F \in 1 .. Len(s)
        BY <1>1, <4>1, <4>2
      <4>4. (n - F) + F = n
        BY <1>2, <4>1
      <4> QED BY <4>1, <4>2, <4>3, <4>4
    <3>2. ~(s[n - F] > c)
      BY <1>5, <3>1
    <3>3. s[n - F] = checked[k][n]
      BY <1>3, <3>1
    <3>4. s[n - F] \in Int
      BY <1>1, <3>1, ElementOfSeq
    <3>5. checked[k][n] <= c
      BY <1>1, <3>2, <3>3, <3>4
    <3> QED BY <3>5 DEF Gone, c
  <2> QED BY <2>1, <2>2
<1> QED BY <1>2, <1>8, <1>9, <1>10, <1>11 DEF s, c

-----------------------------------------------------------------------------
(* What one call of Allow does to the key it is about.                     *)

\* GuessesBounded for one key: its m-th to n-th guesses.
Room(k, m, n) == MaxAttempts * (1 + life[k][n] - life[k][m])

Guesses(k) ==
    \A m, n \in 1 .. Count(k) :
        m <= n /\ checked[k][n] - checked[k][m] < Window => n - m + 1 <= Room(k, m, n)

\* A refusal had MaxAttempts checked attempts in a row behind it.
Reason(k) ==
    refused[k] # Never =>
        \E a \in 1 .. Count(k) :
            /\ a + MaxAttempts - 1 <= Count(k)
            /\ \A n \in a .. a + MaxAttempts - 1 :
                  checked[k][n] \in refused[k] - Window + 1 .. refused[k]

KeyInv(k) == KeyOK(k) /\ Remembers(k) /\ Guesses(k) /\ Reason(k)

\* One more life has room for MaxAttempts more.
LEMMA Multiples ==
    ASSUME NEW M \in Nat, NEW a \in Int, NEW b \in Int, a < b
    PROVE  M + M * a <= M * b
<1> DEFINE d == b - a - 1
<1>1. d \in Nat /\ b = a + 1 + d
  OBVIOUS
<1> HIDE DEF d
<1>2. M * d \in Nat
  BY <1>1
<1>3. M * (a + 1 + d) = M * a + M + M * d
  BY <1>1
<1>4. M * a \in Int
  OBVIOUS
<1> QED BY <1>1, <1>2, <1>3, <1>4

\* A list in the order of time stays one when the present is added.
LEMMA AppendNow ==
    ASSUME NEW s \in Seq(Times), NEW t \in Times,
           Ascending(s), \A n \in 1 .. Len(s) : s[n] <= t
    PROVE  /\ Append(s, t) \in Seq(Times)
           /\ Len(s) \in Nat
           /\ Len(Append(s, t)) = Len(s) + 1
           /\ \A n \in 1 .. Len(s) : Append(s, t)[n] = s[n]
           /\ Append(s, t)[Len(s) + 1] = t
           /\ Ascending(Append(s, t))
           /\ \A n \in 1 .. Len(s) + 1 : Append(s, t)[n] <= t
<1> DEFINE u == Append(s, t)
<1>1. /\ u \in Seq(Times)
      /\ Len(s) \in Nat
      /\ Len(u) = Len(s) + 1
      /\ \A n \in 1 .. Len(s) : u[n] = s[n]
      /\ u[Len(s) + 1] = t
  BY AppendProperties, LenProperties
<1> HIDE DEF u
<1>2. t \in Int
  BY DEF Times
<1>3. \A n \in 1 .. Len(s) + 1 : u[n] <= t
  <2> SUFFICES ASSUME NEW n \in 1 .. Len(s) + 1 PROVE u[n] <= t
    OBVIOUS
  <2>1. n \in 1 .. Len(s) \/ n = Len(s) + 1
    BY <1>1
  <2> QED BY <1>1, <1>2, <2>1
<1>4. Ascending(u)
  <2> SUFFICES ASSUME NEW m \in 1 .. Len(u), NEW n \in 1 .. Len(u), m <= n
               PROVE  u[m] <= u[n]
    BY DEF Ascending
  <2>1. CASE n = Len(s) + 1
    BY <1>1, <1>3, <2>1
  <2>2. CASE n # Len(s) + 1
    <3>1. m \in 1 .. Len(s) /\ n \in 1 .. Len(s)
      BY <1>1, <2>2
    <3> QED BY <1>1, <3>1 DEF Ascending
  <2> QED BY <2>1, <2>2
<1> QED BY <1>1, <1>3, <1>4 DEF u

\* A refusal prunes, and nothing else.
LEMMA Refused ==
    ASSUME NEW k \in Keys, KeyInv(k), now \in Times,
           Len(Kept(k)) >= MaxAttempts,
           attempts[k]' = Kept(k), checked[k]' = checked[k], life[k]' = life[k],
           refused[k]' = now, now' = now, restarts' = restarts
    PROVE  KeyInv(k)'
<1> DEFINE kept == Kept(k)
           C == Count(k)
           K == Len(Kept(k))
<1> USE DEF KeyInv
<1>1. /\ kept \in Seq(Times)
      /\ K \in Nat
      /\ C \in Nat
      /\ K <= Len(attempts[k])
      /\ K <= C
      /\ \A n \in 1 .. K : kept[n] = checked[k][n + (C - K)] /\ kept[n] > now - Window
      /\ \A n \in 1 .. C - K : Gone(k, n)
  BY Pruning
<1>2. C' = C /\ Forgotten(k)' = C - K
  BY DEF Count, Forgotten
<1>3. Len(attempts[k]) \in Nat
  BY LenProperties DEF KeyOK
<1>4. KeyOK(k)'
  BY <1>1, <1>3, Constants DEF KeyOK
<1>5. Remembers(k)'
  BY <1>1, <1>2 DEF Remembers, Ascending, Gone
<1>6. Guesses(k)'
  BY <1>2 DEF Guesses, Room
<1>7. Reason(k)'
  <2> DEFINE a == C - K + 1
  <2>1. /\ a \in 1 .. C
        /\ a + MaxAttempts - 1 <= C
    BY <1>1, Constants
  <2>2. ASSUME NEW n \in a .. a + MaxAttempts - 1
        PROVE  checked[k][n] \in now - Window + 1 .. now
    <3>1. n - (C - K) \in 1 .. K /\ (n - (C - K)) + (C - K) = n /\ n \in 1 .. C
      <4>1. K >= MaxAttempts /\ MaxAttempts \in Nat /\ MaxAttempts > 0
        BY Constants
      <4> HIDE DEF C, K, kept
      <4> QED BY <1>1, <4>1
    <3>2. checked[k][n] > now - Window
      BY <1>1, <3>1
    <3>3. checked[k][n] <= now
      BY <3>1 DEF Remembers
    <3>4. checked[k][n] \in Times
      BY <3>1, ElementOfSeq DEF KeyOK, Count
    <3>5. checked[k][n] \in Int /\ now \in Int /\ Window \in Int
      <4>1. Window \in Int
        BY Constants
      <4> QED BY <3>4, <4>1 DEF Times
    <3> QED BY <3>2, <3>3, <3>4, <3>5
  <2> HIDE DEF a
  <2>3. \E x \in 1 .. C : /\ x + MaxAttempts - 1 <= C
                          /\ \A n \in x .. x + MaxAttempts - 1 :
                                checked[k][n] \in now - Window + 1 .. now
    BY <2>1, <2>2
  <2> QED BY <1>2, <2>3 DEF Reason
<1> QED BY <1>4, <1>5, <1>6, <1>7

\* An attempt that is let through is remembered, and recorded as checked.
LEMMA Recorded ==
    ASSUME NEW k \in Keys, KeyInv(k), now \in Times, restarts \in 0 .. Restarts,
           Len(Kept(k)) < MaxAttempts,
           attempts[k]' = Append(Kept(k), now),
           checked[k]' = Append(checked[k], now),
           life[k]' = Append(life[k], restarts),
           refused[k]' = refused[k], now' = now, restarts' = restarts
    PROVE  KeyInv(k)'
<1> DEFINE kept == Kept(k)
           s == checked[k]
           l == life[k]
           C == Count(k)
           K == Len(Kept(k))
<1> USE DEF KeyInv
<1>1. /\ kept \in Seq(Times)
      /\ K \in Nat
      /\ C \in Nat
      /\ K <= C
      /\ \A n \in 1 .. K : kept[n] = s[n + (C - K)] /\ kept[n] > now - Window
      /\ \A n \in 1 .. C - K : s[n] <= now - Window \/ l[n] < restarts
  BY Pruning DEF Gone
<1>2. /\ s \in Seq(Times) /\ Ascending(s) /\ C = Len(s)
      /\ \A n \in 1 .. Len(s) : s[n] <= now
  BY DEF KeyOK, Remembers, Count
<1>g. /\ l \in Seq(0 .. Restarts) /\ C = Len(l)
      /\ \A n \in 1 .. C : l[n] <= restarts
      /\ \A m, n \in 1 .. C : m <= n /\ s[n] - s[m] < Window
            => n - m + 1 <= MaxAttempts * (1 + l[n] - l[m])
  BY DEF KeyOK, Remembers, Guesses, Room, Count
<1>3. /\ s' \in Seq(Times)
      /\ C' = C + 1
      /\ \A n \in 1 .. C : s'[n] = s[n]
      /\ s'[C + 1] = now
      /\ Ascending(s')
      /\ \A n \in 1 .. C + 1 : s'[n] <= now
  <2>1. s' = Append(s, now) /\ C' = Len(s')
    BY DEF Count
  <2> HIDE DEF s
  <2> QED BY <1>2, <2>1, AppendNow
<1>4. /\ attempts[k]' \in Seq(Times)
      /\ Len(attempts[k]') = K + 1
      /\ \A n \in 1 .. K : attempts[k]'[n] = kept[n]
      /\ attempts[k]'[K + 1] = now
  <2>1. attempts[k]' = Append(kept, now) /\ K = Len(kept)
    OBVIOUS
  <2> HIDE DEF kept, K
  <2> QED BY <1>1, <2>1, AppendProperties
<1>l. /\ l' \in Seq(0 .. Restarts)
      /\ Len(l') = C + 1
      /\ \A n \in 1 .. C : l'[n] = l[n]
      /\ l'[C + 1] = restarts
      /\ \A n \in 1 .. C + 1 : l'[n] \in Nat /\ l'[n] <= restarts
  <2>1. l' = Append(l, restarts)
    OBVIOUS
  <2> HIDE DEF l, C
  <2>2. /\ l' \in Seq(0 .. Restarts)
        /\ Len(l') = C + 1
        /\ \A n \in 1 .. C : l'[n] = l[n]
        /\ l'[C + 1] = restarts
    BY <1>g, <2>1, AppendProperties
  <2>3. ASSUME NEW n \in 1 .. C + 1 PROVE l'[n] \in Nat /\ l'[n] <= restarts
    <3>1. l'[n] \in 0 .. Restarts
      BY <2>2, <2>3, ElementOfSeq
    <3>2. n \in 1 .. C \/ n = C + 1
      BY <1>1, <2>3
    <3> QED BY <1>g, <2>2, <3>1, <3>2
  <2> QED BY <2>2, <2>3
<1>5. Forgotten(k)' = C - K
  BY <1>1, <1>3, <1>4 DEF Forgotten
<1>6. now \in Int /\ Window \in Int /\ MaxAttempts \in Nat /\ MaxAttempts > 0
      /\ restarts \in Nat
  BY Constants
<1>7. KeyOK(k)'
  BY <1>1, <1>3, <1>4, <1>6, <1>l DEF KeyOK, Count
<1>8. Remembers(k)'
  <2>1. Forgotten(k)' >= 0
    BY <1>1, <1>5
  <2>2. ASSUME NEW n \in 1 .. K + 1
        PROVE  attempts[k]'[n] = s'[n + (C - K)]
    <3>1. CASE n = K + 1
      <4>1. n + (C - K) = C + 1
        BY <1>1, <3>1
      <4> QED BY <1>3, <1>4, <3>1, <4>1
    <3>2. CASE n # K + 1
      <4>1. n \in 1 .. K /\ n + (C - K) \in 1 .. C
        BY <1>1, <3>2
      <4>2. attempts[k]'[n] = s[n + (C - K)]
        BY <1>1, <1>4, <4>1
      <4> QED BY <1>3, <4>1, <4>2
    <3> QED BY <3>1, <3>2
  <2>3. ASSUME NEW n \in 1 .. C - K
        PROVE  Gone(k, n)'
    <3>1. n \in 1 .. C
      BY <1>1
    <3> QED BY <1>1, <1>3, <1>l, <3>1 DEF Gone
  <2> QED BY <1>3, <1>4, <1>5, <1>l, <2>1, <2>2, <2>3 DEF Remembers
<1>9. Guesses(k)'
  <2> SUFFICES ASSUME NEW m \in 1 .. C + 1, NEW n \in 1 .. C + 1,
                      m <= n, s'[n] - s'[m] < Window
               PROVE  n - m + 1 <= MaxAttempts * (1 + l'[n] - l'[m])
    BY <1>3 DEF Guesses, Room
  <2>0. K < MaxAttempts
    OBVIOUS
  <2> HIDE DEF C, K, s, l, kept, KeyInv
  <2>c. C \in Nat /\ m \in Nat /\ n \in Nat
    BY <1>1
  <2>1. CASE n # C + 1
    <3>1. m \in 1 .. C /\ n \in 1 .. C
      BY <2>c, <2>1
    <3>2. s[n] - s[m] < Window
      BY <1>3, <3>1
    <3>3. n - m + 1 <= MaxAttempts * (1 + l[n] - l[m])
      BY <1>g, <3>1, <3>2
    <3> QED BY <1>l, <3>1, <3>3
  <2>2. CASE n = C + 1
    <3>1. now - s'[m] < Window /\ l'[n] = restarts /\ l'[m] \in Nat /\ l'[m] <= restarts
      BY <1>3, <1>l, <2>2
    <3> DEFINE F == C - K
               b == 1 + restarts - l'[m]
    <3>b. b \in Int /\ b > 0 /\ MaxAttempts * b \in Int
      <4>1. b \in Int /\ b > 0
        BY <1>6, <3>1
      <4> HIDE DEF b
      <4> QED BY <1>6, <4>1
    \* The limiter still remembers the m-th guess, and had room for another.
    <3>2. CASE m > F
      <4>1. n - m + 1 <= MaxAttempts
        BY <1>1, <1>6, <2>0, <2>2, <3>2
      <4>2. n - m + 1 <= MaxAttempts * b
        <5> HIDE DEF b
        <5> DEFINE room == MaxAttempts * b
        <5>1. MaxAttempts + MaxAttempts * 0 <= room
          BY <1>6, <3>b, Multiples
        <5>2. MaxAttempts * 0 = 0 /\ room \in Int
          BY <1>6, <3>b
        <5> HIDE DEF room
        <5>3. n - m + 1 <= room
          BY <1>6, <2>c, <4>1, <5>1, <5>2
        <5> QED BY <5>3 DEF room
      <4> QED BY <3>1, <4>2
    \* It has forgotten it, and what it forgot last belongs to an earlier life.
    <3>3. CASE ~(m > F)
      <4>1. m \in 1 .. C /\ F \in 1 .. C /\ m <= F /\ F \in 1 .. C - K /\ F \in Nat /\ m \in Nat
        BY <1>1, <3>3
      <4> HIDE DEF F
      <4>2. s[m] \in Int /\ s[F] \in Int
        <5>1. s[m] \in Times /\ s[F] \in Times
          BY <1>2, <4>1, ElementOfSeq
        <5> QED BY <5>1 DEF Times
      <4>3. l[m] \in Nat /\ l[F] \in Nat
        <5>1. l[m] \in 0 .. Restarts /\ l[F] \in 0 .. Restarts
          BY <1>g, <4>1, ElementOfSeq
        <5> QED BY <5>1
      <4>4. s'[m] = s[m] /\ l'[m] = l[m]
        BY <1>3, <1>l, <4>1
      <4>5. s[m] <= s[F] /\ s[F] <= now
        BY <1>2, <4>1 DEF Ascending
      <4>6. l[F] < restarts
        <5>1. s[F] <= now - Window \/ l[F] < restarts
          BY <1>1, <4>1
        <5> QED BY <1>6, <3>1, <4>2, <4>4, <4>5, <5>1
      <4>7. F - m + 1 <= MaxAttempts * (1 + l[F] - l[m])
        <5>1. s[F] - s[m] < Window
          BY <1>6, <3>1, <4>2, <4>4, <4>5
        <5> QED BY <1>g, <4>1, <5>1
      <4>8. n - F <= MaxAttempts
        BY <1>1, <1>6, <2>0, <2>2 DEF F
      <4> DEFINE a == 1 + l[F] - l[m]
      <4>9. a \in Int /\ a < b
        BY <1>6, <4>3, <4>4, <4>6
      <4>10. F - m + 1 <= MaxAttempts * a
        BY <4>7
      <4> HIDE DEF a
      <4>11. n - m + 1 <= MaxAttempts * b
        <5> HIDE DEF b
        <5>1. MaxAttempts + MaxAttempts * a <= MaxAttempts * b
          BY <1>6, <3>b, <4>9, Multiples
        <5>2. MaxAttempts * a \in Int
          BY <1>6, <4>9
        <5> QED BY <1>6, <3>b, <4>1, <4>8, <4>10, <5>1, <5>2
      <4> QED BY <3>1, <4>11
    <3> QED BY <3>2, <3>3
  <2> QED BY <2>1, <2>2
<1>10. Reason(k)'
  <2> SUFFICES ASSUME refused[k] # Never
               PROVE  \E a \in 1 .. C + 1 :
                         /\ a + MaxAttempts - 1 <= C + 1
                         /\ \A n \in a .. a + MaxAttempts - 1 :
                               s'[n] \in refused[k] - Window + 1 .. refused[k]
    BY <1>3 DEF Reason
  <2>1. PICK a \in 1 .. C :
           /\ a + MaxAttempts - 1 <= C
           /\ \A n \in a .. a + MaxAttempts - 1 :
                 s[n] \in refused[k] - Window + 1 .. refused[k]
    BY DEF Reason
  <2>2. a \in 1 .. C + 1 /\ a + MaxAttempts - 1 <= C + 1
    BY <1>1, <1>6, <2>1
  <2>3. \A n \in a .. a + MaxAttempts - 1 : n \in 1 .. C
    BY <1>1, <1>6, <2>1
  <2> QED BY <1>3, <2>1, <2>2, <2>3
<1> QED BY <1>7, <1>8, <1>9, <1>10

-----------------------------------------------------------------------------
(* The theorems.                                                           *)

\* TypeOK, with what is said of each key said by KeyInv.
Inv ==
    /\ now \in Times
    /\ restarts \in 0 .. Restarts
    /\ issued \subseteq [at : Times, expiry : 0 .. Unix(Horizon + TTL)]
    /\ attempts \in [Keys -> Seq(Times)]
    /\ checked \in [Keys -> Seq(Times)]
    /\ life \in [Keys -> Seq(0 .. Restarts)]
    /\ refused \in [Keys -> Times \union {Never}]
    /\ \A k \in Keys : KeyInv(k)

\* Whole seconds never go back, and a second later is another second.
LEMMA Seconds ==
    ASSUME NEW t \in Nat, NEW u \in Nat
    PROVE  /\ Unix(t) \in Nat
           /\ t <= u => Unix(t) <= Unix(u)
           /\ t + Grain <= u => Unix(t) < Unix(u)
<1>1. Grain \in Nat \ {0}
  BY Constants
<1>2. Unix(t) \in Nat
  BY <1>1 DEF Unix
<1>3. ASSUME t <= u PROVE Unix(t) <= Unix(u)
  BY <1>1, <1>3 DEF Unix
<1>4. ASSUME t + Grain <= u PROVE Unix(t) < Unix(u)
  BY <1>1, <1>4 DEF Unix
<1> QED BY <1>2, <1>3, <1>4

LEMMA InitInv == Init => Inv
<1> SUFFICES ASSUME Init PROVE Inv
  OBVIOUS
<1>1. now \in Times
  BY Constants DEF Init, Times
<1>2. <<>> \in Seq(Times) /\ Len(<<>>) = 0
  BY EmptySeq
<1>3. ASSUME NEW k \in Keys
      PROVE  KeyInv(k)
  <2>1. attempts[k] = <<>> /\ checked[k] = <<>> /\ life[k] = <<>> /\ refused[k] = Never
    BY DEF Init
  <2>2. Count(k) = 0 /\ Forgotten(k) = 0
    BY <1>2, <2>1 DEF Count, Forgotten
  <2> QED BY <1>2, <2>1, <2>2, Constants
          DEF KeyInv, KeyOK, Remembers, Ascending, Guesses, Reason
<1> QED BY <1>1, <1>2, <1>3, Constants DEF Init, Inv

\* What a step leaves alone, about a key it leaves alone.
LEMMA Untouched ==
    ASSUME NEW k \in Keys, KeyInv(k), now \in Times, now' \in Times, now <= now',
           attempts[k]' = attempts[k], checked[k]' = checked[k], life[k]' = life[k],
           refused[k]' = refused[k], restarts' = restarts
    PROVE  KeyInv(k)'
<1>1. Count(k)' = Count(k) /\ Forgotten(k)' = Forgotten(k) /\ Count(k) \in Nat
  BY LenProperties DEF KeyInv, KeyOK, Count, Forgotten
<1>2. KeyOK(k)' /\ Guesses(k)' /\ Reason(k)'
  BY <1>1 DEF KeyInv, KeyOK, Guesses, Room, Reason
<1>3. Remembers(k)'
  <2>1. now \in Int /\ now' \in Int /\ Window \in Int
    BY Constants
  <2>2. \A n \in 1 .. Count(k) : checked[k][n] \in Int
    <3> SUFFICES ASSUME NEW n \in 1 .. Count(k) PROVE checked[k][n] \in Int
      OBVIOUS
    <3>1. checked[k][n] \in Times
      BY ElementOfSeq DEF KeyInv, KeyOK, Count
    <3> QED BY <3>1 DEF Times
  <2>3. \A n \in 1 .. Count(k) : checked[k][n] <= now'
    BY <2>1, <2>2 DEF KeyInv, Remembers
  <2>4. \A n \in 1 .. Forgotten(k) : n \in 1 .. Count(k)
    <3>1. Len(attempts[k]) \in Nat
      BY LenProperties DEF KeyInv, KeyOK
    <3> QED BY <1>1, <3>1 DEF Forgotten
  <2>5. ASSUME NEW n \in 1 .. Forgotten(k)
        PROVE  Gone(k, n)'
    <3>1. checked[k][n] \in Int
      BY <2>2, <2>4
    <3>2. checked[k][n] <= now - Window \/ life[k][n] < restarts
      BY DEF KeyInv, Remembers, Gone
    <3> QED BY <2>1, <3>1, <3>2 DEF Gone
  <2> QED BY <1>1, <2>3, <2>5 DEF KeyInv, Remembers, Ascending
<1> QED BY <1>2, <1>3 DEF KeyInv

\* After a restart the limiter remembers nothing, and all that was checked is
\* gone, as it counts for an earlier life.
LEMMA Restarted ==
    ASSUME NEW k \in Keys, KeyInv(k), restarts \in 0 .. Restarts,
           attempts[k]' = <<>>, checked[k]' = checked[k], life[k]' = life[k],
           refused[k]' = refused[k], restarts' = restarts + 1, now' = now
    PROVE  KeyInv(k)'
<1>1. <<>> \in Seq(Times) /\ Len(<<>>) = 0
  BY EmptySeq
<1>2. Count(k)' = Count(k) /\ Forgotten(k)' = Count(k) /\ Count(k) \in Nat
  BY <1>1, LenProperties DEF KeyInv, KeyOK, Count, Forgotten
<1>3. KeyOK(k)' /\ Guesses(k)' /\ Reason(k)'
  BY <1>1, <1>2, Constants DEF KeyInv, KeyOK, Guesses, Room, Reason
<1>4. ASSUME NEW n \in 1 .. Count(k)
      PROVE  life[k][n] <= restarts' /\ Gone(k, n)'
  <2>1. life[k][n] \in 0 .. Restarts
    BY <1>2, <1>4, ElementOfSeq DEF KeyInv, KeyOK, Count
  <2>2. life[k][n] <= restarts
    BY <1>4 DEF KeyInv, Remembers
  <2> QED BY <2>1, <2>2 DEF Gone
<1>5. Remembers(k)'
  BY <1>1, <1>2, <1>4 DEF KeyInv, Remembers, Ascending
<1> QED BY <1>3, <1>5 DEF KeyInv

LEMMA NextInv == Inv /\ [Next]_vars => Inv'
<1> SUFFICES ASSUME Inv, [Next]_vars PROVE Inv'
  OBVIOUS
<1>0. /\ now \in Times
      /\ restarts \in 0 .. Restarts
      /\ issued \subseteq [at : Times, expiry : 0 .. Unix(Horizon + TTL)]
      /\ attempts \in [Keys -> Seq(Times)]
      /\ checked \in [Keys -> Seq(Times)]
      /\ life \in [Keys -> Seq(0 .. Restarts)]
      /\ refused \in [Keys -> Times \union {Never}]
      /\ \A k \in Keys : KeyInv(k)
  BY DEF Inv
<1>now. now \in Nat /\ Horizon \in Nat /\ now <= Horizon
  BY <1>0, Constants DEF Times
<1>1. ASSUME NEW k \in Keys, Refuse(k)
      PROVE  Inv'
  <2>1. now' = now /\ restarts' = restarts /\ issued' = issued /\ checked' = checked
        /\ life' = life
    BY <1>1 DEF Refuse, guesses
  <2>2. Kept(k) \in Seq(Times)
    BY <1>0, Pruning DEF KeyInv
  <2>3. /\ attempts' = [attempts EXCEPT ![k] = Kept(k)]
        /\ refused' = [refused EXCEPT ![k] = now]
        /\ Len(Kept(k)) >= MaxAttempts
    BY <1>1 DEF Refuse
  <2>4. KeyInv(k)'
    <3>1. attempts[k]' = Kept(k) /\ refused[k]' = now /\ checked[k]' = checked[k]
          /\ life[k]' = life[k]
      BY <1>0, <2>1, <2>3
    <3> QED BY <1>0, <2>1, <2>3, <3>1, Refused
  <2>5. ASSUME NEW j \in Keys, j # k
        PROVE  KeyInv(j)'
    <3>1. attempts[j]' = attempts[j] /\ refused[j]' = refused[j] /\ checked[j]' = checked[j]
          /\ life[j]' = life[j]
      BY <1>0, <2>1, <2>3, <2>5
    <3> QED BY <1>0, <1>now, <2>1, <3>1, Untouched
  <2>6. attempts' \in [Keys -> Seq(Times)] /\ refused' \in [Keys -> Times \union {Never}]
    BY <1>0, <2>2, <2>3
  <2>7. \A j \in Keys : KeyInv(j)'
    BY <2>4, <2>5
  <2> QED BY <1>0, <2>1, <2>6, <2>7 DEF Inv
<1>2. ASSUME NEW k \in Keys, Allow(k), now' = now, refused' = refused,
             restarts' = restarts
      PROVE  /\ \A j \in Keys : KeyInv(j)'
             /\ attempts' \in [Keys -> Seq(Times)]
             /\ checked' \in [Keys -> Seq(Times)]
             /\ life' \in [Keys -> Seq(0 .. Restarts)]
  <2>1. /\ attempts' = [attempts EXCEPT ![k] = Append(Kept(k), now)]
        /\ checked' = [checked EXCEPT ![k] = Append(checked[k], now)]
        /\ life' = [life EXCEPT ![k] = Append(life[k], restarts)]
        /\ Len(Kept(k)) < MaxAttempts
    BY <1>2 DEF Allow
  <2>2. Append(Kept(k), now) \in Seq(Times) /\ Append(checked[k], now) \in Seq(Times)
        /\ Append(life[k], restarts) \in Seq(0 .. Restarts)
    <3>1. Kept(k) \in Seq(Times) /\ checked[k] \in Seq(Times) /\ life[k] \in Seq(0 .. Restarts)
      BY <1>0, Pruning DEF KeyInv
    <3> QED BY <1>0, <3>1, AppendProperties
  <2>3. KeyInv(k)'
    <3>1. /\ attempts[k]' = Append(Kept(k), now)
          /\ checked[k]' = Append(checked[k], now)
          /\ life[k]' = Append(life[k], restarts)
          /\ refused[k]' = refused[k]
      BY <1>0, <1>2, <2>1
    <3> QED BY <1>0, <1>2, <2>1, <3>1, Recorded
  <2>4. ASSUME NEW j \in Keys, j # k
        PROVE  KeyInv(j)'
    <3>1. attempts[j]' = attempts[j] /\ refused[j]' = refused[j] /\ checked[j]' = checked[j]
          /\ life[j]' = life[j]
      BY <1>0, <1>2, <2>1, <2>4
    <3> QED BY <1>0, <1>now, <1>2, <3>1, Untouched
  <2>5. \A j \in Keys : KeyInv(j)'
    BY <2>3, <2>4
  <2>6. attempts' \in [Keys -> Seq(Times)] /\ checked' \in [Keys -> Seq(Times)]
        /\ life' \in [Keys -> Seq(0 .. Restarts)]
    BY <1>0, <2>1, <2>2
  <2> QED BY <2>5, <2>6
<1>3. ASSUME NEW k \in Keys, WrongPassword(k)
      PROVE  Inv'
  <2>1. /\ Allow(k)
        /\ now' = now /\ issued' = issued /\ refused' = refused /\ restarts' = restarts
    BY <1>3 DEF WrongPassword
  <2>2. /\ \A j \in Keys : KeyInv(j)'
        /\ attempts' \in [Keys -> Seq(Times)]
        /\ checked' \in [Keys -> Seq(Times)]
        /\ life' \in [Keys -> Seq(0 .. Restarts)]
    BY <1>2, <2>1
  <2> QED BY <1>0, <2>1, <2>2 DEF Inv
<1>4. ASSUME NEW k \in Keys, RightPassword(k)
      PROVE  Inv'
  <2> DEFINE cookie == [at |-> now, expiry |-> Expiry(now)]
  <2>1. /\ Allow(k)
        /\ now' = now /\ refused' = refused /\ restarts' = restarts
        /\ issued' \subseteq issued \union {cookie}
    BY <1>4 DEF RightPassword
  <2>2. /\ \A j \in Keys : KeyInv(j)'
        /\ attempts' \in [Keys -> Seq(Times)]
        /\ checked' \in [Keys -> Seq(Times)]
        /\ life' \in [Keys -> Seq(0 .. Restarts)]
    BY <1>2, <2>1
  <2>3. Expiry(now) \in 0 .. Unix(Horizon + TTL)
    <3>1. now + TTL \in Nat /\ Horizon + TTL \in Nat /\ now + TTL <= Horizon + TTL
      BY <1>now, Constants
    <3> QED BY <3>1, Seconds DEF Expiry
  <2>4. issued' \subseteq [at : Times, expiry : 0 .. Unix(Horizon + TTL)]
    BY <1>0, <2>1, <2>3
  <2> QED BY <1>0, <2>1, <2>2, <2>4 DEF Inv
<1>5. CASE Clock
  <2>1. /\ now' = now + 1 /\ now < Horizon
        /\ attempts' = attempts /\ issued' = issued /\ checked' = checked
        /\ life' = life /\ refused' = refused /\ restarts' = restarts
    BY <1>5 DEF Clock, guesses
  <2>2. now' \in Times /\ now <= now'
    BY <1>now, <2>1 DEF Times
  <2>3. \A k \in Keys : KeyInv(k)'
    BY <1>0, <2>1, <2>2, Untouched
  <2> QED BY <1>0, <2>1, <2>2, <2>3 DEF Inv
<1>6. CASE Restart
  <2>1. /\ restarts' = restarts + 1 /\ restarts < Restarts
        /\ attempts' = [k \in Keys |-> <<>>]
        /\ now' = now /\ issued' = issued
        /\ checked' = checked /\ life' = life /\ refused' = refused
    BY <1>6 DEF Restart, guesses
  <2>2. <<>> \in Seq(Times)
    BY EmptySeq
  <2>3. \A k \in Keys : KeyInv(k)'
    BY <1>0, <2>1, Restarted
  <2>4. restarts' \in 0 .. Restarts
    BY <1>0, <2>1, Constants
  <2> QED BY <1>0, <2>1, <2>2, <2>3, <2>4 DEF Inv
<1>7. CASE UNCHANGED vars
  <2>1. /\ now' = now /\ attempts' = attempts /\ issued' = issued /\ checked' = checked
        /\ life' = life /\ refused' = refused /\ restarts' = restarts
    BY <1>7 DEF vars, guesses
  <2>2. \A k \in Keys : KeyInv(k)'
    BY <1>0, <1>now, <2>1, Untouched
  <2> QED BY <1>0, <2>1, <2>2 DEF Inv
<1> QED BY <1>1, <1>3, <1>4, <1>5, <1>6, <1>7 DEF Next

LEMMA Invariance == Spec => []Inv
<1>1. Init => Inv
  BY InitInv
<1>2. Inv /\ [Next]_vars => Inv'
  BY NextInv
<1> QED BY <1>1, <1>2, PTL DEF Spec

\* The limiter's memory, the history it is measured by and the cookies are
\* what the model says they are; no key is remembered more often than
\* loginMaxAttempts times.
THEOREM TypeCorrect == Spec => []TypeOK
<1>1. Inv => TypeOK
  BY DEF Inv, TypeOK, KeyInv, KeyOK
<1> QED BY <1>1, Invariance, PTL

\* RateLimiter.Allow: in a window, wherever it is laid, an address has at most
\* loginMaxAttempts passwords checked for each life of the gateway that the
\* window reaches into.
THEOREM Bounded == Spec => []GuessesBounded
<1>1. Inv => GuessesBounded
  <2> SUFFICES ASSUME Inv, NEW k \in Keys, NEW m \in DOMAIN checked[k], NEW n \in DOMAIN checked[k],
                      m <= n, checked[k][n] - checked[k][m] < Window
               PROVE  n - m + 1 <= MaxAttempts * (1 + life[k][n] - life[k][m])
    BY DEF GuessesBounded
  <2>1. m \in 1 .. Count(k) /\ n \in 1 .. Count(k)
    <3>1. checked[k] \in Seq(Times)
      BY DEF Inv, KeyInv, KeyOK
    <3> QED BY <3>1, LenProperties DEF Count
  <2> QED BY <2>1 DEF Inv, KeyInv, Guesses, Room
<1> QED BY <1>1, Invariance, PTL

\* RateLimiter.Allow: whoever is refused has had loginMaxAttempts of his own
\* passwords checked in the window before.
THEOREM Justified == Spec => []RefusedForAReason
<1>1. Inv => RefusedForAReason
  <2> SUFFICES ASSUME Inv, NEW k \in Keys, refused[k] # Never
               PROVE  Cardinality({n \in DOMAIN checked[k] :
                          checked[k][n] \in refused[k] - Window + 1 .. refused[k]})
                        >= MaxAttempts
    BY DEF RefusedForAReason
  <2> DEFINE before == {n \in DOMAIN checked[k] :
                          checked[k][n] \in refused[k] - Window + 1 .. refused[k]}
  <2>1. checked[k] \in Seq(Times)
    BY DEF Inv, KeyInv, KeyOK
  <2>2. Count(k) \in Nat /\ DOMAIN checked[k] = 1 .. Count(k)
    BY <2>1, LenProperties DEF Count
  <2>3. PICK a \in 1 .. Count(k) :
           /\ a + MaxAttempts - 1 <= Count(k)
           /\ \A n \in a .. a + MaxAttempts - 1 :
                 checked[k][n] \in refused[k] - Window + 1 .. refused[k]
    BY DEF Inv, KeyInv, Reason
  <2>4. a \in Int /\ a + MaxAttempts - 1 \in Int
        /\ MaxAttempts \in Nat /\ MaxAttempts > 0
    BY <2>2, Constants
  <2>5. IsFiniteSet(1 .. Count(k))
    BY <2>2, FS_Interval
  <2>6. before \subseteq 1 .. Count(k)
    BY <2>2
  <2>7. a .. a + MaxAttempts - 1 \subseteq before
    BY <2>2, <2>3, <2>4
  <2> HIDE DEF before
  <2>8. IsFiniteSet(before)
    BY <2>5, <2>6, FS_Subset
  <2>9. /\ IsFiniteSet(a .. a + MaxAttempts - 1)
        /\ Cardinality(a .. a + MaxAttempts - 1) = MaxAttempts
    <3>1. Cardinality(a .. a + MaxAttempts - 1) =
              IF a > a + MaxAttempts - 1 THEN 0 ELSE a + MaxAttempts - 1 - a + 1
      BY <2>4, FS_Interval
    <3>2. IsFiniteSet(a .. a + MaxAttempts - 1)
      BY <2>4, FS_Interval
    <3> QED BY <2>4, <3>1, <3>2
  <2>10. Cardinality(a .. a + MaxAttempts - 1) <= Cardinality(before)
    BY <2>7, <2>8, FS_Subset
  <2>11. Cardinality(before) \in Nat
    BY <2>8, FS_CardinalityType
  <2> QED BY <2>4, <2>9, <2>10, <2>11 DEF before
<1> QED BY <1>1, Invariance, PTL

\* The expiry in a cookie is the one of the moment it was issued.
Stamped == \A cookie \in issued : cookie.expiry = Expiry(cookie.at)

\* SessionManager: a cookie is good for its whole time to live, and for less
\* than a second more.
THEOREM SessionsEnd == Spec => []SessionLength
<1>1. Init => Stamped
  BY DEF Init, Stamped
<1>2. Stamped /\ [Next]_vars => Stamped'
  <2> SUFFICES ASSUME Stamped, [Next]_vars PROVE Stamped'
    OBVIOUS
  <2>1. issued' \subseteq issued \union {[at |-> now, expiry |-> Expiry(now)]}
    <3>1. ASSUME NEW k \in Keys, Refuse(k) \/ WrongPassword(k) PROVE issued' = issued
      BY <3>1 DEF Refuse, WrongPassword
    <3>2. ASSUME NEW k \in Keys, RightPassword(k)
          PROVE  issued' \subseteq issued \union {[at |-> now, expiry |-> Expiry(now)]}
      BY <3>2 DEF RightPassword
    <3>3. Clock \/ Restart \/ UNCHANGED vars => issued' = issued
      BY DEF Clock, Restart, vars
    <3> QED BY <3>1, <3>2, <3>3 DEF Next
  <2> QED BY <2>1 DEF Stamped, Expiry, Unix
<1>3. Inv /\ Stamped => SessionLength
  <2> SUFFICES ASSUME Inv, Stamped, NEW cookie \in issued
               PROVE  /\ now <= cookie.at + TTL => Valid(cookie)
                      /\ now >= cookie.at + TTL + Grain => ~Valid(cookie)
    BY DEF SessionLength
  <2> DEFINE end == cookie.at + TTL
  <2>1. now \in Nat /\ end \in Nat /\ Grain \in Nat
    <3>1. now \in Times /\ cookie.at \in Times
      BY DEF Inv
    <3> QED BY <3>1, Constants DEF Times
  <2>2. cookie.expiry = Unix(end)
    BY DEF Stamped, Expiry
  <2> HIDE DEF end
  <2>3. Unix(now) \in Nat /\ Unix(end) \in Nat
    BY <2>1, Seconds
  <2>4. now <= end => Unix(now) <= Unix(end)
    BY <2>1, Seconds
  <2>5. end + Grain <= now => Unix(end) < Unix(now)
    BY <2>1, Seconds
  <2>6. now <= end => Valid(cookie)
    BY <2>2, <2>4 DEF Valid
  <2>7. now >= end + Grain => ~Valid(cookie)
    BY <2>1, <2>2, <2>3, <2>5 DEF Valid
  <2> QED BY <2>6, <2>7 DEF end
<1> QED BY <1>1, <1>2, <1>3, Invariance, PTL DEF Spec

=============================================================================
