-------------------------- MODULE CodeEntryProofs --------------------------
(***************************************************************************)
(* What is proved of the calls of epg_manager_add_code(): the codes that   *)
(* are let through are those that were issued for the computer, for any    *)
(* widths of a code's fields, any radix and any digests; the list of used  *)
(* codes is in strict order; and the rate limit holds, for any number of   *)
(* attempts and any period, once the computer has been on for longer than  *)
(* the period: the attempts of that first period, in which the start of    *)
(* the window wraps around and none is refused, count from then on.        *)
(*                                                                         *)
(* The digits of a code are what recursive functions compute.  What they   *)
(* compute for every code is shown with the least number principle for     *)
(* sets: NatSets, StepByStep and UpTo take the place of an induction.      *)
(***************************************************************************)
EXTENDS CodeEntry, FiniteSetTheorems, WellFoundedInduction, TLAPS

(* Induction over a set of numbers: the least number that is not in it is  *)
(* neither 0 nor the successor of another one.                             *)
LEMMA NatSets ==
  ASSUME NEW S, 0 \in S, \A n \in Nat : n \in S => n + 1 \in S
  PROVE  Nat \subseteq S
<1> DEFINE Less == {pair \in Nat \X Nat : pair[1] < pair[2]}
<1>1. IsWellFoundedOn(Less, Nat)
  BY NatLessThanWellFounded, Zenon DEF OpToRel
<1> SUFFICES ASSUME Nat \ S # {} PROVE FALSE
  OBVIOUS
<1>2. \E n \in Nat \ S : \A m \in Nat \ S : <<m, n>> \notin Less
  <2> HIDE DEF Less
  <2> QED BY <1>1, WFMin
<1>3. PICK n \in Nat \ S : \A m \in Nat \ S : ~(m < n)
  BY <1>2
<1>4. n # 0 /\ n - 1 \in Nat /\ n - 1 < n
  BY <1>3
<1>5. (n - 1) + 1 \in S
  BY <1>3, <1>4
<1> QED BY <1>3, <1>5

(* A function that is computed step by step exists. *)
LEMMA StepByStep ==
  ASSUME NEW N \in Nat, NEW first \in Nat, NEW step \in [1 .. N -> [Nat -> Nat]]
  PROVE  \E f \in [0 .. N -> Nat] : f[0] = first /\ \A n \in 1 .. N : f[n] = step[n][f[n - 1]]
<1> DEFINE Computes(f, k) ==
             /\ f \in [0 .. k -> Nat] /\ f[0] = first
             /\ \A n \in 1 .. k : f[n] = step[n][f[n - 1]]
           Computable(k) == \E f : Computes(f, k)
           T == {k \in Nat : k <= N => Computable(k)}
<1>1. Computable(0)
  <2>1. Computes([i \in 0 .. 0 |-> first], 0)
    OBVIOUS
  <2> HIDE DEF Computes
  <2> QED BY <2>1
<1>2. ASSUME NEW k \in Nat, k + 1 <= N, Computable(k) PROVE Computable(k + 1)
  <2>1. PICK f : Computes(f, k)
    BY <1>2, Zenon
  <2> DEFINE next == step[k + 1][f[k]]
             g == [i \in 0 .. k + 1 |-> IF i = k + 1 THEN next ELSE f[i]]
  <2>2. next \in Nat
    <3>1. k + 1 \in 1 .. N /\ f[k] \in Nat
      BY <1>2, <2>1
    <3> QED BY <3>1
  <2>3. Computes(g, k + 1)
    <3> HIDE DEF next
    <3>1. g \in [0 .. k + 1 -> Nat]
      BY <2>1, <2>2
    <3>2. g[0] = f[0] /\ g[k + 1] = next /\ \A i \in 0 .. k : g[i] = f[i]
      OBVIOUS
    <3>3. ASSUME NEW n \in 1 .. k + 1 PROVE g[n] = step[n][g[n - 1]]
      <4>1. CASE n = k + 1
        BY <3>2, <4>1 DEF next
      <4>2. CASE n # k + 1
        <5>1. n \in 1 .. k /\ n - 1 \in 0 .. k /\ n \in 0 .. k
          BY <4>2
        <5> QED BY <2>1, <3>2, <5>1
      <4> QED BY <4>1, <4>2
    <3> QED BY <2>1, <3>1, <3>2, <3>3
  <2> HIDE DEF Computes
  <2> QED BY <2>3
<1> HIDE DEF Computable
<1>3. 0 \in T /\ \A k \in Nat : k \in T => k + 1 \in T
  BY <1>1, <1>2
<1>4. N \in T
  <2> HIDE DEF T
  <2> QED BY <1>3, NatSets
<1>5. Computable(N)
  BY <1>4
<1> QED BY <1>5, Zenon DEF Computable

-----------------------------------------------------------------------------
(* Arithmetic of the digits. *)

LEMMA NextDigit ==
  ASSUME NEW value \in Nat, NEW radix \in Nat, NEW digit \in Nat
  PROVE  value * radix + digit \in Nat
OBVIOUS

LEMMA SplitDigit ==
  ASSUME NEW value \in Nat, NEW radix \in Nat \ {0}, NEW digit \in 0 .. radix - 1
  PROVE  /\ (value * radix + digit) \div radix = value
         /\ (value * radix + digit) % radix = digit
OBVIOUS

LEMMA JoinDigit ==
  ASSUME NEW value \in Nat, NEW radix \in Nat \ {0}
  PROVE  /\ value \div radix \in Nat /\ value % radix \in 0 .. radix - 1
         /\ (value \div radix) * radix + (value % radix) = value
OBVIOUS

LEMMA DigitsLeft ==
  ASSUME NEW value \in Nat, NEW radix \in Nat \ {0}, NEW bound \in Nat, value < radix * bound
  PROVE  value \div radix < bound
OBVIOUS

(* A property that each step keeps holds up to the last one. *)
LEMMA UpTo ==
  ASSUME NEW N \in Nat, NEW T, 0 \in T, \A n \in 1 .. N : n - 1 \in T => n \in T
  PROVE  0 .. N \subseteq T
<1> DEFINE S == {n \in Nat : n <= N => n \in T}
<1>1. 0 \in S
  OBVIOUS
<1>2. ASSUME NEW n \in Nat, n \in S PROVE n + 1 \in S
  <2>1. CASE n + 1 <= N
    <3>1. n \in T /\ n + 1 \in 1 .. N /\ (n + 1) - 1 = n
      BY <1>2, <2>1
    <3> QED BY <3>1
  <2>2. CASE ~(n + 1 <= N)
    BY <2>2
  <2> QED BY <2>1, <2>2
<1>3. Nat \subseteq S
  <2> HIDE DEF S
  <2> QED BY <1>1, <1>2, NatSets
<1> QED BY <1>3

(* The three recursions. *)
LEMMA PowerSteps ==
  /\ Power[0] = 1 /\ \A n \in 0 .. CODE_STR_WIDTH_DIGITS : Power[n] \in Nat
  /\ \A n \in 1 .. CODE_STR_WIDTH_DIGITS : Power[n] = RADIX * Power[n - 1]
<1> DEFINE N == CODE_STR_WIDTH_DIGITS
           step == [n \in 1 .. N |-> [v \in Nat |-> RADIX * v]]
           IsPower(g) == g = [n \in 0 .. N |-> IF n = 0 THEN 1 ELSE RADIX * g[n - 1]]
<1>0. N \in Nat /\ RADIX \in Nat /\ 1 \in Nat
  BY CodesAssumption
<1>1. step \in [1 .. N -> [Nat -> Nat]]
  BY <1>0
<1>2. PICK f \in [0 .. N -> Nat] : f[0] = 1 /\ \A n \in 1 .. N : f[n] = step[n][f[n - 1]]
  <2> HIDE DEF step, N
  <2> QED BY <1>0, <1>1, StepByStep
<1>3. ASSUME NEW n \in 1 .. N PROVE f[n] = RADIX * f[n - 1]
  <2>1. n - 1 \in 0 .. N /\ f[n - 1] \in Nat
    BY <1>0
  <2>2. step[n] = [v \in Nat |-> RADIX * v]
    OBVIOUS
  <2> QED BY <1>2, <2>1, <2>2
<1>4. \A n \in 0 .. N : f[n] = IF n = 0 THEN 1 ELSE RADIX * f[n - 1]
  BY <1>0, <1>2, <1>3
<1>5. IsPower(f)
  BY <1>4
<1>6. IsPower(Power)
  BY <1>5, Zenon DEF Power
<1>7. Power[0] = 1 /\ \A n \in 1 .. N : Power[n] = RADIX * Power[n - 1]
  BY <1>0, <1>6
<1>8. 0 .. N \subseteq {n \in 0 .. N : Power[n] \in Nat}
  <2> DEFINE T == {n \in 0 .. N : Power[n] \in Nat}
  <2>1. 0 \in T
    BY <1>0, <1>7
  <2>2. \A n \in 1 .. N : n - 1 \in T => n \in T
    BY <1>0, <1>7
  <2> HIDE DEF T
  <2>3. 0 .. N \subseteq T
    BY <1>0, <2>1, <2>2, UpTo
  <2> QED BY <2>3 DEF T
<1> QED BY <1>7, <1>8

LEMMA FormatSteps ==
  ASSUME NEW code \in Nat
  PROVE  \E rest \in [0 .. CODE_STR_WIDTH_DIGITS -> Nat] :
           /\ rest[0] = code
           /\ \A n \in 1 .. CODE_STR_WIDTH_DIGITS : rest[n] = rest[n - 1] \div RADIX
           /\ FormatCode(code) = [i \in 1 .. CODE_STR_WIDTH_DIGITS |->
                                    rest[CODE_STR_WIDTH_DIGITS - i] % RADIX]
<1> DEFINE N == CODE_STR_WIDTH_DIGITS
           step == [n \in 1 .. N |-> [v \in Nat |-> v \div RADIX]]
           IsRest(g) == g = [n \in 0 .. N |-> IF n = 0 THEN code ELSE g[n - 1] \div RADIX]
           rest[n \in 0 .. N] == IF n = 0 THEN code ELSE rest[n - 1] \div RADIX
<1>0. N \in Nat /\ RADIX \in Nat \ {0}
  BY CodesAssumption
<1>1. step \in [1 .. N -> [Nat -> Nat]]
  BY <1>0
<1>2. PICK f \in [0 .. N -> Nat] : f[0] = code /\ \A n \in 1 .. N : f[n] = step[n][f[n - 1]]
  <2> HIDE DEF step, N
  <2> QED BY <1>0, <1>1, StepByStep
<1>3. ASSUME NEW n \in 1 .. N PROVE f[n] = f[n - 1] \div RADIX
  <2>1. n - 1 \in 0 .. N /\ f[n - 1] \in Nat
    BY <1>0
  <2>2. step[n] = [v \in Nat |-> v \div RADIX]
    OBVIOUS
  <2> QED BY <1>2, <2>1, <2>2
<1>4. \A n \in 0 .. N : f[n] = IF n = 0 THEN code ELSE f[n - 1] \div RADIX
  BY <1>0, <1>2, <1>3
<1>5. IsRest(f)
  BY <1>4
<1>6. IsRest(rest)
  BY <1>5, Zenon
<1>7. FormatCode(code) = [i \in 1 .. N |-> rest[N - i] % RADIX]
  BY DEF FormatCode
<1> HIDE DEF rest
<1>8. rest[0] = code /\ \A n \in 1 .. N : rest[n] = rest[n - 1] \div RADIX
  BY <1>0, <1>6
<1>9. \A n \in 0 .. N : rest[n] \in Nat
  <2> DEFINE T == {n \in 0 .. N : rest[n] \in Nat}
  <2>1. 0 \in T
    BY <1>0, <1>8
  <2>2. ASSUME NEW n \in 1 .. N, n - 1 \in T PROVE n \in T
    <3>1. rest[n - 1] \in Nat
      BY <2>2
    <3>2. rest[n - 1] \div RADIX \in Nat
      BY <1>0, <3>1, JoinDigit
    <3>3. rest[n] \in Nat
      BY <1>8, <3>2
    <3> QED BY <1>0, <3>3
  <2> HIDE DEF T
  <2>3. 0 .. N \subseteq T
    BY <1>0, <2>1, <2>2, UpTo
  <2> QED BY <2>3 DEF T
<1>10. rest \in [0 .. N -> Nat]
  BY <1>6, <1>9
<1> QED BY <1>7, <1>8, <1>10

LEMMA ValueSteps ==
  ASSUME NEW string \in Seq(Int), IsDecimal(string)
  PROVE  \E value \in [0 .. CODE_STR_WIDTH_DIGITS -> Nat] :
           /\ value[0] = 0
           /\ \A n \in 1 .. CODE_STR_WIDTH_DIGITS : value[n] = value[n - 1] * RADIX + string[n]
           /\ Value(string) = value[CODE_STR_WIDTH_DIGITS]
<1> DEFINE N == CODE_STR_WIDTH_DIGITS
           step == [n \in 1 .. N |-> [v \in Nat |-> v * RADIX + string[n]]]
           IsValue(g) == g = [n \in 0 .. N |-> IF n = 0 THEN 0 ELSE g[n - 1] * RADIX + string[n]]
           value[n \in 0 .. N] == IF n = 0 THEN 0 ELSE value[n - 1] * RADIX + string[n]
<1>0. N \in Nat /\ RADIX \in Nat /\ 0 \in Nat
  BY CodesAssumption
<1>d. Len(string) = N /\ \A n \in 1 .. N : string[n] \in Nat
  <2>1. Len(string) = N /\ DOMAIN string = 1 .. N
    BY DEF IsDecimal
  <2> QED BY <1>0, <2>1 DEF IsDecimal, Digits
<1>1. step \in [1 .. N -> [Nat -> Nat]]
  BY <1>0, <1>d
<1>2. PICK f \in [0 .. N -> Nat] : f[0] = 0 /\ \A n \in 1 .. N : f[n] = step[n][f[n - 1]]
  <2> HIDE DEF step, N
  <2> QED BY <1>0, <1>1, StepByStep
<1>3. ASSUME NEW n \in 1 .. N PROVE f[n] = f[n - 1] * RADIX + string[n]
  <2>1. n - 1 \in 0 .. N /\ f[n - 1] \in Nat
    BY <1>0
  <2>2. step[n] = [v \in Nat |-> v * RADIX + string[n]]
    OBVIOUS
  <2> QED BY <1>2, <2>1, <2>2
<1>4. \A n \in 0 .. N : f[n] = IF n = 0 THEN 0 ELSE f[n - 1] * RADIX + string[n]
  BY <1>0, <1>2, <1>3
<1>5. IsValue(f)
  BY <1>4
<1>6. IsValue(value)
  BY <1>5, Zenon
<1>7. Value(string) = value[N]
  BY <1>d, Zenon DEF Value
<1> HIDE DEF value
<1>8. value[0] = 0 /\ \A n \in 1 .. N : value[n] = value[n - 1] * RADIX + string[n]
  BY <1>0, <1>6
<1>9. \A n \in 0 .. N : value[n] \in Nat
  <2> DEFINE T == {n \in 0 .. N : value[n] \in Nat}
  <2>1. 0 \in T
    BY <1>0, <1>8
  <2>2. ASSUME NEW n \in 1 .. N, n - 1 \in T PROVE n \in T
    <3>1. value[n - 1] \in Nat /\ string[n] \in Nat
      BY <1>d, <2>2
    <3>2. value[n - 1] * RADIX + string[n] \in Nat
      BY <1>0, <3>1, NextDigit
    <3>3. value[n] \in Nat
      BY <1>8, <3>2
    <3> QED BY <1>0, <3>3
  <2> HIDE DEF T
  <2>3. 0 .. N \subseteq T
    BY <1>0, <2>1, <2>2, UpTo
  <2> QED BY <2>3 DEF T
<1>10. value \in [0 .. N -> Nat]
  BY <1>6, <1>9
<1> QED BY <1>7, <1>8, <1>10

(* A string of digits is printed again as it was parsed. *)
LEMMA FormatOfValue ==
  ASSUME NEW string \in Seq(Int), IsDecimal(string)
  PROVE  Value(string) \in Nat /\ FormatCode(Value(string)) = string
<1> DEFINE N == CODE_STR_WIDTH_DIGITS
<1>0. N \in Nat /\ RADIX \in Nat \ {0}
  BY CodesAssumption
<1>1. string = [i \in 1 .. N |-> string[i]] /\ \A i \in 1 .. N : string[i] \in 0 .. RADIX - 1
  <2>1. Len(string) = N /\ DOMAIN string = 1 .. N
    BY DEF IsDecimal
  <2> QED BY <2>1 DEF IsDecimal, Digits
<1>2. PICK value \in [0 .. N -> Nat] :
        /\ value[0] = 0 /\ \A n \in 1 .. N : value[n] = value[n - 1] * RADIX + string[n]
        /\ Value(string) = value[N]
  BY ValueSteps
<1>3. value[N] \in Nat
  BY <1>0
<1>4. PICK rest \in [0 .. N -> Nat] :
        /\ rest[0] = value[N] /\ \A n \in 1 .. N : rest[n] = rest[n - 1] \div RADIX
        /\ FormatCode(value[N]) = [i \in 1 .. N |-> rest[N - i] % RADIX]
  BY <1>3, FormatSteps
<1>5. ASSUME NEW n \in 1 .. N
      PROVE  value[n] \div RADIX = value[n - 1] /\ value[n] % RADIX = string[n]
  <2>1. n - 1 \in 0 .. N /\ value[n - 1] \in Nat /\ string[n] \in 0 .. RADIX - 1
    BY <1>0, <1>1
  <2>2. value[n] = value[n - 1] * RADIX + string[n]
    BY <1>2
  <2>3. /\ (value[n - 1] * RADIX + string[n]) \div RADIX = value[n - 1]
        /\ (value[n - 1] * RADIX + string[n]) % RADIX = string[n]
    BY <1>0, <2>1, SplitDigit
  <2> QED BY <2>2, <2>3
<1>6. \A n \in 0 .. N : rest[n] = value[N - n]
  <2> DEFINE T == {n \in 0 .. N : rest[n] = value[N - n]}
  <2>1. 0 \in T
    BY <1>0, <1>4
  <2>2. ASSUME NEW n \in 1 .. N, n - 1 \in T PROVE n \in T
    <3>1. rest[n - 1] = value[N - (n - 1)]
      BY <2>2
    <3>2. N - (n - 1) \in 1 .. N /\ (N - (n - 1)) - 1 = N - n /\ n \in 0 .. N
      BY <1>0
    <3>3. rest[n] = value[N - (n - 1)] \div RADIX
      BY <1>4, <3>1
    <3>4. value[N - (n - 1)] \div RADIX = value[N - n]
      BY <1>5, <3>2
    <3> QED BY <3>2, <3>3, <3>4
  <2> HIDE DEF T
  <2>3. 0 .. N \subseteq T
    BY <1>0, <2>1, <2>2, UpTo
  <2> QED BY <2>3 DEF T
<1>7. ASSUME NEW i \in 1 .. N PROVE rest[N - i] % RADIX = string[i]
  <2>1. N - i \in 0 .. N /\ N - (N - i) = i
    BY <1>0
  <2>2. rest[N - i] = value[i]
    BY <1>6, <2>1
  <2> QED BY <1>5, <2>2
<1>8. [i \in 1 .. N |-> rest[N - i] % RADIX] = [i \in 1 .. N |-> string[i]]
  BY <1>7
<1> QED BY <1>1, <1>2, <1>3, <1>4, <1>8

(* A number that has no more digits is parsed again as it was printed. *)
LEMMA ValueOfFormat ==
  ASSUME NEW code \in Nat, code < Power[CODE_STR_WIDTH_DIGITS]
  PROVE  /\ FormatCode(code) \in Seq(Int) /\ IsDecimal(FormatCode(code))
         /\ Value(FormatCode(code)) = code
<1> DEFINE N == CODE_STR_WIDTH_DIGITS
           string == FormatCode(code)
<1>0. N \in Nat /\ RADIX \in Nat \ {0}
  BY CodesAssumption
<1>1. PICK rest \in [0 .. N -> Nat] :
        /\ rest[0] = code /\ \A n \in 1 .. N : rest[n] = rest[n - 1] \div RADIX
        /\ string = [i \in 1 .. N |-> rest[N - i] % RADIX]
  BY FormatSteps
<1>2. \A i \in 1 .. N : string[i] = rest[N - i] % RADIX /\ string[i] \in 0 .. RADIX - 1
  <2> SUFFICES ASSUME NEW i \in 1 .. N
               PROVE  string[i] = rest[N - i] % RADIX /\ string[i] \in 0 .. RADIX - 1
    OBVIOUS
  <2>1. N - i \in 0 .. N /\ rest[N - i] \in Nat
    BY <1>0
  <2>2. rest[N - i] % RADIX \in 0 .. RADIX - 1
    BY <1>0, <2>1, JoinDigit
  <2> QED BY <1>1, <2>2
<1>3. string \in Seq(Int) /\ Len(string) = N /\ DOMAIN string = 1 .. N
  BY <1>0, <1>1, <1>2
<1> HIDE DEF string
<1>4. IsDecimal(string)
  BY <1>2, <1>3 DEF IsDecimal, Digits
<1>5. \A n \in 0 .. N : rest[n] < Power[N - n]
  <2> DEFINE T == {n \in 0 .. N : rest[n] < Power[N - n]}
  <2>1. 0 \in T
    BY <1>0, <1>1
  <2>2. ASSUME NEW n \in 1 .. N, n - 1 \in T PROVE n \in T
    <3>1. rest[n - 1] < Power[N - (n - 1)] /\ rest[n - 1] \in Nat
      BY <1>0, <2>2
    <3>2. /\ N - (n - 1) \in 1 .. N /\ (N - (n - 1)) - 1 = N - n
          /\ n \in 0 .. N /\ N - n \in 0 .. N
      BY <1>0
    <3>3. Power[N - (n - 1)] = RADIX * Power[N - n] /\ Power[N - n] \in Nat
      BY <3>2, PowerSteps
    <3>4. rest[n - 1] \div RADIX < Power[N - n]
      BY <1>0, <3>1, <3>3, DigitsLeft
    <3>5. rest[n] = rest[n - 1] \div RADIX
      BY <1>1
    <3> QED BY <3>2, <3>4, <3>5
  <2> HIDE DEF T
  <2>3. 0 .. N \subseteq T
    BY <1>0, <2>1, <2>2, UpTo
  <2> QED BY <2>3 DEF T
<1>6. rest[N] = 0
  <2>1. rest[N] < Power[0] /\ rest[N] \in Nat
    BY <1>0, <1>5
  <2> QED BY <2>1, PowerSteps
<1>7. PICK value \in [0 .. N -> Nat] :
        /\ value[0] = 0 /\ \A n \in 1 .. N : value[n] = value[n - 1] * RADIX + string[n]
        /\ Value(string) = value[N]
  BY <1>3, <1>4, ValueSteps
<1>8. \A n \in 0 .. N : value[n] = rest[N - n]
  <2> DEFINE T == {n \in 0 .. N : value[n] = rest[N - n]}
  <2>1. 0 \in T
    BY <1>0, <1>6, <1>7
  <2>2. ASSUME NEW n \in 1 .. N, n - 1 \in T PROVE n \in T
    <3>1. value[n - 1] = rest[N - (n - 1)]
      BY <2>2
    <3>2. /\ N - (n - 1) \in 1 .. N /\ (N - (n - 1)) - 1 = N - n
          /\ n \in 0 .. N /\ N - n \in 0 .. N /\ rest[N - n] \in Nat
      BY <1>0
    <3>3. rest[N - (n - 1)] = rest[N - n] \div RADIX
      BY <1>1, <3>2
    <3>4. string[n] = rest[N - n] % RADIX
      BY <1>2
    <3>5. value[n] = (rest[N - n] \div RADIX) * RADIX + (rest[N - n] % RADIX)
      BY <1>7, <3>1, <3>3, <3>4
    <3>6. value[n] = rest[N - n]
      BY <1>0, <3>2, <3>5, JoinDigit
    <3> QED BY <3>2, <3>6
  <2> HIDE DEF T
  <2>3. 0 .. N \subseteq T
    BY <1>0, <2>1, <2>2, UpTo
  <2> QED BY <2>3 DEF T
<1>9. value[N] = rest[0]
  BY <1>0, <1>8
<1> QED BY <1>1, <1>3, <1>4, <1>7, <1>9 DEF string

-----------------------------------------------------------------------------
(* The bits of a code. *)

LEMMA Product ==
  ASSUME NEW a \in Nat \ {0}, NEW b \in Nat \ {0}
  PROVE  a * b \in Nat \ {0}
OBVIOUS

LEMMA JoinedIsBelow ==
  ASSUME NEW high \in Nat, NEW width \in Nat \ {0}, NEW low \in 0 .. width - 1,
         NEW bound \in Nat, high < bound
  PROVE  high * width + low \in 0 .. bound * width - 1
<1>1. (high + 1) * width <= bound * width
  OBVIOUS
<1> QED BY <1>1

LEMMA CodeType ==
  ASSUME NEW code \in Nat
  PROVE  PeriodOf(code) \in EpcPeriod /\ CounterOf(code) \in EpcCounter
<1>1. COUNTERS * SIGNS \in Nat \ {0} /\ SIGNS \in Nat \ {0}
  BY CodesAssumption, Product
<1>2. code \div (COUNTERS * SIGNS) \in Nat /\ code \div SIGNS \in Nat
  BY <1>1, JoinDigit
<1> QED BY <1>2, CodesAssumption, JoinDigit DEF PeriodOf, CounterOf, EpcPeriod, EpcCounter

LEMMA SignType ==
  ASSUME NEW period \in EpcPeriod, NEW counter \in EpcCounter
  PROVE  Sign(period, counter) \in 0 .. SIGNS - 1
<1>1. Hmac[period, counter] \in Nat
  BY CodesAssumption DEF EpcPeriod, EpcCounter
<1> QED BY <1>1, CodesAssumption, JoinDigit DEF Sign

(* What was packed is found again. *)
LEMMA PackedFields ==
  ASSUME NEW period \in EpcPeriod, NEW counter \in EpcCounter, NEW sign \in 0 .. SIGNS - 1
  PROVE  /\ Pack(period, counter, sign) \in 0 .. CODE_VALUES - 1
         /\ PeriodOf(Pack(period, counter, sign)) = period
         /\ CounterOf(Pack(period, counter, sign)) = counter
<1> DEFINE low == counter * SIGNS + sign
           high == period * COUNTERS + counter
           code == Pack(period, counter, sign)
<1>0. /\ PERIODS \in Nat \ {0} /\ COUNTERS \in Nat \ {0} /\ SIGNS \in Nat \ {0}
      /\ COUNTERS * SIGNS \in Nat \ {0}
  BY CodesAssumption, Product
<1>1. period \in Nat /\ period < PERIODS /\ counter \in Nat /\ counter < COUNTERS /\ sign \in Nat
  BY <1>0 DEF EpcPeriod, EpcCounter
<1>2. low \in 0 .. COUNTERS * SIGNS - 1
  BY <1>0, <1>1, JoinedIsBelow
<1>3. code = period * (COUNTERS * SIGNS) + low
  BY <1>0, <1>1 DEF Pack
<1>4. code = high * SIGNS + sign /\ high \in Nat
  BY <1>0, <1>1 DEF Pack
<1> HIDE DEF code, low, high
<1>5. code \in 0 .. PERIODS * (COUNTERS * SIGNS) - 1
  BY <1>0, <1>1, <1>2, <1>3, JoinedIsBelow
<1>6. PERIODS * (COUNTERS * SIGNS) = CODE_VALUES
  BY <1>0 DEF CODE_VALUES
<1>7. code \div (COUNTERS * SIGNS) = period
  BY <1>0, <1>1, <1>2, <1>3, SplitDigit
<1>8. code \div SIGNS = high
  BY <1>0, <1>4, SplitDigit
<1>9. high % COUNTERS = counter
  BY <1>0, <1>1, SplitDigit DEF high, EpcCounter
<1>10. period % PERIODS = period
  BY <1>0, <1>1
<1> QED BY <1>5, <1>6, <1>7, <1>8, <1>9, <1>10 DEF code, PeriodOf, CounterOf

LEMMA CalculatedFields ==
  ASSUME NEW period \in EpcPeriod, NEW counter \in EpcCounter
  PROVE  /\ CalculateCode(period, counter) \in 0 .. CODE_VALUES - 1
         /\ PeriodOf(CalculateCode(period, counter)) = period
         /\ CounterOf(CalculateCode(period, counter)) = counter
BY PackedFields, SignType DEF CalculateCode

LEMMA ValidCodes ==
  /\ CODE_VALUES \in Nat \ {0} /\ Power[CODE_STR_WIDTH_DIGITS] \in Nat
  /\ CODE_VALUES <= Power[CODE_STR_WIDTH_DIGITS]
  /\ \A code \in 0 .. CODE_VALUES - 1 : CodeValidate(code)
<1>1. CODE_VALUES \in Nat \ {0}
  BY CodesAssumption, Product DEF CODE_VALUES
<1>2. Power[CODE_STR_WIDTH_DIGITS] \in Nat
  BY CodesAssumption, PowerSteps
<1>3. CODE_VALUES <= Power[CODE_STR_WIDTH_DIGITS]
  BY CodesAssumption DEF CODE_VALUES
<1>4. ASSUME NEW code \in 0 .. CODE_VALUES - 1 PROVE CodeValidate(code)
  <2>1. code \div CODE_VALUES = 0
    BY <1>1
  <2> QED BY <1>1, <1>2, <1>3, <2>1 DEF CodeValidate
<1> QED BY <1>1, <1>2, <1>3, <1>4

(* The parser and the verification let through the codes that were issued  *)
(* and nothing else, whatever the digests are.                             *)
THEOREM VerifiedIsIssued ==
  \A string \in Seq(Int) :
    CanParse(string) /\ VerifyCode(Value(string)) <=> string \in IssuedCodes
<1> SUFFICES ASSUME NEW string \in Seq(Int)
             PROVE  CanParse(string) /\ VerifyCode(Value(string)) <=> string \in IssuedCodes
  OBVIOUS
<1>1. ASSUME CanParse(string), VerifyCode(Value(string)) PROVE string \in IssuedCodes
  <2> DEFINE period == PeriodOf(Value(string))
             counter == CounterOf(Value(string))
  <2>1. Value(string) \in Nat /\ FormatCode(Value(string)) = string
    BY <1>1, FormatOfValue DEF CanParse
  <2>2. counter \in EpcCounter
    BY <2>1, CodeType
  <2>3. period \in Periods /\ ValidateKey /\ CalculateCode(period, counter) = Value(string)
    BY <1>1 DEF VerifyCode, CanCalculate, PeriodValidate
  <2>4. string = FormatCode(CalculateCode(period, counter))
    BY <2>1, <2>3
  <2> QED BY <2>2, <2>3, <2>4 DEF IssuedCodes
<1>2. ASSUME string \in IssuedCodes PROVE CanParse(string) /\ VerifyCode(Value(string))
  <2>1. PICK period \in Periods, counter \in EpcCounter :
          string = FormatCode(CalculateCode(period, counter))
    BY <1>2 DEF IssuedCodes
  <2>2. ValidateKey /\ period \in EpcPeriod
    BY <1>2, CodesAssumption DEF IssuedCodes, EpcPeriod
  <2> DEFINE code == CalculateCode(period, counter)
  <2>3. code \in 0 .. CODE_VALUES - 1 /\ PeriodOf(code) = period /\ CounterOf(code) = counter
    BY <2>2, CalculatedFields
  <2> HIDE DEF code
  <2>4. code \in Nat /\ code < Power[CODE_STR_WIDTH_DIGITS] /\ CodeValidate(code)
    BY <2>3, ValidCodes
  <2>5. IsDecimal(string) /\ Value(string) = code
    BY <2>1, <2>4, ValueOfFormat DEF code
  <2>6. CanParse(string)
    BY <2>3, <2>4, <2>5, ValidCodes DEF CanParse
  <2>7. CalculateCode(PeriodOf(code), CounterOf(code)) = code
    BY <2>3 DEF code
  <2> QED BY <2>2, <2>3, <2>4, <2>5, <2>6, <2>7 DEF VerifyCode, CanCalculate, PeriodValidate
<1> QED BY <1>1, <1>2

-----------------------------------------------------------------------------
(* The rate limit.                                                         *)

USE DEF Attempts

(* The history is in order and ends at the present, and the wrong codes    *)
(* that were looked at are among the attempts it holds.                    *)
IInv ==
  /\ TypeOK
  /\ \A i \in Attempts : history[i] <= nowSecs
  /\ \A i, j \in Attempts : i <= j => history[j] <= history[i]
  /\ \A i \in Attempts : checked[i] <= history[i]

LEMMA PeriodStartAfterWrap ==
  ASSUME NEW now \in 0 .. MaxBoottime, now > RATE_LIMITING_TIME_PERIOD_SECS
  PROVE  PeriodStart(now) = now - RATE_LIMITING_TIME_PERIOD_SECS
BY RateLimitAssumption, RateLimiterAssumption DEF PeriodStart

(* The limit is in force exactly when every attempt of the history is in   *)
(* the sliding window.                                                     *)
LEMMA LimitedWhenAllRecent ==
  ASSUME NEW h \in [Attempts -> Nat], NEW now \in Nat
  PROVE  IsRateLimited(h, now) <=> \A i \in Attempts : h[i] >= PeriodStart(now)
<1> DEFINE Recent == {i \in Attempts : h[i] >= PeriodStart(now)}
<1>1. IsFiniteSet(Attempts) /\ Cardinality(Attempts) = RATE_LIMITING_N_ATTEMPTS
  BY RateLimitAssumption, FS_Interval
<1>2. /\ Cardinality(Recent) \in Nat /\ Cardinality(Recent) <= Cardinality(Attempts)
      /\ Cardinality(Recent) = Cardinality(Attempts) => Recent = Attempts
  BY <1>1, FS_Subset, FS_CardinalityType
<1>3. IsRateLimited(h, now) <=> Cardinality(Recent) >= RATE_LIMITING_N_ATTEMPTS
  BY DEF IsRateLimited
<1>4. Recent = Attempts <=> \A i \in Attempts : h[i] >= PeriodStart(now)
  OBVIOUS
<1> HIDE DEF Recent
<1>5. Recent = Attempts => Cardinality(Recent) = RATE_LIMITING_N_ATTEMPTS
  BY <1>1
<1>6. Cardinality(Recent) >= RATE_LIMITING_N_ATTEMPTS => Recent = Attempts
  BY <1>1, <1>2, RateLimitAssumption
<1>7. RATE_LIMITING_N_ATTEMPTS >= RATE_LIMITING_N_ATTEMPTS
  BY RateLimitAssumption
<1> QED BY <1>3, <1>4, <1>5, <1>6, <1>7

(* In an ordered history that is when the oldest attempt is. *)
LEMMA LimitedByOldest ==
  ASSUME IInv, nowSecs > RATE_LIMITING_TIME_PERIOD_SECS
  PROVE  IsRateLimited(history, nowSecs) <=>
           history[RATE_LIMITING_N_ATTEMPTS] >= nowSecs - RATE_LIMITING_TIME_PERIOD_SECS
<1>1. history \in [Attempts -> Nat] /\ nowSecs \in Nat
  BY RateLimiterAssumption DEF IInv, TypeOK
<1>2. PeriodStart(nowSecs) = nowSecs - RATE_LIMITING_TIME_PERIOD_SECS
  BY PeriodStartAfterWrap DEF IInv, TypeOK
<1>3. \A i \in Attempts : history[RATE_LIMITING_N_ATTEMPTS] <= history[i]
  BY RateLimitAssumption DEF IInv
<1> QED BY <1>1, <1>2, <1>3, LimitedWhenAllRecent, RateLimitAssumption

LEMMA PushedIsOrdered ==
  ASSUME IInv
  PROVE  LET pushed == PushAttempt(history, nowSecs)
         IN  /\ pushed \in [Attempts -> 0 .. MaxBoottime]
             /\ \A i \in Attempts : pushed[i] <= nowSecs
             /\ \A i, j \in Attempts : i <= j => pushed[j] <= pushed[i]
             /\ \A i \in Attempts : checked[i] <= pushed[i]
             /\ \A i \in Attempts : PushAttempt(checked, nowSecs)[i] <= pushed[i]
             /\ PushAttempt(checked, nowSecs) \in [Attempts -> 0 .. MaxBoottime]
<1> DEFINE pushed == PushAttempt(history, nowSecs)
<1>1. \A i \in Attempts : i = 1 \/ i - 1 \in Attempts
  BY RateLimitAssumption
<1>2. \A i \in Attempts : pushed[i] = IF i = 1 THEN nowSecs ELSE history[i - 1]
  BY DEF PushAttempt
<1>3. \A i \in Attempts :
        PushAttempt(checked, nowSecs)[i] = IF i = 1 THEN nowSecs ELSE checked[i - 1]
  BY DEF PushAttempt
<1>4. \A i \in Attempts : pushed[i] \in 0 .. MaxBoottime /\ pushed[i] <= nowSecs
  BY <1>1, <1>2, RateLimiterAssumption DEF IInv, TypeOK
<1>5. \A i \in Attempts : PushAttempt(checked, nowSecs)[i] \in 0 .. MaxBoottime
  BY <1>1, <1>3 DEF IInv, TypeOK
<1>6. ASSUME NEW i \in Attempts, NEW j \in Attempts, i <= j
      PROVE  pushed[j] <= pushed[i]
  <2>1. CASE i = 1
    BY <1>2, <1>4, <2>1
  <2>2. CASE i # 1
    <3>1. j # 1 /\ i - 1 \in Attempts /\ j - 1 \in Attempts /\ i - 1 <= j - 1
      BY <1>1, <1>6, <2>2
    <3>2. history[j - 1] <= history[i - 1]
      BY <3>1 DEF IInv
    <3> QED BY <1>2, <2>2, <3>1, <3>2
  <2> QED BY <2>1, <2>2
<1>7. ASSUME NEW i \in Attempts
      PROVE  checked[i] <= pushed[i] /\ PushAttempt(checked, nowSecs)[i] <= pushed[i]
  <2>0. checked[i] \in Nat /\ history[i] \in Nat /\ nowSecs \in Nat
        /\ checked[i] <= history[i] /\ history[i] <= nowSecs
    BY DEF IInv, TypeOK
  <2>1. CASE i = 1
    BY <1>2, <1>3, <2>0, <2>1
  <2>2. CASE i # 1
    <3>1. i - 1 \in Attempts /\ i - 1 <= i
      BY <1>1, <2>2
    <3>2. history[i] <= history[i - 1] /\ checked[i - 1] <= history[i - 1]
          /\ history[i - 1] \in Nat
      BY <3>1 DEF IInv, TypeOK
    <3> QED BY <1>2, <1>3, <2>0, <2>2, <3>2
  <2> QED BY <2>1, <2>2
<1>8. /\ pushed \in [Attempts -> 0 .. MaxBoottime]
      /\ PushAttempt(checked, nowSecs) \in [Attempts -> 0 .. MaxBoottime]
  BY <1>4, <1>5 DEF PushAttempt
<1> HIDE DEF pushed
<1> QED BY <1>4, <1>6, <1>7, <1>8 DEF pushed

LEMMA InitIInv == Init => IInv
BY RateLimiterAssumption DEF Init, IInv, TypeOK, ClearedHistory

LEMMA NextIInv == IInv /\ [Next]_vars => IInv'
<1> SUFFICES ASSUME IInv, [Next]_vars PROVE IInv'
  OBVIOUS
<1>1. CASE UNCHANGED vars
  BY <1>1 DEF IInv, TypeOK, vars
<1>2. CASE Tick
  BY <1>2, RateLimitAssumption, RateLimiterAssumption DEF Tick, IInv, TypeOK
<1>3. CASE TooManyAttempts
  BY <1>3, PushedIsOrdered DEF TooManyAttempts, IInv, TypeOK
<1>4. CASE WrongCode
  BY <1>4, PushedIsOrdered DEF WrongCode, IInv, TypeOK
<1>5. CASE RightCode
  BY <1>5, RateLimiterAssumption DEF RightCode, IInv, TypeOK, ClearedHistory
<1> QED BY <1>1, <1>2, <1>3, <1>4, <1>5 DEF Next

LEMMA StepIsSpaced == IInv => SpacedAttempts
<1> SUFFICES ASSUME IInv, WrongCode, nowSecs > RATE_LIMITING_TIME_PERIOD_SECS,
                    checked[RATE_LIMITING_N_ATTEMPTS] > 0
             PROVE  nowSecs > checked[RATE_LIMITING_N_ATTEMPTS] + RATE_LIMITING_TIME_PERIOD_SECS
  BY DEF SpacedAttempts
<1>1. RATE_LIMITING_N_ATTEMPTS \in Attempts
  BY RateLimitAssumption
<1>2. ~(history[RATE_LIMITING_N_ATTEMPTS] >= nowSecs - RATE_LIMITING_TIME_PERIOD_SECS)
  BY LimitedByOldest DEF WrongCode
<1>3. /\ checked[RATE_LIMITING_N_ATTEMPTS] <= history[RATE_LIMITING_N_ATTEMPTS]
      /\ checked[RATE_LIMITING_N_ATTEMPTS] \in Nat
      /\ history[RATE_LIMITING_N_ATTEMPTS] \in Nat /\ nowSecs \in Nat
  BY <1>1 DEF IInv, TypeOK
<1> QED BY <1>2, <1>3, RateLimitAssumption

LEMMA EndTimeFromIInv == IInv => EndTimeIsExact
<1> SUFFICES ASSUME IInv, nowSecs > RATE_LIMITING_TIME_PERIOD_SECS PROVE EndTimeIsExact
  BY DEF EndTimeIsExact
<1> DEFINE oldest == history[RATE_LIMITING_N_ATTEMPTS]
<1>1. oldest \in 0 .. MaxBoottime /\ nowSecs \in Nat
  BY RateLimitAssumption DEF IInv, TypeOK
<1>2. RateLimitEndTime(history) =
        IF oldest > 0 THEN oldest + RATE_LIMITING_TIME_PERIOD_SECS ELSE 0
  BY <1>1, RateLimitAssumption, RateLimiterAssumption DEF RateLimitEndTime
<1> QED
  BY <1>1, <1>2, LimitedByOldest, RateLimitAssumption, RateLimiterAssumption
  DEF EndTimeIsExact

(* Whenever the manager starts: as soon as the computer has been on for    *)
(* longer than the period, no wrong code is looked at that would be the    *)
(* RATE_LIMITING_N_ATTEMPTS + 1st of a period, attempts of the first half  *)
(* hour included, whatever other attempts are refused in between.          *)
THEOREM LimitHolds == Spec => LimitIsKept
<1>1. Init => IInv
  BY InitIInv
<1>2. IInv /\ [Next]_vars => [SpacedAttempts]_vars
  BY StepIsSpaced
<1>3. Spec => [][SpacedAttempts]_vars
  BY <1>1, <1>2, NextIInv, PTL DEF Spec
<1> QED BY <1>3 DEF LimitIsKept

(* From then on "rate-limit-end-time" is exactly the last second in which  *)
(* a call is refused for too many attempts: one second before the user can *)
(* try again, which the code's comments take it for.                       *)
THEOREM EndTimeHolds == Spec => []EndTimeIsExact
<1>1. Init => IInv
  BY InitIInv
<1> QED BY <1>1, NextIInv, EndTimeFromIInv, PTL DEF Spec

HIDE DEF Attempts
-----------------------------------------------------------------------------
(* The list of used codes, and the calls. *)

(* Each entry belongs before each later one. *)
InOrder(codes) ==
  \A i, j \in DOMAIN codes : i < j => UsedBefore(codes[i], codes[j])

Entries(codes) == {codes[i] : i \in DOMAIN codes}

(* The list holds what was accepted, in strict order. *)
EInv ==
  /\ EntryTypeOK
  /\ InOrder(usedCodes)
  /\ Entries(usedCodes) = Spent

LEMMA UsedBeforeIsTotal ==
  ASSUME NEW a \in UsedCodes, NEW b \in UsedCodes
  PROVE  /\ a = b \/ UsedBefore(a, b) \/ UsedBefore(b, a)
         /\ UsedBefore(a, b) => a # b
BY CodesAssumption DEF UsedCodes, UsedBefore, EpcCounter, EpcPeriod

(* Sorting keeps the entries; those of a list without repetitions are in   *)
(* strict order afterwards.                                                *)
LEMMA SortedCodes ==
  ASSUME NEW codes \in Seq(UsedCodes),
         \A i, j \in DOMAIN codes : codes[i] = codes[j] => i = j,
         NEW sorted \in Sorted(codes)
  PROVE  sorted \in Seq(UsedCodes) /\ InOrder(sorted) /\ Entries(sorted) = Entries(codes)
<1> DEFINE places == DOMAIN codes
<1>1. places = 1 .. Len(codes) /\ Len(codes) \in Nat
      /\ \A i \in places : codes[i] \in UsedCodes
  OBVIOUS
<1>2. PICK order \in Bijection(places, places) : sorted = [i \in places |-> codes[order[i]]]
  BY DEF Sorted
<1>3. \A i, j \in places : i < j => ~UsedBefore(sorted[j], sorted[i])
  BY DEF Sorted
<1>4. /\ \A i \in places : order[i] \in places
      /\ \A i, j \in places : order[i] = order[j] => i = j
      /\ \A k \in places : \E i \in places : order[i] = k
  BY DEF Bijection, Injection, Surjection, IsInjective
<1>5. DOMAIN sorted = places /\ \A i \in places : sorted[i] = codes[order[i]]
  BY <1>2
<1>6. sorted \in Seq(UsedCodes)
  BY <1>1, <1>2, <1>4
<1> HIDE DEF places
<1>7. Entries(sorted) = Entries(codes)
  <2>1. ASSUME NEW i \in places PROVE sorted[i] \in Entries(codes)
    BY <1>4, <1>5 DEF Entries, places
  <2>2. ASSUME NEW k \in places PROVE codes[k] \in Entries(sorted)
    <3>1. PICK i \in places : order[i] = k
      BY <1>4
    <3>2. codes[k] = sorted[i] /\ i \in DOMAIN sorted
      BY <1>5, <3>1
    <3> QED BY <3>2 DEF Entries
  <2>3. Entries(sorted) \subseteq Entries(codes)
    BY <1>5, <2>1 DEF Entries
  <2>4. Entries(codes) \subseteq Entries(sorted)
    BY <2>2 DEF Entries, places
  <2> QED BY <2>3, <2>4
<1>8. ASSUME NEW i \in places, NEW j \in places, i < j
      PROVE  UsedBefore(sorted[i], sorted[j])
  <2>1. i # j
    BY <1>1, <1>8
  <2>2. sorted[i] # sorted[j]
    <3>1. order[i] \in places /\ order[j] \in places /\ order[i] # order[j]
      BY <1>4, <2>1
    <3>2. codes[order[i]] # codes[order[j]]
      BY <3>1, Zenon DEF places
    <3> QED BY <1>5, <3>2
  <2>3. sorted[i] \in UsedCodes /\ sorted[j] \in UsedCodes
    BY <1>1, <1>4, <1>5
  <2> QED BY <1>3, <1>8, <2>2, <2>3, UsedBeforeIsTotal
<1>9. InOrder(sorted)
  BY <1>5, <1>8 DEF InOrder
<1> QED BY <1>6, <1>7, <1>9

(* What the rate limit's own steps do to its types, however long the       *)
(* computer has been on.                                                   *)
LEMMA RateLimiterTypes == TypeOK /\ [Next]_vars => TypeOK'
<1> SUFFICES ASSUME TypeOK, [Next]_vars PROVE TypeOK'
  OBVIOUS
<1>1. ASSUME NEW h \in [Attempts -> 0 .. MaxBoottime]
      PROVE  PushAttempt(h, nowSecs) \in [Attempts -> 0 .. MaxBoottime]
  <2>1. \A i \in Attempts : i = 1 \/ i - 1 \in Attempts
    BY RateLimitAssumption DEF Attempts
  <2> QED BY <2>1 DEF PushAttempt, TypeOK
<1>2. ClearedHistory \in [Attempts -> 0 .. MaxBoottime]
  BY RateLimiterAssumption DEF ClearedHistory
<1>3. CASE UNCHANGED vars
  BY <1>3 DEF TypeOK, vars
<1>4. CASE Tick
  BY <1>4, RateLimiterAssumption DEF Tick, TypeOK
<1>5. CASE TooManyAttempts
  BY <1>1, <1>5 DEF TooManyAttempts, TypeOK
<1>6. CASE WrongCode
  BY <1>1, <1>6 DEF WrongCode, TypeOK
<1>7. CASE RightCode
  BY <1>2, <1>7 DEF RightCode, TypeOK
<1> QED BY <1>3, <1>4, <1>5, <1>6, <1>7 DEF Next

LEMMA EndTimeType ==
  ASSUME NEW h \in [Attempts -> 0 .. MaxBoottime]
  PROVE  RateLimitEndTime(h) \in 0 .. G_MAXUINT64
<1>1. h[RATE_LIMITING_N_ATTEMPTS] \in 0 .. MaxBoottime
  BY RateLimitAssumption DEF Attempts
<1>2. h[RATE_LIMITING_N_ATTEMPTS] + RATE_LIMITING_TIME_PERIOD_SECS \in Nat
  BY <1>1, RateLimitAssumption, RateLimiterAssumption
<1>3. G_MAXUINT64 + 1 \in Nat \ {0} /\ (G_MAXUINT64 + 1) - 1 = G_MAXUINT64
  BY RateLimitAssumption
<1>4. (h[RATE_LIMITING_N_ATTEMPTS] + RATE_LIMITING_TIME_PERIOD_SECS) % (G_MAXUINT64 + 1)
        \in 0 .. (G_MAXUINT64 + 1) - 1
  <2> DEFINE end == h[RATE_LIMITING_N_ATTEMPTS] + RATE_LIMITING_TIME_PERIOD_SECS
             width == G_MAXUINT64 + 1
  <2>1. end \in Nat /\ width \in Nat \ {0}
    BY <1>2, <1>3
  <2> HIDE DEF end, width
  <2>2. end % width \in 0 .. width - 1
    BY <2>1, JoinDigit
  <2> QED BY <2>2 DEF end, width
<1>5. 0 \in 0 .. G_MAXUINT64
  BY RateLimitAssumption
<1> QED BY <1>3, <1>4, <1>5 DEF RateLimitEndTime

LEMMA VerifiedType ==
  ASSUME NEW string \in VerifiedInputs
  PROVE  UsedCode(string) \in UsedCodes
<1>1. string \in Seq(Int) /\ IsDecimal(string)
  BY CodeEntryAssumption DEF VerifiedInputs, CanParse
<1>2. Value(string) \in Nat
  BY <1>1, FormatOfValue
<1> QED BY <1>2, CodeType DEF UsedCode, UsedCodes

(* What check_is_counter_unused() looks for. *)
LEMMA UnusedIsNotSpent ==
  ASSUME EInv, NEW string
  PROVE  IsCounterUnused(UsedCode(string)) <=> UsedCode(string) \notin Spent
<1> DEFINE code == UsedCode(string)
<1>1. \A i \in DOMAIN usedCodes : usedCodes[i] \in UsedCodes
  BY DEF EInv, EntryTypeOK
<1>2. ASSUME NEW i \in DOMAIN usedCodes
      PROVE  usedCodes[i] = code <=>
               usedCodes[i].counter = code.counter /\ usedCodes[i].period = code.period
  BY <1>1 DEF UsedCodes, UsedCode
<1> HIDE DEF code
<1>3. IsCounterUnused(code) <=> code \notin Entries(usedCodes)
  BY <1>2 DEF IsCounterUnused, Entries
<1> QED BY <1>3 DEF EInv, code

LEMMA EntryStepIsStep == [EntryNext]_entryVars => [Next]_vars
BY DEF EntryNext, EntryTick, Refuse, Reject, Accept, Next, entryVars, vars

LEMMA InitEInv == EntryInit => EInv
<1> SUFFICES ASSUME EntryInit PROVE EInv
  OBVIOUS
<1>1. TypeOK
  BY RateLimiterAssumption DEF EntryInit, Init, TypeOK, ClearedHistory
<1>2. usedCodes = <<>> /\ accepted = [code \in UsedCodes |-> 0] /\ announced = 0
  BY DEF EntryInit
<1>3. EntryTypeOK
  BY <1>1, <1>2, RateLimitAssumption DEF EntryTypeOK
<1>4. InOrder(usedCodes) /\ Entries(usedCodes) = {}
  BY <1>2 DEF InOrder, Entries
<1>5. Spent = {}
  BY <1>2 DEF Spent
<1> QED BY <1>3, <1>4, <1>5 DEF EInv

LEMMA NextEInv == EInv /\ [EntryNext]_entryVars => EInv'
<1> SUFFICES ASSUME EInv, [EntryNext]_entryVars PROVE EInv'
  OBVIOUS
<1>1. TypeOK'
  BY EntryStepIsStep, RateLimiterTypes DEF EInv, EntryTypeOK
<1>2. ASSUME UNCHANGED <<usedCodes, accepted>>, announced' \in 0 .. G_MAXUINT64
      PROVE  EInv'
  <2>1. Spent' = Spent
    BY <1>2 DEF Spent
  <2> QED BY <1>1, <1>2, <2>1 DEF EInv, EntryTypeOK, InOrder, Entries
<1>3. announced \in 0 .. G_MAXUINT64
  BY DEF EInv, EntryTypeOK
<1>4. CASE UNCHANGED entryVars
  BY <1>2, <1>3, <1>4 DEF entryVars
<1>5. CASE EntryTick
  BY <1>2, <1>3, <1>5 DEF EntryTick
<1>6. CASE Refuse
  <2>1. RateLimitEndTime(history') \in 0 .. G_MAXUINT64
    BY <1>1, EndTimeType DEF TypeOK
  <2> QED BY <1>2, <1>6, <2>1 DEF Refuse
<1>7. CASE Reject
  BY <1>2, <1>3, <1>7 DEF Reject
<1>8. ASSUME NEW string \in Inputs, Accept(string) PROVE EInv'
  <2> DEFINE code == UsedCode(string)
             codes == Append(usedCodes, code)
  <2>1. code \in UsedCodes /\ code \notin Spent
    BY <1>8, VerifiedType, UnusedIsNotSpent DEF Accept, IsRight
  <2>2. usedCodes \in Seq(UsedCodes) /\ accepted \in [UsedCodes -> Nat]
    BY DEF EInv, EntryTypeOK
  <2>3. usedCodes' \in Sorted(codes) /\ announced' = 0
        /\ accepted' = [accepted EXCEPT ![code] = @ + 1]
    BY <1>8 DEF Accept
  <2> HIDE DEF code
  <2>4. /\ codes \in Seq(UsedCodes) /\ DOMAIN codes = DOMAIN usedCodes \cup {Len(usedCodes) + 1}
        /\ Len(usedCodes) + 1 \notin DOMAIN usedCodes
        /\ codes[Len(usedCodes) + 1] = code
        /\ \A i \in DOMAIN usedCodes : codes[i] = usedCodes[i]
    BY <2>1, <2>2
  <2> HIDE DEF codes
  <2>5. Entries(codes) = Entries(usedCodes) \cup {code}
    BY <2>4 DEF Entries
  <2>6. code \notin Entries(usedCodes)
    BY <2>1 DEF EInv
  <2>7. \A i, j \in DOMAIN usedCodes : usedCodes[i] = usedCodes[j] => i = j
    <3> SUFFICES ASSUME NEW i \in DOMAIN usedCodes, NEW j \in DOMAIN usedCodes, i # j
                 PROVE  usedCodes[i] # usedCodes[j]
      OBVIOUS
    <3>1. i < j \/ j < i
      BY <2>2
    <3>2. usedCodes[i] \in UsedCodes /\ usedCodes[j] \in UsedCodes
      BY <2>2
    <3>3. UsedBefore(usedCodes[i], usedCodes[j]) \/ UsedBefore(usedCodes[j], usedCodes[i])
      BY <3>1 DEF EInv, InOrder
    <3> QED BY <3>2, <3>3, UsedBeforeIsTotal
  <2>8. \A i, j \in DOMAIN codes : codes[i] = codes[j] => i = j
    BY <2>4, <2>6, <2>7 DEF Entries
  <2>9. /\ usedCodes' \in Seq(UsedCodes) /\ InOrder(usedCodes')
        /\ Entries(usedCodes') = Entries(codes)
    BY <2>3, <2>4, <2>8, SortedCodes
  <2>10. accepted' \in [UsedCodes -> Nat]
         /\ \A c \in UsedCodes : accepted'[c] > 0 <=> accepted[c] > 0 \/ c = code
    BY <2>1, <2>2, <2>3
  <2>11. Spent' = Spent \cup {code}
    BY <2>1, <2>10 DEF Spent
  <2>12. Entries(usedCodes') = Spent'
    BY <2>5, <2>9, <2>11 DEF EInv
  <2>13. announced' \in 0 .. G_MAXUINT64
    BY <2>3, RateLimitAssumption
  <2> QED
    BY <1>1, <2>9, <2>10, <2>12, <2>13 DEF EInv, EntryTypeOK, InOrder, Entries
<1> QED BY <1>4, <1>5, <1>6, <1>7, <1>8 DEF EntryNext

LEMMA RightFromEInv == EInv => RightCodesAreIssued
<1> SUFFICES ASSUME EInv, NEW string \in Inputs
             PROVE  IsRight(string) <=> string \in IssuedCodes /\ UsedCode(string) \notin Spent
  BY DEF RightCodesAreIssued
<1>1. string \in VerifiedInputs <=> string \in IssuedCodes
  BY CodeEntryAssumption, VerifiedIsIssued DEF VerifiedInputs
<1>2. IsCounterUnused(UsedCode(string)) <=> UsedCode(string) \notin Spent
  BY UnusedIsNotSpent
<1> QED BY <1>1, <1>2 DEF IsRight

(* The order of two used codes, in one number. *)
LEMMA OrderInOneNumber ==
  ASSUME NEW a \in UsedCodes, NEW b \in UsedCodes, UsedBefore(a, b)
  PROVE  a.counter * PERIODS + a.period < b.counter * PERIODS + b.period
<1>1. /\ a.counter \in Nat /\ b.counter \in Nat /\ PERIODS \in Nat \ {0}
      /\ a.period \in 0 .. PERIODS - 1 /\ b.period \in 0 .. PERIODS - 1
  BY CodesAssumption DEF UsedCodes, EpcCounter, EpcPeriod
<1>2. CASE a.counter < b.counter
  <2>1. a.counter * PERIODS + a.period \in 0 .. b.counter * PERIODS - 1
    BY <1>1, <1>2, JoinedIsBelow
  <2>2. b.counter * PERIODS \in Nat /\ a.counter * PERIODS + a.period \in Nat
    BY <1>1, NextDigit
  <2> QED BY <1>1, <2>1, <2>2
<1>3. CASE a.counter = b.counter /\ a.period < b.period
  <2>1. a.counter * PERIODS \in Nat
    BY <1>1
  <2> QED BY <1>1, <1>3, <2>1
<1> QED BY <1>2, <1>3 DEF UsedBefore

LEMMA SortedFromEInv == EInv => UsedCodesAreSorted
<1> SUFFICES ASSUME EInv PROVE UsedCodesAreSorted
  OBVIOUS
<1> DEFINE n == Len(usedCodes)
<1>1. /\ usedCodes \in Seq(UsedCodes) /\ n \in Nat /\ DOMAIN usedCodes = 1 .. n
      /\ \A i \in 1 .. n : usedCodes[i] \in UsedCodes
  BY DEF EInv, EntryTypeOK
<1>2. \A i, j \in 1 .. n : i < j => UsedBefore(usedCodes[i], usedCodes[j])
  BY <1>1 DEF EInv, InOrder
<1>3. Spent = {usedCodes[i] : i \in 1 .. n}
  BY <1>1 DEF EInv, Entries
<1>4. n = Cardinality(Spent)
  <2>1. usedCodes = [i \in 1 .. n |-> usedCodes[i]]
    BY <1>1
  <2>2. usedCodes \in [1 .. n -> Spent]
    BY <1>3, <2>1
  <2>3. ASSUME NEW i \in 1 .. n, NEW j \in 1 .. n, i # j PROVE usedCodes[i] # usedCodes[j]
    <3>1. i < j \/ j < i
      BY <1>1, <2>3
    <3> QED BY <1>1, <1>2, <3>1, UsedBeforeIsTotal
  <2>4. usedCodes \in Bijection(1 .. n, Spent)
    BY <1>3, <2>2, <2>3 DEF Bijection, Injection, Surjection, IsInjective
  <2>5. IsFiniteSet(1 .. n) /\ Cardinality(1 .. n) = n
    <3> HIDE DEF n
    <3> QED BY <1>1, FS_Interval
  <2>6. ExistsBijection(1 .. n, Spent)
    BY <2>4 DEF ExistsBijection
  <2> QED BY <2>5, <2>6, FS_Bijection
<1>5. \A code \in Spent : \E i \in DOMAIN usedCodes : usedCodes[i] = code
  BY <1>1, <1>3
<1>6. ASSUME NEW i \in 1 .. n - 1
      PROVE  usedCodes[i].counter * PERIODS + usedCodes[i].period
               < usedCodes[i + 1].counter * PERIODS + usedCodes[i + 1].period
  <2>1. i \in 1 .. n /\ i + 1 \in 1 .. n /\ i < i + 1
    BY <1>1
  <2> QED BY <1>1, <1>2, <2>1, OrderInOneNumber
<1> QED BY <1>4, <1>5, <1>6 DEF UsedCodesAreSorted

(* The user's entries keep their types, for any widths of the fields of a  *)
(* code, any key and any strings.                                          *)
THEOREM EntryTypeCorrect == EntrySpec => []EntryTypeOK
<1>1. EInv => EntryTypeOK
  BY DEF EInv
<1> QED BY <1>1, InitEInv, NextEInv, PTL DEF EntrySpec

(* A string is accepted exactly when it is a code that was issued for this *)
(* computer and was not accepted before.                                   *)
THEOREM RightCodes == EntrySpec => []RightCodesAreIssued
BY InitEInv, NextEInv, RightFromEInv, PTL DEF EntrySpec

(* The list of used codes is always in strict order and holds each         *)
(* accepted code once.                                                     *)
THEOREM UsedCodesSorted == EntrySpec => []UsedCodesAreSorted
BY InitEInv, NextEInv, SortedFromEInv, PTL DEF EntrySpec

(* What the user does is something that the rate limit is about: its       *)
(* theorems hold of entered strings, too.                                  *)
THEOREM EntryIsRateLimited == EntrySpec => Spec
<1>1. EntryInit => Init
  BY DEF EntryInit
<1> QED BY <1>1, EntryStepIsStep, PTL DEF EntrySpec, Spec

(* The rate limit for entered strings, whenever the manager starts: those  *)
(* that pass the parser and those that do not count the same.              *)
THEOREM EnteredCodesAreLimited == EntrySpec => LimitIsKept /\ []EndTimeIsExact
<1>1. EntrySpec => Spec
  BY EntryIsRateLimited
<1>2. Spec => LimitIsKept
  BY LimitHolds
<1>3. Spec => []EndTimeIsExact
  BY EndTimeHolds
<1> QED BY <1>1, <1>2, <1>3
=============================================================================
