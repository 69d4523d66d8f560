----------------------------- MODULE CodeEntry -----------------------------
(***************************************************************************)
(* The user enters codes: epg_manager_add_code() (libeos-payg/manager.c)   *)
(* from the string to the list of used codes, with the parser and the      *)
(* verification of libeos-payg-codes and the rate limit.  The rest of the  *)
(* manager, which knows a code as a value, is in EpgManager.               *)
(***************************************************************************)
EXTENDS RateLimiter, Codes, Functions

CONSTANT
  Inputs         \* the strings that are entered

ASSUME CodeEntryAssumption == Inputs \subseteq Seq(Int)

VARIABLES
  usedCodes,     \* used_codes, an array of UsedCode
  accepted,      \* observed: how often each code was accepted
  announced      \* observed: rate-limit-end-time as last notified

entryVars == <<vars, usedCodes, accepted, announced>>

UsedCode(string) ==
  [counter |-> CounterOf(Value(string)), period |-> PeriodOf(Value(string))]

UsedCodes == [counter : EpcCounter, period : EpcPeriod]

EntryInit ==
  /\ Init
  /\ usedCodes = <<>>
  /\ accepted = [code \in UsedCodes |-> 0]
  /\ announced = 0

EntryTick == Tick /\ UNCHANGED <<usedCodes, accepted, announced>>

(* check_is_counter_unused() *)
IsCounterUnused(code) ==
  ~\E i \in DOMAIN usedCodes :
     usedCodes[i].counter = code.counter /\ usedCodes[i].period = code.period

(* A bug: only the counters are put in order. *)
CounterBefore(a, b) == a.counter < b.counter

(* used_codes_sort_cb() *)
UsedBefore(a, b) ==
  \/ a.counter < b.counter
  \/ a.counter = b.counter /\ a.period < b.period

(* g_array_sort(): no entry is before one that belongs before it. *)
Sorted(codes) ==
  LET places == DOMAIN codes
  IN  {sorted \in {[i \in places |-> codes[order[i]]] : order \in Bijection(places, places)} :
         \A i, j \in places : i < j => ~UsedBefore(sorted[j], sorted[i])}

VerifiedInputs == {string \in Inputs : CanParse(string) /\ VerifyCode(Value(string))}

IsRight(string) == string \in VerifiedInputs /\ IsCounterUnused(UsedCode(string))

(* check_rate_limiting() refuses the attempt and notifies of its end. *)
Refuse ==
  /\ TooManyAttempts
  /\ announced' = RateLimitEndTime(history')
  /\ UNCHANGED <<usedCodes, accepted>>

(* The attempt counts, but nothing is notified. *)
Reject ==
  /\ \E string \in Inputs : ~IsRight(string)
  /\ WrongCode
  /\ UNCHANGED <<usedCodes, accepted, announced>>

Accept(string) ==
  /\ IsRight(string)
  /\ RightCode
  /\ usedCodes' \in Sorted(Append(usedCodes, UsedCode(string)))
  /\ accepted' = [accepted EXCEPT ![UsedCode(string)] = @ + 1]
  /\ announced' = 0

EntryNext ==
  \/ EntryTick
  \/ Refuse
  \/ Reject
  \/ \E string \in Inputs : Accept(string)

EntrySpec == EntryInit /\ [][EntryNext]_entryVars
-----------------------------------------------------------------------------
EntryTypeOK ==
  /\ TypeOK
  /\ usedCodes \in Seq(UsedCodes)
  /\ accepted \in [UsedCodes -> Nat]
  /\ announced \in 0 .. G_MAXUINT64

(* What was accepted so far. *)
Spent == {code \in UsedCodes : accepted[code] > 0}

(* An issued code whose period and counter were not accepted before is     *)
(* right, and no other string is: the digits and bits of a code are the    *)
(* same however it is written or packed, a hole in the code space and a    *)
(* wrong signature are never accepted, and codes that share a counter or a *)
(* period do not stand in each other's way.                                *)
RightCodesAreIssued ==
  \A string \in Inputs :
    IsRight(string) <=> string \in IssuedCodes /\ UsedCode(string) \notin Spent

(* "The list is guaranteed to be sorted", and each accepted code is in it  *)
(* once, in whichever order they are entered.                              *)
UsedCodesAreSorted ==
  /\ Len(usedCodes) = Cardinality(Spent)
  /\ \A code \in Spent : \E i \in DOMAIN usedCodes : usedCodes[i] = code
  /\ \A i \in 1 .. Len(usedCodes) - 1 :
       LET a == usedCodes[i]
           b == usedCodes[i + 1]
       IN  a.counter * PERIODS + a.period < b.counter * PERIODS + b.period

(* The clients were told of a limit that is in force: false, since the     *)
(* wrong code that completes it notifies of nothing.                       *)
LimitIsAnnounced ==
  IsRateLimited(history, nowSecs) => announced = RateLimitEndTime(history)
=============================================================================
