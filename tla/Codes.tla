------------------------------- MODULE Codes -------------------------------
(***************************************************************************)
(* PAYG codes (libeos-payg-codes/codes.c): a period and a counter, signed  *)
(* with the computer's key, packed into the bits of one number, and        *)
(* written in decimal digits.                                              *)
(*                                                                         *)
(* A field of n bits is given by its number of values, 1 << n: shifting by *)
(* n bits is multiplying by it, and masking n bits is the remainder.       *)
(***************************************************************************)
EXTENDS Integers, Sequences

CONSTANTS
  PERIODS,        \* 1 << PERIOD_WIDTH_BITS
  COUNTERS,       \* 1 << COUNTER_WIDTH_BITS
  SIGNS,          \* 1 << SIGN_WIDTH_BITS
  RADIX,          \* 10
  CODE_STR_WIDTH_DIGITS,
  Periods,        \* the values of EpcPeriod: there are holes in the code space
  Hmac,           \* the digest's last two bytes, by period and counter
  KeyLength,      \* of the computer's key
  KEY_LENGTH_BYTES_MINIMUM

(* pow(), of the radix. *)
Power[digits \in 0 .. CODE_STR_WIDTH_DIGITS] ==
  IF digits = 0 THEN 1 ELSE RADIX * Power[digits - 1]

ASSUME CodesAssumption ==
  /\ PERIODS \in Nat \ {0} /\ COUNTERS \in Nat \ {0} /\ SIGNS \in Nat \ {0}
  /\ RADIX \in Nat \ {0} /\ CODE_STR_WIDTH_DIGITS \in Nat
  /\ PERIODS * COUNTERS * SIGNS <= Power[CODE_STR_WIDTH_DIGITS]
  /\ Periods \subseteq 0 .. PERIODS - 1
  /\ Hmac \in [(0 .. PERIODS - 1) \X (0 .. COUNTERS - 1) -> Nat]
  /\ KeyLength \in Nat /\ KEY_LENGTH_BYTES_MINIMUM \in Nat

EpcPeriod == 0 .. PERIODS - 1
EpcCounter == 0 .. COUNTERS - 1

CODE_VALUES == PERIODS * COUNTERS * SIGNS

(* A bug: each value of the bits is taken to be a period. *)
AnyPeriodIsValid(period) == period \in EpcPeriod

PeriodValidate(period) == period \in Periods

ValidateKey == KeyLength >= KEY_LENGTH_BYTES_MINIMUM

(* Its second condition holds of each code for which the first does.       *)
CodeValidate(code) == code \div CODE_VALUES = 0 /\ code < Power[CODE_STR_WIDTH_DIGITS]

(* The signature of the period and the counter, truncated. *)
Sign(period, counter) == Hmac[period, counter] % SIGNS

Pack(period, counter, sign) == period * (COUNTERS * SIGNS) + counter * SIGNS + sign

CanCalculate(period) == PeriodValidate(period) /\ ValidateKey

(* epc_calculate_code(), where it does not return an error. *)
CalculateCode(period, counter) == Pack(period, counter, Sign(period, counter))

PeriodOf(code) == (code \div (COUNTERS * SIGNS)) % PERIODS
CounterOf(code) == (code \div SIGNS) % COUNTERS

(* epc_verify_code(): the code is calculated again from what it contains.  *)
VerifyCode(code) ==
  /\ CodeValidate(code)
  /\ CanCalculate(PeriodOf(code))
  /\ CalculateCode(PeriodOf(code), CounterOf(code)) = code
-----------------------------------------------------------------------------
(* Codes as the user sees them. *)

Digits == 0 .. RADIX - 1

(* "%08u", of a valid code: the last digit is split off first. *)
FormatCode(code) ==
  LET rest[n \in 0 .. CODE_STR_WIDTH_DIGITS] ==
        IF n = 0 THEN code ELSE rest[n - 1] \div RADIX
  IN  [i \in 1 .. CODE_STR_WIDTH_DIGITS |-> rest[CODE_STR_WIDTH_DIGITS - i] % RADIX]

(* Neither signs nor white space nor other characters than digits.         *)
IsDecimal(string) ==
  /\ Len(string) = CODE_STR_WIDTH_DIGITS
  /\ \A i \in DOMAIN string : string[i] \in Digits

(* strtoull() *)
Value(string) ==
  LET value[n \in 0 .. Len(string)] ==
        IF n = 0 THEN 0 ELSE value[n - 1] * RADIX + string[n]
  IN  value[Len(string)]

(* epc_parse_code() *)
CanParse(string) ==
  /\ IsDecimal(string)
  /\ Value(string) <= CODE_VALUES - 1
  /\ CodeValidate(Value(string))

(* The codes that the vendor's tools print for this computer. *)
IssuedCodes ==
  IF ValidateKey
  THEN {FormatCode(CalculateCode(period, counter)) : period \in Periods, counter \in EpcCounter}
  ELSE {}
=============================================================================
