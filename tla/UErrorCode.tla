----------------------------- MODULE UErrorCode -----------------------------
(***************************************************************************)
(* The UErrorCode values of the public header that the modelled functions  *)
(* set, with their C values: the sign is what U_SUCCESS tests, and the     *)
(* numbers themselves leave the library through idn2_*().                  *)
(***************************************************************************)
EXTENDS Integers

U_STRING_NOT_TERMINATED_WARNING == -124
U_ZERO_ERROR                    == 0
U_ILLEGAL_ARGUMENT_ERROR        == 1
U_INVALID_FORMAT_ERROR          == 3
U_INTERNAL_PROGRAM_ERROR        == 5
U_MEMORY_ALLOCATION_ERROR       == 7
U_INDEX_OUTOFBOUNDS_ERROR       == 8
U_INVALID_CHAR_FOUND            == 10
U_ILLEGAL_CHAR_FOUND            == 12
U_BUFFER_OVERFLOW_ERROR         == 15
U_INPUT_TOO_LONG_ERROR          == 31

U_SUCCESS(code) == code <= U_ZERO_ERROR
U_FAILURE(code) == code > U_ZERO_ERROR

(* Mutant: a string that exactly fills its buffer counts as too long.      *)
TerminateStatusNeedsNul(capacity, length, code) ==
  IF U_FAILURE(code) THEN code
  ELSE IF length < capacity THEN U_ZERO_ERROR ELSE U_BUFFER_OVERFLOW_ERROR

(* The code __TERMINATE_STRING leaves: a NUL that fits clears only the     *)
(* not-terminated warning, a string that exactly fills its buffer is a     *)
(* warning, a longer one an error, and an earlier failure stays.           *)
TerminateStatus(capacity, length, code) ==
  IF U_FAILURE(code) THEN code
  ELSE IF length < capacity
       THEN IF code = U_STRING_NOT_TERMINATED_WARNING THEN U_ZERO_ERROR ELSE code
  ELSE IF length = capacity THEN U_STRING_NOT_TERMINATED_WARNING
  ELSE U_BUFFER_OVERFLOW_ERROR
=============================================================================
