------------------------------ MODULE MCRetry ------------------------------
(* The example's three attempts, networks failing 0 to 3 of them, the       *)
(* virtual clock and the live-shaped one, each at two times.                *)
EXTENDS RetryBoth

RetryCodes == {RetryCode}
RetryStarts == {RetryProgram}

=============================================================================
