--------------------------- MODULE MCSignInDelay ----------------------------
(* SignInDelay on small times, for TLC.                                    *)
EXTENDS SignInDelay

(* The schedule the specification lists: 1, 2, 4, 8, 16, 32 and then 60    *)
(* seconds; here RequiredWait with the constant of the code.               *)
ASSUME ScheduleAsListed ==
    \A n \in 0..100 :
        RequiredWait(n, 60) =
            IF n = 0 THEN 0 ELSE IF n <= 6 THEN <<1, 2, 4, 8, 16, 32>>[n] ELSE 60

(* Failures beyond MaxCount owe the longest wait, as MaxCount does.        *)
ASSUME CountsToTheCap == RequiredWait(MaxCount, MaxWait) = MaxWait
=============================================================================
