------------------------------- MODULE MCTemps -------------------------------
(* Temps for TLC: keys of two groups, one of them with two keys, and one    *)
(* that is read and not shown.                                             *)
EXTENDS Temps, TLC

MCGroupOf == ("Tp01" :> "P-Core") @@ ("Tp05" :> "P-Core") @@ ("Tg0G" :> "GPU")
             @@ ("TXXX" :> "hidden")
==============================================================================
