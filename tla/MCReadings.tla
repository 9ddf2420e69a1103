------------------------------ MODULE MCReadings ------------------------------
(* Readings for TLC: the constants that are no set of simple values.       *)
EXTENDS Readings, TLC

\* Names of up to four characters, each at most two columns wide.
MCNames == {<<>>, <<1, 1, 1>>, <<1, 2>>, <<1, 0, 2, 1>>, <<2, 1, 1>>}

MCGroupOf == ("Tp01" :> "P-Core") @@ ("Tp05" :> "P-Core") @@ ("Tg0G" :> "GPU")
             @@ ("TXXX" :> "hidden")
=============================================================================
