----------------------------- MODULE MCBleSetup -----------------------------
(* Values for the constants of BleSetup that a .cfg cannot write.          *)
EXTENDS BleSetup

MCTexts == {<<>>, <<1>>, <<2>>, <<1, 1>>, <<2, 2>>, <<1, 1, 1>>, <<2, 2, 2>>}
MCValid == [ssid |-> {<<1>>, <<1, 1>>, <<2, 2>>}, pass |-> {<<>>, <<1, 1, 1>>, <<2, 2>>},
            host |-> {<<1>>, <<2, 2>>}]

(* A long and a short password, none, a wrong broker.                      *)
MCForms == {[ssid |-> <<1>>, pass |-> <<1, 1, 1>>, host |-> <<2, 2>>],
            [ssid |-> <<2, 2>>, pass |-> Blank, host |-> <<1>>],
            [ssid |-> <<1>>, pass |-> <<2, 2>>, host |-> <<2>>]}
MCStored == [ssid |-> <<1>>, pass |-> <<2, 2>>, host |-> <<1>>]
=============================================================================
