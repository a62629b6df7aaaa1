-------------------------------- MODULE MCRtc --------------------------------
(* The clock with an eight Hz chip: the accepted rates are 2, 4 and 8.     *)
EXTENDS Rtc

MCRates == {-4, 0, 1, 2, 3, 4, 6, 8, 16}
=============================================================================
