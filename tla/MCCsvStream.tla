---------------------------- MODULE MCCsvStream ----------------------------
(* Period arguments below and above the minimum, and a negative one.       *)
EXTENDS CsvStream

MCArgs == {0, 2, -1}

\* The stream's timer is the only one, as in the firmware.
ASSUME StreamAlone == OneTimer
=============================================================================
