---------------------------- MODULE MCModemWorker ----------------------------
(***************************************************************************)
(* Small instances of ModemWorker: messages by number of segments and      *)
(* reference.                                                              *)
(***************************************************************************)
EXTENDS ModemWorker

OneOne     == <<1, 1>>
ThreeOne   == <<3, 1>>
Various    == <<1, 1, 2, 2>>

Distinct     == <<1, 2>>
LastTwoShare == <<1, 2, 3, 3>>
==============================================================================
