----------------------------- MODULE Positioning -----------------------------
(***************************************************************************)
(* The estimate a waiting diner reads (app/waitlist/domain/positioning.py):*)
(* a range of minutes around the position times the venue's minutes per    *)
(* position. The floats of the code are kept as hundredths of a minute;    *)
(* 0.85 and 1.25 round to no other multiple of five than exact fractions.  *)
(***************************************************************************)
EXTENDS Integers

\* _round5: the multiple of five nearest to a number of hundredths, halves up.
Round5(hundredths) == ((hundredths + 250) \div 500) * 5

EtaLow(eta) == IF Round5(85 * eta) > 5 THEN Round5(85 * eta) ELSE 5

EtaHigh(eta) ==
  IF Round5(125 * eta) > EtaLow(eta) THEN Round5(125 * eta) ELSE EtaLow(eta) + 5

\* eta_range
EtaRange(position, minutesPerPosition) ==
  [low  |-> EtaLow(position * minutesPerPosition),
   high |-> EtaHigh(position * minutesPerPosition)]
=============================================================================
