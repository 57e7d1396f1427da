-------------------------------- MODULE Arith --------------------------------
(* The few integer operations the code's unsigned arithmetic needs. *)
EXTENDS Integers

Minus(a, b)      == IF a > b THEN a - b ELSE 0         \* saturating_sub
Smaller(a, b)    == IF a <= b THEN a ELSE b            \* min
Larger(a, b)     == IF a >= b THEN a ELSE b            \* max
Clamp(x, lo, hi) == Larger(lo, Smaller(x, hi))         \* clamp

----------------------------------------------------------------------------
(* The rate a level is good for (calibrate.rs): MCS 0 to 9 upwards and SF 7 to *)
(* 12 downwards, each with the level it needs, in dBm.                         *)

Needs    == <<-110, -90, -86, -82, -78, -73, -68, -62, -56, -50>>   \* STATIC_REQ_RSSI
NeedsSnr == <<5, 8, 11, 14, 18, 22, 24, 26, 29, 31>>                \* MIN_SNR_DB
NeedsSf  == <<-80, -90, -100, -110, -118, -125>>                    \* STATIC_REQ_RSSI_SF

\* pick_mcs and snr_ceiling: the highest rung that the level clears, at most top.
BestBelow(table, level, top) ==
  LET fit == {m \in 0 .. top : table[m + 1] <= level} IN IF fit = {} THEN 0 ELSE CHOOSE m \in fit : \A n \in fit : n <= m

pick_sf(level, table) ==
  LET fit == {s \in 7 .. 12 : table[s - 6] <= level} IN IF fit = {} THEN 12 ELSE CHOOSE s \in fit : \A t \in fit : s <= t

\* Held while the level is inside the band of the current factor and a margin.
pick_sf_hysteretic(level, sf, table, margin) ==
  IF level < table[sf - 6] - margin THEN Larger(pick_sf(level, table), sf)
  ELSE IF sf > 7 /\ level > table[Larger(sf, 8) - 7] + margin THEN Smaller(pick_sf(level, table), sf) ELSE sf
=============================================================================
