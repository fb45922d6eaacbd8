----------------------------- MODULE Ds3231Time -----------------------------
(***************************************************************************)
(* The conversions of ds3231.c between struct tm and the seven registers   *)
(* that keep the time, as ds3231_setTime sends and ds3231_getTime reads    *)
(* them.                                                                   *)
(***************************************************************************)
EXTENDS Naturals

\* uint8_t
Byte(n) == n % 256

decToBcd(dec) == Byte((dec \div 10) * 16 + (dec % 10))

bcdToDec(bcd) == Byte((bcd \div 16) * 10 + (bcd % 16))

\* What gmtime_r gives for a time of the years the clock can tell apart.
Tm ==
  [tm_sec : 0 .. 59, tm_min : 0 .. 59, tm_hour : 0 .. 23, tm_wday : 0 .. 6,
   tm_mday : 1 .. 31, tm_mon : 0 .. 11, tm_year : 100 .. 199]

\* data[1] to data[7] of ds3231_setTime
ds3231_setTime(t) ==
  << decToBcd(t.tm_sec), decToBcd(t.tm_min), decToBcd(t.tm_hour),
     decToBcd(t.tm_wday + 1), decToBcd(t.tm_mday), decToBcd(t.tm_mon + 1),
     decToBcd(t.tm_year - 100) >>

\* The hour: bit 6 says that it counts to twelve, bit 5 then that it is p.m.
Hour(reg) ==
  IF (reg \div 64) % 2 = 1
    THEN bcdToDec(reg % 32) + (IF (reg \div 32) % 2 = 1 THEN 12 ELSE 0)
    ELSE bcdToDec(reg)

\* The struct that ds3231_getTime fills from the registers; bit 7 of the month
\* is the century.
ds3231_getTime(data) ==
  [tm_sec |-> bcdToDec(data[1]), tm_min |-> bcdToDec(data[2]),
   tm_hour |-> Hour(data[3]), tm_wday |-> bcdToDec(data[4]) - 1,
   tm_mday |-> bcdToDec(data[5]), tm_mon |-> bcdToDec(data[6] % 32) - 1,
   tm_year |-> bcdToDec(data[7]) + 100]
=============================================================================
