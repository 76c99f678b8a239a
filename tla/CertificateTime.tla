---------------------------- MODULE CertificateTime ----------------------------
(***************************************************************************)
(* Reading a certificate's validity (crates/distr-hnsw/src/tls.rs):         *)
(* der_time and days_from_civil, checked against a calendar that counts one *)
(* day after another from 1970-01-01.  Digits are numbers here; a time is   *)
(* the day and the second of the day.                                       *)
(***************************************************************************)
EXTENDS Integers

CONSTANT LastYear       \* bound on the calendar

LastYearAssumption == LastYear \in 1970..9999

VARIABLES date, days    \* a civil date and the days since 1970-01-01

vars == <<date, days>>

\* Days since 1970-01-01 of a Gregorian date.
DaysFromCivil(year, month, day) ==
    LET y == IF month <= 2 THEN year - 1 ELSE year
        era == y \div 400
        yoe == y - era * 400
        doy == (153 * ((month + 9) % 12) + 2) \div 5 + day - 1
    IN  era * 146097 + yoe * 365 + yoe \div 4 - yoe \div 100 + doy - 719468

\* UTCTime has two digits of the year.
UtcYear(yy) == IF yy >= 50 THEN 1900 + yy ELSE 2000 + yy

\* der_time: the tag tells the form; out-of-range fields are refused.
DerTime(tag, year, month, day, hour, minute, second) ==
    IF month \notin 1..12 \/ day \notin 1..31 \/ hour > 23 \/ minute > 59 \/ second > 60
    THEN [ok |-> FALSE]
    ELSE [ok |-> TRUE, second |-> hour * 3600 + minute * 60 + second,
          day |-> DaysFromCivil(IF tag = "utc" THEN UtcYear(year) ELSE year, month, day)]

-----------------------------------------------------------------------------
\* The calendar, by its definition.
Leap(y) == y % 4 = 0 /\ (y % 100 # 0 \/ y % 400 = 0)

MonthLength(y, m) ==
    IF m = 2 THEN (IF Leap(y) THEN 29 ELSE 28) ELSE IF m \in {4, 6, 9, 11} THEN 30 ELSE 31

Init == date = [y |-> 1970, m |-> 1, d |-> 1] /\ days = 0

NextDay ==
    /\ ~(date.y = LastYear /\ date.m = 12 /\ date.d = 31)
    /\ date' = IF date.d < MonthLength(date.y, date.m) THEN [date EXCEPT !.d = @ + 1]
               ELSE IF date.m < 12 THEN [date EXCEPT !.m = @ + 1, !.d = 1]
               ELSE [y |-> date.y + 1, m |-> 1, d |-> 1]
    /\ days' = days + 1

Spec == Init /\ [][NextDay]_vars

\* An issuer writes dates before 2050 as UTCTime and later ones as
\* GeneralizedTime (RFC 5280).
Written(h, m, s) ==
    IF date.y < 2050
    THEN DerTime("utc", date.y % 100, date.m, date.d, h, m, s)
    ELSE DerTime("generalized", date.y, date.m, date.d, h, m, s)

\* The validity read from a certificate is the date the issuer wrote, on
\* every day, over leap years and centuries and on both sides of 2050.
DateExact ==
    /\ Written(0, 0, 0) = [ok |-> TRUE, day |-> days, second |-> 0]
    /\ Written(23, 59, 59) = [ok |-> TRUE, day |-> days, second |-> 86399]
================================================================================
