------------------------------ MODULE Calendar ------------------------------
(***************************************************************************)
(* Device time (ulpf-time/src/lib.rs): civil dates, days since 1970-01-01, *)
(* and how a stamp that says less than an instant becomes one.  The unit   *)
(* is the hour; minutes, seconds and nanoseconds are left out, and so is   *)
(* how the text of a stamp is read.                                        *)
(***************************************************************************)
EXTENDS Integers

CONSTANTS DefaultOffset,  \* Context::default_offset_secs, in hours
          Zones           \* name -> [offset, ambiguous], the ZONES table

\* TLA+ divides as div_euclid does: towards minus infinity.
DaysFromCivil(year, m, d) ==
    LET y   == year - (IF m <= 2 THEN 1 ELSE 0)
        era == y \div 400
        yoe == y - era * 400
        mp  == (m + 9) % 12
        doy == (153 * mp + 2) \div 5 + d - 1
    IN era * 146097 + yoe * 365 + yoe \div 4 - yoe \div 100 + doy - 719468

YearOfEra(doe) ==
    (doe - doe \div 1460 + doe \div 36524 - doe \div 146096) \div 365

DayOfYear(doe, yoe) == doe - (365 * yoe + yoe \div 4 - yoe \div 100)

\* The year that begins in March, and the day and the month within it.
DateIn(y, doy, mp) ==
    [year |-> y + (IF mp < 10 THEN 0 ELSE 1),
     month |-> IF mp < 10 THEN mp + 3 ELSE mp - 9,
     day |-> doy - (153 * mp + 2) \div 5 + 1]

DateOf(y, doy) == DateIn(y, doy, (5 * doy + 2) \div 153)

DateOfEra(era, doe, yoe) == DateOf(yoe + era * 400, DayOfYear(doe, yoe))

CivilFromDays(days) ==
    LET z == days + 719468
    IN DateOfEra(z \div 146097, z % 146097, YearOfEra(z % 146097))

IsLeap(y) == y % 4 = 0 /\ (y % 100 # 0 \/ y % 400 = 0)

DaysInMonth(y, m) ==
    CASE m \in {1, 3, 5, 7, 8, 10, 12} -> 31
      [] m \in {4, 6, 9, 11} -> 30
      [] OTHER -> IF IsLeap(y) THEN 29 ELSE 28

YearOf(hours) == CivilFromDays(hours \div 24).year

\* The answer for a stamp that is no instant; every real one is later.
Never == -1000000

\* epoch_from_civil: Never for a date that does not exist.
EpochFromCivil(y, m, d, h, offset) ==
    IF /\ y \in 1970..9999 /\ m \in 1..12 /\ d \in 1..DaysInMonth(y, m)
       /\ h \in 0..23
    THEN DaysFromCivil(y, m, d) * 24 + h - offset
    ELSE Never

(***************************************************************************)
(* resolve.  A stamp has a month and a day or a day of the year, an hour   *)
(* that may be one of twelve, and perhaps a year and a zone.               *)
(***************************************************************************)
RolloverSlack == 7 * 24

OffsetOf(zone) ==
    CASE zone.t = "offset" -> zone.offset
      [] zone.t = "name" /\ zone.name \in DOMAIN Zones ->
           Zones[zone.name].offset
      [] OTHER -> DefaultOffset

ZonePolicies(zone) ==
    CASE zone.t = "none" -> {"tz_assumed"}
      [] zone.t = "offset" -> {}
      [] OTHER -> IF zone.name \notin DOMAIN Zones THEN {"zone_name_unknown"}
                  ELSE IF Zones[zone.name].ambiguous
                  THEN {"zone_name_ambiguous"} ELSE {}

HourOf(p) == IF p.pm = "none" THEN p.hour
             ELSE (p.hour % 12) + (IF p.pm = "pm" THEN 12 ELSE 0)

BuildOn(p, y, date) ==
    EpochFromCivil(y, date.month, date.day, HourOf(p), OffsetOf(p.zone))

Build(p, y) ==
    IF p.yday = 0
    THEN BuildOn(p, y, p)
    ELSE IF p.yday > 365 + (IF IsLeap(y) THEN 1 ELSE 0)
    THEN Never
    ELSE BuildOn(p, y, CivilFromDays(DaysFromCivil(y, 1, 1) + p.yday - 1))

\* A mutant: without a year the stamp is of the year of receipt in UTC.
AssumedYearUtc(p, receipt) == YearOf(receipt)

\* The year of receipt where the device is.
AssumedYear(p, receipt) == YearOf(receipt + OffsetOf(p.zone))

\* The stamp lies more than a week after its receipt, or is of a February 29
\* that the year of receipt lacks: it is of the year before.
RolledBack(p, y, e, receipt) ==
    IF e # Never /\ e <= receipt + RolloverSlack THEN e ELSE Build(p, y - 1)

InYear(p, y, receipt) == RolledBack(p, y, Build(p, y), receipt)

WithYear(p, receipt) ==
    IF p.year # 0 THEN Build(p, p.year)
    ELSE InYear(p, AssumedYear(p, receipt), receipt)

\* A stamp that is a count since 1970 leaves nothing to assume.
Resolve(p, receipt) ==
    IF p.epoch # Never THEN [at |-> p.epoch, policies |-> {}]
    ELSE [at |-> WithYear(p, receipt),
          policies |-> ZonePolicies(p.zone) \cup
                         (IF p.year = 0 THEN {"year_assumed"} ELSE {})]
=============================================================================
