-------------------------------- MODULE IsoTime --------------------------------
(***************************************************************************)
(* miutil::isotimeString: the text of a date, in UTC or in the time of the *)
(* machine. The text is what the editor of a document shows and what a     *)
(* save reads back, so the instant it denotes matters.                     *)
(***************************************************************************)
EXTENDS Naturals, Integers

CONSTANTS
  Instants,     \* milliseconds since the epoch, of either sign
  Zones,        \* offsets of the machine from UTC, in minutes
  Clocks        \* minutes since the epoch at which a text is made

DaysOfMonth == 3                            \* bound: a month, shortened
ASSUME InstantsAssumption == Instants \subseteq Int /\ Zones \subseteq Int /\ Clocks \subseteq Nat

VARIABLES
  instant, zone, now,   \* the date, the machine's zone and its clock
  shown,        \* the text: the broken-down time as seconds, milliseconds and the suffix
  made          \* "none", "utc", "local"

isoVars == <<instant, zone, now, shown, made>>

Abs(n) == IF n < 0 THEN -n ELSE n
Quotient(a, b) == IF a < 0 THEN -((-a) \div b) ELSE a \div b      \* the division of C++
NoTime == [secs |-> 0, millis |-> 0, hours |-> 0, minutes |-> 0]

(* gmtime and localtime, of minutes: day of the month, hour and minute.     *)
Day(m) == ((m \div 1440) % DaysOfMonth) + 1
Hour(m) == (m \div 60) % 24
Minute(m) == m % 60

(* splitMillis                                                              *)
SplitMillis(ms) ==
  LET s == Quotient(ms, 1000)
      r == ms - 1000 * s
  IN IF r < 0 THEN [secs |-> s - 1, millis |-> r + 1000] ELSE [secs |-> s, millis |-> r]

(* The difference of the two clocks, hour by hour and minute by minute; a   *)
(* change of day is noticed by the number of the day in its month.          *)
HoursApart(utc, local) ==
  LET h == Hour(local) - Hour(utc)
  IN IF Day(local) < Day(utc) /\ h > 0 THEN h - 24
     ELSE IF Day(local) > Day(utc) /\ h < 0 THEN h + 24 ELSE h
MinutesApart(utc, local) == Minute(local) - Minute(utc)

UtcText == LET t == SplitMillis(instant) IN [NoTime EXCEPT !.secs = t.secs, !.millis = t.millis]

SuffixHours(offset) == Quotient(offset, 3600)
LocalText ==
  LET t == SplitMillis(instant)
      diffM == MinutesApart(now, now + zone)
      offset == 3600 * HoursApart(now, now + zone) + 60 * diffM
  IN [secs |-> t.secs + offset, millis |-> t.millis, hours |-> SuffixHours(offset), minutes |-> Abs(diffM)]

IsoInit ==
  /\ instant \in Instants /\ zone \in Zones /\ now \in Clocks
  /\ shown = NoTime /\ made = "none"

MakeText ==
  /\ \/ made' = "utc" /\ shown' = UtcText
     \/ made' = "local" /\ shown' = LocalText
  /\ UNCHANGED <<instant, zone, now>>

IsoNext == MakeText
IsoSpec == IsoInit /\ [][IsoNext]_isoVars

(***************************************************************************)
(* Properties                                                              *)
(***************************************************************************)

(* The instant a reader of the text computes: the suffix has one sign, that *)
(* of its hours.                                                            *)
Denoted ==
  LET suffix == 60 * Abs(shown.hours) + shown.minutes
  IN (shown.secs - 60 * (IF shown.hours < 0 THEN -suffix ELSE suffix)) * 1000 + shown.millis

HalfHours == zone % 60 \in {0, 30}          \* all but a few zones

(* Types; a text in UTC has no suffix.                                      *)
IsoTypeOK ==
  /\ made \in {"none", "utc", "local"}
  /\ shown.millis \in 0..999 /\ shown.minutes \in 0..59
  /\ made = "utc" => shown.hours = 0 /\ shown.minutes = 0

(* Whatever the clock says when it is made, the text denotes the date: also *)
(* before 1970, across midnight, and across the end of a month, when the    *)
(* offset comes out wrong but the time is shifted by the same amount.       *)
InstantIsKept == (made = "utc" \/ (made = "local" /\ HalfHours)) => Denoted = instant

(* Inside of a month the time shown is that of the machine's zone.          *)
TimeIsLocal ==
  (made = "local" /\ Abs(Day(now + zone) - Day(now)) <= 1)
    => shown.secs = SplitMillis(instant).secs + 60 * zone

(* The suffix is the machine's offset (ptimeutil.cpp: "apply the machine's  *)
(* *current* UTC offset (resolved to whole minutes) to the supplied instant *)
(* and append it").                                                         *)
(* The program does not keep this (README).                                *)
SuffixIsTheOffset ==
  (made = "local" /\ Abs(Day(now + zone) - Day(now)) <= 1) =>
    (IF shown.hours < 0 THEN -1 ELSE 1) * (60 * Abs(shown.hours) + shown.minutes) = zone

(* A date survives its text, whatever the clock and the zone.               *)
IsoTimeIsSound == IsoTypeOK /\ InstantIsKept /\ TimeIsLocal
=============================================================================
