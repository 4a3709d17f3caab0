----------------------------- MODULE TaskStatus -----------------------------
(***************************************************************************)
(* The status and the expiration date of a leadership task, from its       *)
(* configuration and its last completion (viewhelpers.py, _get_status and  *)
(* _get_expiration).  Dates are day numbers; a year has Year days and no   *)
(* leap days, so a date of year (mm-dd) is a number in 0 .. Year - 1 and   *)
(* durations are numbers of days.                                          *)
(***************************************************************************)
EXTENDS Integers

CONSTANTS
    Year,     \* days of a year
    Never     \* sentinel: no completion, no expiration date

ASSUME YearAssumption == Year \in Nat \ {0}

(* A task: what it asks for, who it is asked of, and its dates.             *)
(*   optional   suggested, never expires                                    *)
(*   periodic   again period days after the completion                      *)
(*   yearly     by the date doy of each year; a completion counts for the   *)
(*              year's date until starts days after it                      *)
(*   once       done when completed                                         *)
Kinds == {"optional", "periodic", "yearly", "once"}

YearOf(d) == d \div Year
DayOfYear(d) == d % Year

-----------------------------------------------------------------------------
(* The window of a yearly task t that the date ref is in ends with the      *)
(* first end after ref, counted from two years before.                      *)
FirstEnd(t, ref) == (YearOf(ref) - 2) * Year + t.doy + t.starts

WindowEnds(t, ref) ==
    LET first == FirstEnd(t, ref)
    IN  IF first > ref THEN first
        ELSE first + ((ref - first) \div Year + 1) * Year

WindowStarts(t, ref) == WindowEnds(t, ref) - Year

(* Never completed: the first date of year in the window of today. *)
FirstExpiry(t, today) ==
    LET ws == WindowStarts(t, today)
        own == YearOf(ws) * Year + t.doy
    IN  IF own < ws THEN own + Year ELSE own

(* Mutation: the date of year of the window itself. *)
SameExpiry(t, d) == YearOf(WindowEnds(t, d)) * Year - Year + t.doy

(* Completed on day d: the date of year after the one the window is for. *)
NextExpiry(t, d) ==
    LET we == WindowEnds(t, d)
        year == IF t.doy <= DayOfYear(we) THEN YearOf(we) + 1 ELSE YearOf(we)
    IN  (IF d <= WindowStarts(t, d) THEN year - 1 ELSE year) * Year + t.doy

(* _get_expiration of t, last completed by the record c or Never; earliest  *)
(* is the start of the first of the positions that t is asked of.           *)
Expires(t, c, earliest, today) ==
    CASE t.kind = "optional" -> Never
      [] t.kind = "yearly" -> IF c = Never THEN FirstExpiry(t, today) ELSE NextExpiry(t, c.day)
      [] t.kind = "periodic" -> IF c = Never THEN earliest ELSE c.day + t.period
      [] t.kind = "once" -> IF c = Never THEN earliest ELSE Never

(* c.day plus n days is over: a day given by date ends at its midnight, the *)
(* time of a click is taken as later in the day than the page is read.      *)
Over(c, n, today) == c.day + n < today \/ (c.dated /\ c.day + n = today)

(* _get_status; on the day it expires a yearly task is up to date. *)
Status(t, c, today) ==
    CASE t.kind = "optional" -> IF c = Never THEN "optional" ELSE "done"
      [] t.kind = "once" -> IF c = Never THEN "overdue" ELSE "done"
      [] t.kind = "periodic" ->
           IF c = Never \/ Over(c, t.period, today) THEN "overdue"
           ELSE IF Over(c, t.period - t.soon, today) THEN "expires soon"
           ELSE "up to date"
      [] t.kind = "yearly" ->
           LET exp == Expires(t, c, Never, today)
           IN  IF exp - t.soon <= today /\ today < exp THEN "expires soon"
               ELSE IF today > exp THEN "overdue"
               ELSE "up to date"

(* The status needs a mail. *)
Due(status) == status \in {"overdue", "expires soon"}
=============================================================================
