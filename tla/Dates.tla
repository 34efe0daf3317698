--------------------------------- MODULE Dates ---------------------------------
(***************************************************************************)
(* Dates and times between the server's form (a day number, counted from   *)
(* 17 November 1858, and ten-thousandths of a second) and the application's*)
(* (structures and text): OdbcConvert, and the same algorithms once more in *)
(* IscDbc/DateTime.cpp and OdbcDateTime.cpp.  A text is a sequence of      *)
(* characters.                                                             *)
(***************************************************************************)
EXTENDS Integers, SequencesExt

Precision == 10000          \* ISC_TIME_SECONDS_PRECISION
Nanos == 100000             \* STD_TIME_SECONDS_PRECISION: units of the struct's fraction
Day(year, month, day) == [year |-> year, month |-> month, day |-> day]
Clock(hour, minute, second) == [hour |-> hour, minute |-> minute, second |-> second]
Midnight == Clock(0, 0, 0)

BugEncode(d) ==              \* January and February counted to their own year
  LET month == IF d.month > 2 THEN d.month - 3 ELSE d.month + 9
      c     == d.year \div 100
  IN  (146097 * c) \div 4 + (1461 * (d.year - 100 * c)) \div 4
        + (153 * month + 2) \div 5 + d.day - 678882
\* encode_sql_date: the year begins in March, so that the leap day is its last.
EncodeDate(d) ==
  LET month == IF d.month > 2 THEN d.month - 3 ELSE d.month + 9
      year  == IF d.month > 2 THEN d.year ELSE d.year - 1
      c     == year \div 100
  IN  (146097 * c) \div 4 + (1461 * (year - 100 * c)) \div 4
        + (153 * month + 2) \div 5 + d.day - 678882
\* decode_sql_date
DecodeDate(n) ==
  LET n1      == 4 * (n + 678882) - 1
      century == n1 \div 146097
      n2      == 4 * ((n1 - 146097 * century) \div 4) + 3
      year    == 100 * century + n2 \div 1461
      inYear  == 5 * ((n2 - 1461 * (n2 \div 1461) + 4) \div 4) - 3
      month   == inYear \div 153
      day     == (inYear - 153 * month + 5) \div 5
  IN  IF month < 10 THEN Day(year, month + 3, day) ELSE Day(year + 1, month - 9, day)

EncodeTime(t) == ((t.hour * 60 + t.minute) * 60 + t.second) * Precision
DecodeTime(n) ==
  LET minutes == n \div (Precision * 60)
  IN  Clock(minutes \div 60, minutes % 60, (n \div Precision) % 60)

Stamp(n, time) == [date |-> DecodeDate(n), time |-> DecodeTime(time),
                   fraction |-> (time % Precision) * Nanos]

\* Day of the year, from 0 (DateTime::yday, OdbcDateTime::yday; month from 0).
YearDay(d) ==
  LET m    == d.month - 1
      day  == (214 * m + 3) \div 7 + d.day - 1
      leap == (d.year % 4 = 0 /\ d.year % 100 # 0) \/ d.year % 400 = 0
  IN  IF m < 2 THEN day ELSE IF leap THEN day - 1 ELSE day - 2

-----------------------------------------------------------------------------
(* The application's parameter to the server's value, by the two types.    *)
DateToDate(d)           == EncodeDate(d)              \* transferTagDateToDate
DateToTimestamp(d)      == <<EncodeDate(d), 0>>       \* transferTagDateToDateTime
TimeToTime(t)           == EncodeTime(t)              \* transferTagTimeToTime
TimeToTimestamp(t)      == <<EncodeDate(Day(100, 1, 1)), EncodeTime(t)>>
TimestampToDate(s)      == EncodeDate(s.date)
TimestampToTime(s)      == EncodeTime(s.time) + s.fraction \div Nanos
TimestampToTimestamp(s) == <<EncodeDate(s.date), TimestampToTime(s)>>

(* A column to the application's structure.                                *)
DateToTagDate(n)          == DecodeDate(n)
DateToTagTimestamp(n)     == [date |-> DecodeDate(n), time |-> Midnight, fraction |-> 0]
TimeToTagTime(n)          == DecodeTime(n)
TimeToTagTimestamp(n)     == [date |-> Day(0, 0, 0), time |-> DecodeTime(n),
                              fraction |-> (n % Precision) * Nanos]
TimestampToTagDate(v)     == DecodeDate(v[1])
TimestampToTagTime(v)     == DecodeTime(v[2])
TimestampToTagTimestamp(v) == Stamp(v[1], IF v[2] < 0 THEN 0 ELSE v[2])

(* Binary targets: the length says which structure is meant; 4 (or 8) bytes *)
(* are the forms of DOS, whose fraction is in hundredths.                  *)
Hundredths(n) == IF n % Precision = 0 THEN 0 ELSE (10000 + (n % Precision)) \div 100 - 100
DateToBinary(n, length) ==
  IF length \in {4, 6} THEN DecodeDate(n) ELSE [part |-> DecodeDate(n), length |-> length]
TimeToBinary(n, length) ==
  CASE length = 6 -> DecodeTime(n)
    [] length = 4 -> [time |-> DecodeTime(n), hsecond |-> Hundredths(n)]
    [] OTHER      -> [part |-> DecodeTime(n), length |-> length]
TimestampToBinary(v, length) ==
  CASE length = 16 -> Stamp(v[1], v[2])
    [] length = 8  -> [date |-> DecodeDate(v[1]), time |-> DecodeTime(v[2]),
                       hsecond |-> Hundredths(v[2])]
    [] OTHER       -> [part |-> Stamp(v[1], v[2]), length |-> length]

-----------------------------------------------------------------------------
(* Text.  A number is printed with at least `width' digits.                *)
DigitChar == <<"0", "1", "2", "3", "4", "5", "6", "7", "8", "9">>
Padded(n, width) == [i \in 1..width |-> DigitChar[((n \div 10^(width - i)) % 10) + 1]]
DateText(d) == Padded(d.year, 4) \o <<"-">> \o Padded(d.month, 2) \o <<"-">> \o Padded(d.day, 2)
ClockText(t) ==
  Padded(t.hour, 2) \o <<":">> \o Padded(t.minute, 2) \o <<":">> \o Padded(t.second, 2)
Tail4(n) == IF n % Precision = 0 THEN << >> ELSE <<".">> \o Padded(n % Precision, 4)
\* snprintf: what does not fit is cut, and the length returned is that of the whole.
Printed(text, length) ==
  [text |-> SubSeq(text, 1, IF Len(text) < length THEN Len(text) ELSE length - 1),
   indicator |-> Len(text)]
DateToString(n, length)  == Printed(DateText(DecodeDate(n)), length)
TimeToString(n, length)  == Printed(ClockText(DecodeTime(n)) \o Tail4(n), length)
TimestampText(v) ==
  DateText(DecodeDate(v[1])) \o <<" ">> \o ClockText(DecodeTime(v[2])) \o Tail4(v[2])
TimestampToString(v, length) == Printed(TimestampText(v), length)

(* convertStringDateTimeToServerStringDateTime: what the server is sent of *)
(* an application's text; the escapes {d ''}, {t ''} and {ts ''} lose their *)
(* frame, and a fraction its figures after the fourth.  (So does a date    *)
(* that is written with points.)                                           *)
Digit == Range(DigitChar)
From(s, p(_)) ==                         \* the first position that satisfies p, or past the end
  LET hits == {i \in 1..Len(s) : p(s[i])}
  IN  IF hits = {} THEN Len(s) + 1 ELSE CHOOSE i \in hits : \A j \in hits : i <= j
Rest(s, i) == SubSeq(s, i, Len(s))
Trim(s) == Rest(s, From(s, LAMBDA c : c # " "))

PlainDateTime(s) ==
  LET b     == Rest(s, From(s, LAMBDA c : c \in Digit))
      point == From(b, LAMBDA c : c = ".")
  IN  IF b = << >> THEN s
      ELSE SubSeq(b, 1, IF point + 4 < Len(b) THEN point + 4 ELSE Len(b))

Escape(s, offset, point) ==
  LET q     == Rest(s, From(s, LAMBDA c : c = "'") + 1)
      close == offset + From(Rest(q, offset + 1), LAMBDA c : c = "'") - 1
      n     == IF point > 0 /\ close > point /\ q[point + 1] = "."
                 THEN IF close > point + 5 THEN point + 5 ELSE close
                 ELSE close
  IN  IF q = << >> \/ close >= Len(q) THEN s ELSE SubSeq(q, 1, n)
ServerText(text) ==
  LET s == Trim(text)
      e == Trim(Tail(s))
  IN  IF s = << >> THEN text
      ELSE IF s[1] # "{" THEN PlainDateTime(s)
      ELSE CASE e[1] = "d" -> Escape(e, 6, 0)
             [] e[1] = "t" -> IF e[2] = "s" THEN Escape(e, 12, 19) ELSE Escape(e, 5, 8)
             [] OTHER      -> text

\* The first element of an array's text {'a','b'}, by which the server's type is checked.
FirstElement(text) ==
  LET s      == Rest(text, From(text, LAMBDA c : c \notin {"{", " "}))
      quoted == s # << >> /\ s[1] = "'"
      b      == IF quoted THEN Tail(s) ELSE s
      stop   == From(b, LAMBDA c : c \in {"}", ","} \cup (IF quoted THEN {"'"} ELSE {" "}))
  IN  SubSeq(b, 1, stop - 1)
=============================================================================
