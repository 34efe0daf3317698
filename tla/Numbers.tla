-------------------------------- MODULE Numbers --------------------------------
(***************************************************************************)
(* The conversions of numbers in OdbcConvert.  A value is a fraction       *)
(* [n |-> .., d |-> ..] in units of the record's type and scale; only a    *)
(* floating type has d # 1.  TINYINT and SHORT keep their width, the       *)
(* others are taken as wide enough.  A SQL_NUMERIC_STRUCT is a magnitude, a *)
(* sign and a scale.  A text is a sequence of characters.                  *)
(***************************************************************************)
EXTENDS ConvertTable, SequencesExt

Power(k) == 10^k                                        \* listScale
Quotient(a, b) == IF a >= 0 THEN a \div b ELSE -((-a) \div b)   \* C division
Frac(n, d) == [n |-> n, d |-> d]

Width == [TINYINT |-> 256, SHORT |-> 65536]
Cast(type, v) ==                          \* (C_TYPE_TO)v
  IF type \notin DOMAIN Width THEN v
  ELSE ((v + Width[type] \div 2) % Width[type]) - Width[type] \div 2
Least(type) == IF type \in DOMAIN Width THEN -(Width[type] \div 2) ELSE -(2^30)

Store(to, x) ==
  CASE to.concise = "BIT"    -> Frac(IF x.n = 0 THEN 0 ELSE 1, 1)
    [] to.concise \in Float  -> x
    [] OTHER                 -> Frac(Cast(to.concise, Quotient(x.n, x.d)), 1)

\* ODBCCONVERT_CONV.  A TINYINT is read as unsigned unless it stays one byte.
Unsigned(from, x) ==
  IF from.concise = "TINYINT" /\ x.n < 0 THEN Frac(x.n + Width["TINYINT"], 1) ELSE x
Plain(from, to, x) ==
  Store(to, IF to.concise \in {"BIT", "TINYINT"} THEN x ELSE Unsigned(from, x))

\* ODBCCONVERT_WITH_SCALE_CONV
Scaled(from, to, x) == Store(to, Frac(x.n * Power(to.scale), x.d * Power(from.scale)))

\* ODBCCONVERT_CONVROUND
Nearest(to, x) ==
  LET y == Frac(2 * x.n * Power(to.scale), 2 * x.d)
  IN  Store(to, Frac(IF y.n < 0 THEN y.n - x.d ELSE y.n + x.d, y.d))

\* The rounding that ODBCCONVERT_BIGINT_CONV and convDoubleToTagNumeric share:
\* half away from zero, but none to scale 0.
Rescale(v, by, scale) ==
  CASE by = 0 -> v
    [] by > 0 -> v * Power(by)
    [] OTHER  -> LET half == IF scale = 0 THEN 0 ELSE 5 * Power(-by - 1)
                 IN  Quotient(IF v < 0 THEN v - half ELSE v + half, Power(-by))
Rounded(from, to, x) == Store(to, Frac(Rescale(x.n, to.scale - from.scale, to.scale), 1))

Struct(v, scale) == [mag |-> IF v < 0 THEN -v ELSE v, positive |-> v >= 0, scale |-> scale]
\* ODBCCONVERT_CONVTAGNUMERIC
ToNumeric(from, x) == Struct(Unsigned(from, x).n, from.scale)
DoubleToNumeric(from, to, x) ==
  Struct(Rescale(Quotient(x.n * Power(from.scale), x.d), to.scale - from.scale, to.scale),
         to.scale)

\* ODBCCONVERTTAG_NUMERIC_CONV, and _FLOAT, which takes no scale of the target
FromTag(to, nm) ==
  LET v == IF to.concise \in Float THEN Frac(nm.mag, Power(nm.scale))
           ELSE Frac(Quotient(nm.mag * Power(to.scale), Power(nm.scale)), 1)
  IN  Store(to, Frac(IF nm.positive THEN v.n ELSE -v.n, v.d))

ToNumber(from, to, x) ==
  LET how == GetAdressFunction(from, to, FALSE)
  IN  CASE how = "plain"   -> Plain(from, to, x)
        [] how = "scaled"  -> Scaled(from, to, x)
        [] how = "nearest" -> Nearest(to, x)
        [] how = "rounded" -> Rounded(from, to, x)

\* An application reads a number as a struct and hands it to a parameter.
Numeric(from, to, x) ==
  LET nm == IF from.concise = "DOUBLE" THEN DoubleToNumeric(from, from, x)
            ELSE ToNumeric(from, x)
  IN  FromTag(to, nm)

-----------------------------------------------------------------------------
Figure == <<"0", "1", "2", "3", "4", "5", "6", "7", "8", "9">>
Figures(n) ==
  LET count == CHOOSE k \in 1..10 : Power(k - 1) <= n /\ (k = 10 \/ n < Power(k))
  IN  [i \in 1..count |-> Figure[((n \div Power(count - i)) % 10) + 1]]

BugDecimal(n, scale) ==      \* no zeros between the point and the first figure
  LET f == Figures(n)
      w == Len(f) - scale
  IN  IF scale = 0 THEN f
      ELSE IF w > 0 THEN SubSeq(f, 1, w) \o <<".">> \o SubSeq(f, w + 1, Len(f))
      ELSE <<".">> \o f
Decimal(n, scale) ==
  LET f == Figures(n)
      w == Len(f) - scale
  IN  IF scale = 0 THEN f
      ELSE IF w > 0 THEN SubSeq(f, 1, w) \o <<".">> \o SubSeq(f, w + 1, Len(f))
      ELSE <<".">> \o [i \in 1..-w |-> "0"] \o f

MaxScale == [TINYINT |-> 3, SHORT |-> 5, LONG |-> 10, BIGINT |-> 18]   \* DEF_SCALE

\* ODBCCONVERT_CONV_TO_STRING.  What does not fit loses its first figures; the
\* least number of a type has no opposite and comes out as no number at all.
ToText(from, length, v) ==
  IF v = 0 THEN <<"0">>
  ELSE IF from.scale > MaxScale[from.concise] THEN <<"*", "*", "*">>
  ELSE IF v = Least(from.concise) THEN <<"?">>
  ELSE  LET sign == IF v < 0 THEN <<"-">> ELSE << >>
            text == Decimal(IF v < 0 THEN -v ELSE v, from.scale)
            room == length - Len(sign)
        IN  sign \o (IF Len(text) > room THEN SubSeq(text, Len(text) - room + 1, Len(text))
                     ELSE text)
\* ODBCCONVERT_CONV_TO_STRINGW counts the bytes of the buffer as characters and
\* only then gives each of them its bytes: a text longer than half of the
\* buffer is written beyond its end.
ToTextW(from, length, v) == ToText(from, length, v)

Ignored == {"+", ",", "'", "backquote", " "}
\* ODBCCONVERT_CONV_STRING_TO, the loop over the characters
ReadText(text) ==
  FoldLeft(LAMBDA r, c :
             IF r.done THEN r
             ELSE CASE
                  c \in Range(Figure) ->
                    [r EXCEPT !.n = @ * 10 + SelectInSeq(Figure, LAMBDA f : f = c) - 1,
                              !.d = IF r.decimal THEN @ * 10 ELSE @]
               [] c = "-" -> [r EXCEPT !.negative = TRUE]
               [] c = "." -> [r EXCEPT !.decimal = TRUE]
               [] c \in Ignored -> r
               [] OTHER -> [r EXCEPT !.done = TRUE],
           [n |-> 0, d |-> 1, decimal |-> FALSE, negative |-> FALSE, done |-> FALSE], text)
FromTextNumber(to, text) ==
  LET r == ReadText(text)
  IN  Store(to, Frac(IF r.negative THEN -r.n ELSE r.n, r.d * Power(to.scale)))

\* A CHAR column and a C string end where strlen says, so the text is all of it.
FromString(to, text) == FromTextNumber(to, text)
\* Of a VARCHAR column the length is taken behind the length, from the text's
\* own first two characters: always more than there is, so that the parser reads
\* on into what lies behind the text, `rest' and then zeros.
Zeros == <<"NUL", "NUL", "NUL">>
FromVarString(to, text, rest) == FromTextNumber(to, text \o rest \o Zeros)
\* ODBCCONVERT_CONV_STRINGW_TO, for columns of the multi-byte character sets:
\* as before, and only every second character is looked at.
EverySecond(s) == [i \in 1..((Len(s) + 1) \div 2) |-> s[2 * i - 1]]
FromVarStringW(to, text, rest) == FromTextNumber(to, EverySecond(text \o rest \o Zeros))
=============================================================================
