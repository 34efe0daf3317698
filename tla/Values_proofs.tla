----------------------------- MODULE Values_proofs -----------------------------
(***************************************************************************)
(* The conversions of a value keep it: a number, for all values and scales; *)
(* a date and a point in time, for every day and ten-thousandth of a second.*)
(* And the attributes of a statement and fields of its descriptors are read *)
(* as they were set, whatever was set before.                               *)
(***************************************************************************)
EXTENDS Values, SequenceTheorems, TLAPS

-----------------------------------------------------------------------------
(* Division, powers and casts *)

\* The powers of ten that occur.
LEMMA Powers ==
  /\ Power(0) = 1 /\ Power(1) = 10 /\ Power(2) = 100 /\ Power(3) = 1000
  /\ \A s \in 0..3 : Power(s) \in {1, 10, 100, 1000}
BY DEF Power

\* What a number is divided by.
Divisors == {1, 2, 4, 8, 10, 100, 1000}

\* C division rounds towards zero.
LEMMA QuotientIs ==
  ASSUME NEW a \in Int, NEW b \in Divisors
  PROVE  /\ Quotient(a, b) \in Int
         /\ a >= 0 => Quotient(a, b) * b <= a /\ a < Quotient(a, b) * b + b
         /\ a < 0 => a <= Quotient(a, b) * b /\ Quotient(a, b) * b < a + b
<1>1. \A x \in Nat, k \in Divisors : x \div k \in Nat /\ (x \div k) * k <= x /\ x < (x \div k) * k + k
  BY DEF Divisors
<1>2. CASE a >= 0
  BY <1>1, <1>2 DEF Quotient, Divisors
<1>3. CASE a < 0
  BY <1>1, <1>3 DEF Quotient, Divisors
<1> QED BY <1>2, <1>3

\* A cast leaves a number alone if the type can hold its magnitude.
LEMMA CastFits ==
  ASSUME NEW type, NEW m \in Nat, NEW v \in Int, Fits(type, m), -m <= v, v <= m
  PROVE  Cast(type, v) = v
<1>1. CASE type = "TINYINT"
  BY <1>1 DEF Cast, Fits, Width
<1>2. CASE type = "SHORT"
  BY <1>2 DEF Cast, Fits, Width
<1>3. CASE type \notin {"TINYINT", "SHORT"}
  BY <1>3 DEF Cast, Width
<1> QED BY <1>1, <1>2, <1>3

\* A whole result within one unit is not cut.
LEMMA CloseFits ==
  ASSUME NEW type, NEW a \in Int, NEW b \in Divisors, NEW q \in Int,
         q * b - a < b, a - q * b < b, Fits(type, Absolute(a) \div b + 1)
  PROVE  Cast(type, q) = q
<1> DEFINE m == Absolute(a) \div b + 1
<1>1. m \in Nat /\ -m <= q /\ q <= m
  BY DEF Absolute, Divisors
<1> HIDE DEF m
<1> QED BY <1>1, CastFits DEF m

-----------------------------------------------------------------------------
(* Cases and what is near *)

\* A record of a number, and a case of one.
Scaling == {"SHORT", "LONG", "BIGINT"}
IsRecord(f) == /\ f.concise \in Number /\ f.scale \in 0..3
               /\ f.scale # 0 => f.concise \in Scaling
IsCase(from, to, x) ==
  /\ IsRecord(from) /\ IsRecord(to)
  /\ \E n \in Int, d \in {1, 4} : x = Frac(n, d) /\ (from.concise \in Whole => d = 1)
\* The number as the source and as the target count it.
Counted(from, to, x) == x.n * Power(to.scale)
Unit(from, x) == x.d * Power(from.scale)
CanHold(from, to, x) == Fits(to.concise, Absolute(Counted(from, to, x)) \div Unit(from, x) + 1)

\* Units are numbers that the division lemmas know.
LEMMA UnitIs ==
  ASSUME NEW from, NEW to, NEW x, IsCase(from, to, x)
  PROVE  /\ x.n \in Int /\ x.d \in {1, 4} /\ Power(from.scale) \in {1, 10, 100, 1000}
         /\ Power(to.scale) \in {1, 10, 100, 1000}
         /\ Unit(from, x) \in Divisors /\ Counted(from, to, x) \in Int
         /\ from.concise \in Whole => x.d = 1 /\ Unit(from, x) = Power(from.scale)
         /\ from.concise \in Float => from.scale = 0 /\ Unit(from, x) = x.d
         /\ to.concise \in Float => to.scale = 0 /\ Power(to.scale) = 1 /\ Counted(from, to, x) = x.n
<1>1. PICK n \in Int, d \in {1, 4} : x = Frac(n, d) /\ (from.concise \in Whole => d = 1)
  BY DEF IsCase
<1>2. x.n = n /\ x.d = d
  BY <1>1 DEF Frac
<1>3. Power(from.scale) \in {1, 10, 100, 1000} /\ Power(to.scale) \in {1, 10, 100, 1000}
  BY Powers DEF IsCase, IsRecord
<1> DEFINE p == Power(from.scale) q == Power(to.scale)
<1> HIDE DEF p, q
<1>4. p \in {1, 10, 100, 1000} /\ q \in {1, 10, 100, 1000} /\ Power(0) = 1
  BY <1>3, Powers DEF p, q
<1>5. Unit(from, x) = d * p /\ Counted(from, to, x) = n * q
  BY <1>2 DEF Unit, Counted, p, q
<1>6. n * q \in Int
  BY <1>4
<1>7. from.concise \in Float => from.scale = 0 /\ p = 1
  BY <1>4 DEF IsCase, IsRecord, Float, Scaling, p
<1>8. to.concise \in Float => to.scale = 0 /\ q = 1
  BY <1>4 DEF IsCase, IsRecord, Float, Scaling, q
<1>9. from.concise \in Number
  BY DEF IsCase, IsRecord
<1>10. d * p \in Divisors
  <2>1. CASE from.concise \in Whole
    <3>1. d = 1
      BY <1>1, <2>1
    <3> QED BY <3>1, <1>4 DEF Divisors
  <2>2. CASE from.concise \in Float
    <3>1. p = 1
      BY <1>7, <2>2
    <3> QED BY <3>1 DEF Divisors
  <2> QED BY <2>1, <2>2, <1>9 DEF Number
<1>11. from.concise \in Whole => d = 1 /\ d * p = p
  BY <1>1, <1>4
<1>12. p = 1 => d * p = d
  OBVIOUS
<1>13. q = 1 => n * q = n
  OBVIOUS
<1> QED BY <1>2, <1>4, <1>5, <1>6, <1>7, <1>8, <1>10, <1>11, <1>12, <1>13 DEF p, q

\* A whole result that is within one unit is near.
LEMMA WholeNear ==
  ASSUME NEW from, NEW to, NEW x, IsCase(from, to, x), to.concise \in Whole, CanHold(from, to, x),
         NEW q \in Int, q * Unit(from, x) - Counted(from, to, x) < Unit(from, x),
         Counted(from, to, x) - q * Unit(from, x) < Unit(from, x)
  PROVE  Near(Frac(Cast(to.concise, q), 1), to.scale, x, from.scale)
<1> DEFINE b == Unit(from, x) a == Counted(from, to, x)
<1>1. b \in Divisors /\ a \in Int /\ x.n \in Int /\ x.d \in {1, 4}
      /\ Power(from.scale) \in {1, 10, 100, 1000} /\ Power(to.scale) \in {1, 10, 100, 1000}
  BY UnitIs
<1>2. Cast(to.concise, q) = q
  <2>1. q * b - a < b /\ a - q * b < b /\ Fits(to.concise, Absolute(a) \div b + 1)
    BY DEF CanHold
  <2> HIDE DEF a, b
  <2> QED BY <1>1, <2>1, CloseFits
<1>3. Near(Frac(q, 1), to.scale, x, from.scale) <=> Absolute(q * x.d * Power(from.scale) - x.n * 1 * Power(to.scale)) < 1 * x.d * Power(from.scale)
  BY DEF Near, Frac
<1> DEFINE p == Power(from.scale) r == Power(to.scale) n == x.n d == x.d
<1>4. b = d * p /\ a = n * r
  BY DEF Unit, Counted
<1> HIDE DEF p, r, n, d
<1>5. q * d * p = q * (d * p) /\ n * 1 * r = n * r /\ 1 * d * p = d * p
  BY <1>1 DEF p, r, n, d
<1>6. Absolute(q * b - a) < b
  <2> HIDE DEF a, b
  <2>1. b \in Int
    BY <1>1 DEF Divisors
  <2> QED BY <1>1, <2>1 DEF Absolute, a, b
<1>7. Absolute(q * d * p - n * 1 * r) < 1 * d * p
  BY <1>4, <1>5, <1>6
<1> QED BY <1>2, <1>3, <1>7 DEF p, r, n, d

-----------------------------------------------------------------------------
(* What is stored; the families of conversion *)

\* What is stored in a whole and in a floating type.
LEMMA StoreIs ==
  ASSUME NEW to, NEW x
  PROVE  /\ to.concise \in Whole => Store(to, x) = Frac(Cast(to.concise, Quotient(x.n, x.d)), 1)
         /\ to.concise \in Float => Store(to, x) = x
BY DEF Store, Whole, Float

\* A value that is kept as a fraction is exact.
LEMMA ExactNear ==
  ASSUME NEW from, NEW to, NEW x, IsCase(from, to, x), to.concise \in Float
  PROVE  /\ from.concise \in Float => Near(x, to.scale, x, from.scale)
         /\ Near(Frac(Counted(from, to, x), Unit(from, x)), to.scale, x, from.scale)
         /\ from.scale = 0 => Near(x, to.scale, x, from.scale)
<1> DEFINE p == Power(from.scale) n == x.n d == x.d
<1>1. /\ n \in Int /\ d \in {1, 4} /\ p \in {1, 10, 100, 1000} /\ Power(to.scale) = 1
      /\ Counted(from, to, x) = n /\ Unit(from, x) = d * p
      /\ from.concise \in Float => p = 1 /\ Power(from.scale) = 1
  <2>1. from.concise \in Float => from.scale = 0
    BY UnitIs
  <2>2. Unit(from, x) = d * p
    BY DEF Unit
  <2> QED BY <2>1, <2>2, UnitIs, Powers
<1>2. Near(x, to.scale, x, from.scale) <=> Absolute(n * d * p - n * d * 1) < d * d * p
  BY <1>1 DEF Near
<1>3. Near(Frac(n, d * p), to.scale, x, from.scale) <=> Absolute(n * d * p - n * (d * p) * 1) < d * p * d * p
  BY <1>1 DEF Near, Frac
<1>6. from.scale = 0 => p = 1
  BY Powers
<1> HIDE DEF n, d, p
<1>4. d * d * p > 0 /\ d * p * d * p > 0
  BY <1>1
<1>5. n * d * p = n * (d * p) * 1 /\ (p = 1 => n * d * p - n * d * 1 = 0)
  BY <1>1
<1>7. n * d * p - n * (d * p) * 1 = 0
  BY <1>1, <1>5
<1> QED BY <1>1, <1>2, <1>3, <1>4, <1>5, <1>6, <1>7 DEF Absolute

\* The families of conversion between numbers (getAdressFunction).
LEMMA Families ==
  ASSUME NEW from, NEW to, NEW x, IsCase(from, to, x)
  PROVE  LET how == GetAdressFunction(from, to, FALSE)
         IN  /\ from.concise = "TINYINT" => how = "plain"
             /\ from.concise = "SHORT" => how = IF to.concise # "BIGINT" /\ HasScale(from, to) THEN "scaled" ELSE "plain"
             /\ from.concise = "LONG" => how = IF HasScale(from, to) THEN "scaled" ELSE "plain"
             /\ from.concise = "BIGINT" => how = IF to.concise \in Float /\ HasScale(from, to) THEN "scaled" ELSE "rounded"
             /\ from.concise \in Float => how = IF to.concise \in Whole THEN "nearest" ELSE "plain"
<1> DEFINE how == GetAdressFunction(from, to, FALSE)
<1>0. to.concise \in Number
  BY DEF IsCase, IsRecord
<1>1. FromTinyInt(from, to) = "plain"
  BY <1>0 DEF FromTinyInt, Number, Whole, Float, Dates
<1> DEFINE scaled == HasScale(from, to)
<1> SUFFICES
      /\ from.concise = "TINYINT" => how = "plain"
      /\ from.concise = "SHORT" => how = IF to.concise # "BIGINT" /\ scaled THEN "scaled" ELSE "plain"
      /\ from.concise = "LONG" => how = IF scaled THEN "scaled" ELSE "plain"
      /\ from.concise = "BIGINT" => how = IF to.concise \in Float /\ scaled THEN "scaled" ELSE "rounded"
      /\ from.concise \in Float => how = IF to.concise \in Whole THEN "nearest" ELSE "plain"
  OBVIOUS
<1>2. CASE from.concise = "TINYINT"
  <2>1. how = "plain"
    BY <1>1, <1>2 DEF GetAdressFunction
  <2> HIDE DEF how, scaled
  <2> QED BY <2>1, <1>2 DEF Float
<1>3. CASE from.concise = "SHORT"
  <2>1. how = FromShort(from, to)
    BY <1>3 DEF GetAdressFunction
  <2>2. how = IF to.concise # "BIGINT" /\ scaled THEN "scaled" ELSE "plain"
    BY <2>1, <1>0, <1>1 DEF FromShort
  <2> HIDE DEF how, scaled
  <2> QED BY <2>2, <1>3 DEF Float
<1>4. CASE from.concise = "LONG"
  <2>1. how = FromLong(from, to)
    BY <1>4 DEF GetAdressFunction
  <2>2. FromLong(from, to) = IF HasScale(from, to) THEN "scaled" ELSE "plain"
    BY <1>0, <1>1 DEF FromLong
  <2> HIDE DEF how
  <2> QED BY <2>1, <2>2, <1>4 DEF Float
<1>5. CASE from.concise = "BIGINT"
  <2>1. how = FromBigint(from, to)
    BY <1>5 DEF GetAdressFunction
  <2>2. FromBigint(from, to) = IF to.concise \in Float /\ scaled THEN "scaled" ELSE "rounded"
    BY <1>0 DEF FromBigint, Number, Whole, Float
  <2> HIDE DEF how, scaled
  <2> QED BY <2>1, <2>2, <1>5 DEF Float
<1>6. CASE from.concise \in Float
  <2>1. how = FromFloat(from, to)
    <3>1. CASE from.concise = "FLOAT"
      BY <3>1 DEF GetAdressFunction
    <3>2. CASE from.concise = "DOUBLE"
      <4>1. to.concise # "NUMERIC"
        BY <1>0 DEF Number, Whole, Float
      <4>2. how = FromDouble(from, to)
        BY <3>2 DEF GetAdressFunction
      <4> QED BY <4>1, <4>2 DEF FromDouble
    <3> QED BY <3>1, <3>2, <1>6 DEF Float
  <2>2. FromFloat(from, to) = IF to.concise \in Whole THEN "nearest" ELSE "plain"
    BY <1>0 DEF FromFloat, Number, Whole, Float
  <2>3. from.concise \notin {"TINYINT", "SHORT", "LONG", "BIGINT"}
    BY <1>6 DEF Float
  <2> HIDE DEF how, scaled
  <2> QED BY <2>1, <2>2, <2>3
<1>7. from.concise \in Number
  BY DEF IsCase, IsRecord
<1> HIDE DEF how, scaled
<1> QED BY <1>2, <1>3, <1>4, <1>5, <1>6, <1>7 DEF Number, Whole

-----------------------------------------------------------------------------
(* The conversions with a scale *)

\* Through a double.
LEMMA ScaledNear ==
  ASSUME NEW from, NEW to, NEW x, IsCase(from, to, x), CanHold(from, to, x)
  PROVE  Near(Scaled(from, to, x), to.scale, x, from.scale)
<1> DEFINE a == Counted(from, to, x) b == Unit(from, x)
<1>1. Scaled(from, to, x) = Store(to, Frac(a, b))
  BY DEF Scaled, Counted, Unit
<1>2. a \in Int /\ b \in Divisors
  BY UnitIs
<1>3. Frac(a, b).n = a /\ Frac(a, b).d = b
  BY DEF Frac
<1>4. to.concise \in Number
  BY DEF IsCase, IsRecord
<1>5. CASE to.concise \in Float
  <2>1. Scaled(from, to, x) = Frac(a, b)
    BY <1>1, <1>5, StoreIs
  <2> QED BY <2>1, <1>5, ExactNear
<1>6. CASE to.concise \in Whole
  <2> DEFINE q == Quotient(a, b)
  <2>1. Scaled(from, to, x) = Frac(Cast(to.concise, q), 1)
    BY <1>1, <1>3, <1>6, StoreIs
  <2>2. q \in Int /\ q * b - a < b /\ a - q * b < b
    <3> HIDE DEF a, b
    <3>1. q \in Int /\ (a >= 0 => q * b <= a /\ a < q * b + b) /\ (a < 0 => a <= q * b /\ q * b < a + b)
      BY <1>2, QuotientIs
    <3>2. b \in Nat \ {0} /\ q * b \in Int
      BY <1>2, <3>1 DEF Divisors
    <3> HIDE DEF q
    <3> QED BY <1>2, <3>1, <3>2
  <2> HIDE DEF q
  <2> QED BY <2>1, <2>2, <1>6, WholeNear
<1> QED BY <1>4, <1>5, <1>6 DEF Number

\* Out of a floating number.
LEMMA NearestNear ==
  ASSUME NEW from, NEW to, NEW x, IsCase(from, to, x), CanHold(from, to, x),
         from.concise \in Float, to.concise \in Whole
  PROVE  Near(Nearest(to, x), to.scale, x, from.scale)
<1> DEFINE a == Counted(from, to, x) b == Unit(from, x)
           e == IF 2 * a < 0 THEN 2 * a - b ELSE 2 * a + b
           q == Quotient(e, 2 * b)
<1>1. a \in Int /\ b \in {1, 4} /\ b = x.d /\ a = x.n * Power(to.scale) /\ x.n \in Int
      /\ Power(to.scale) \in {1, 10, 100, 1000}
  BY UnitIs DEF Counted
<1>2. Nearest(to, x) = Store(to, Frac(e, 2 * b))
  <2> DEFINE p == Power(to.scale) n == x.n
  <2>1. 2 * n * p = 2 * (n * p)
    <3> HIDE DEF n, p
    <3> QED BY <1>1 DEF n, p
  <2>2. Nearest(to, x) = Store(to, Frac(IF 2 * n * p < 0 THEN 2 * n * p - x.d ELSE 2 * n * p + x.d, 2 * x.d))
    BY DEF Nearest, Frac
  <2> HIDE DEF n, p
  <2> QED BY <2>1, <2>2, <1>1 DEF n, p
<1>3. Nearest(to, x) = Frac(Cast(to.concise, q), 1)
  BY <1>2, StoreIs DEF Frac
<1>4. q \in Int /\ q * b - a < b /\ a - q * b < b
  <2> HIDE DEF a, b
  <2>1. e \in Int /\ 2 * b \in Divisors
    BY <1>1 DEF Divisors
  <2>2. /\ q \in Int
        /\ e >= 0 => q * (2 * b) <= e /\ e < q * (2 * b) + 2 * b
        /\ e < 0 => e <= q * (2 * b) /\ q * (2 * b) < e + 2 * b
    BY <2>1, QuotientIs
  <2> HIDE DEF q
  <2>3. CASE b = 1
    BY <1>1, <2>2, <2>3
  <2>4. CASE b = 4
    BY <1>1, <2>2, <2>4
  <2> QED BY <1>1, <2>3, <2>4
<1> HIDE DEF q
<1> QED BY <1>3, <1>4, WholeNear

\* Through a 64 bit integer: half away from zero, but none to scale 0.
LEMMA RescaleIs ==
  ASSUME NEW v \in Int, NEW s \in 0..3, NEW t \in 0..3
  PROVE  LET q == Rescale(v, s - t, s)
         IN  /\ q \in Int
             /\ q * Power(t) - v * Power(s) < Power(t) /\ v * Power(s) - q * Power(t) < Power(t)
<1> DEFINE q == Rescale(v, s - t, s)
<1>0. Power(0) = 1 /\ Power(1) = 10 /\ Power(2) = 100 /\ Power(3) = 1000
  BY Powers
<1> SUFFICES /\ q \in Int
             /\ q * Power(t) - v * Power(s) < Power(t) /\ v * Power(s) - q * Power(t) < Power(t)
  OBVIOUS
<1>1. CASE s = t
  <2>1. q = v
    BY <1>1 DEF Rescale
  <2>2. Power(t) \in {1, 10, 100, 1000}
    BY Powers
  <2> DEFINE p == Power(t)
  <2> HIDE DEF q, p
  <2>3. v * p - v * p < p
    BY <2>2 DEF p
  <2> QED BY <1>1, <2>1, <2>3 DEF p
<1>2. CASE s > t
  <2>1. q = v * Power(s - t)
    BY <1>2 DEF Rescale
  <2>2. s - t \in {1, 2, 3}
    BY <1>2
  <2>3. Power(s - t) * Power(t) = Power(s) /\ Power(s - t) \in Nat /\ Power(t) \in Nat \ {0} /\ Power(s) \in Nat
    BY <1>0, <1>2, <2>2
  <2> DEFINE m == Power(s - t) p == Power(t) r == Power(s)
  <2> HIDE DEF m, p, r, q
  <2>4. q = v * m /\ m * p = r /\ m \in Nat /\ p \in Nat \ {0} /\ r \in Nat
    BY <2>1, <2>3 DEF m, p, r
  <2>5. q \in Int /\ q * p = v * r
    <3>1. (v * m) * p = v * (m * p)
      BY <2>4
    <3> QED BY <2>4, <3>1
  <2> QED BY <2>4, <2>5 DEF p, r
<1>3. CASE s < t
  <2> DEFINE by == s - t
             half == IF s = 0 THEN 0 ELSE 5 * Power(-by - 1)
             e == IF v < 0 THEN v - half ELSE v + half
             m == Power(-by) p == Power(t) r == Power(s)
  <2>1. q = Quotient(e, m)
    BY <1>3 DEF Rescale
  <2>2. -by \in {1, 2, 3} /\ -by = t - s /\ -by - 1 \in {0, 1, 2}
    BY <1>3
  <2>3. m \in {10, 100, 1000} /\ r \in {1, 10, 100} /\ p = r * m /\ (half = 0 \/ 2 * half = m) /\ half \in Int
    <3> HIDE DEF by
    <3>1. -by \in {1, 2, 3} /\ s + (-by) = t /\ by \in Int
      BY <1>3 DEF by
    <3>2. CASE -by = 1
      <4>1. m = 10 /\ Power(-by - 1) = 1
        BY <3>2, <1>0
      <4> QED BY <4>1, <3>1, <3>2, <1>0
    <3>3. CASE -by = 2
      <4>1. m = 100 /\ Power(-by - 1) = 10
        BY <3>3, <1>0
      <4> QED BY <4>1, <3>1, <3>3, <1>0
    <3>4. CASE -by = 3
      <4>1. m = 1000 /\ Power(-by - 1) = 100
        BY <3>4, <1>0
      <4> QED BY <4>1, <3>1, <3>4, <1>0
    <3> QED BY <3>1, <3>2, <3>3, <3>4
  <2> HIDE DEF half, m, p, r
  <2>4. e \in Int /\ m \in Divisors
    BY <2>3 DEF Divisors
  <2>5. /\ q \in Int
        /\ e >= 0 => q * m <= e /\ e < q * m + m
        /\ e < 0 => e <= q * m /\ q * m < e + m
    BY <2>1, <2>4, QuotientIs
  <2> HIDE DEF q
  <2>6. q * m - v < m /\ v - q * m < m
    <3>1. q * m \in Int
      BY <2>3, <2>5
    <3> DEFINE z == q * m
    <3> HIDE DEF z
    <3> QED BY <2>3, <2>5, <3>1 DEF z
  <2>7. q * p - v * r < p /\ v * r - q * p < p
    <3> DEFINE z == q * m
    <3>1. q * p = z * r /\ z \in Int /\ p = m * r
      BY <2>3, <2>5
    <3>2. z - v < m /\ v - z < m
      BY <2>6
    <3> HIDE DEF z
    <3>3. z * r - v * r < m * r /\ v * r - z * r < m * r
      BY <2>3, <3>1, <3>2
    <3> QED BY <3>1, <3>3
  <2> QED BY <2>5, <2>7 DEF p, r
<1> QED BY <1>1, <1>2, <1>3

-----------------------------------------------------------------------------
(* Every conversion *)

\* Every conversion of a number comes near it, if the target can hold it.
LEMMA ToNumberNear ==
  ASSUME NEW from, NEW to, NEW x, IsCase(from, to, x), CanHold(from, to, x),
         ~(from.concise = "TINYINT" /\ x.n < 0),
         ~(from.concise = "TINYINT" /\ HasScale(from, to)),
         ~(from.concise = "SHORT" /\ to.concise = "BIGINT" /\ HasScale(from, to))
  PROVE  Near(ToNumber(from, to, x), to.scale, x, from.scale)
<1> DEFINE how == GetAdressFunction(from, to, FALSE)
<1>0. /\ from.concise \in Number /\ to.concise \in Number /\ from.scale \in 0..3 /\ to.scale \in 0..3
      /\ x.n \in Int /\ x.d \in {1, 4}
  BY UnitIs DEF IsCase, IsRecord
<1>1. CASE how = "scaled"
  <2>1. ToNumber(from, to, x) = Scaled(from, to, x)
    BY <1>1 DEF ToNumber
  <2> QED BY <2>1, ScaledNear
<1>2. CASE how = "nearest"
  <2>1. ToNumber(from, to, x) = Nearest(to, x)
    BY <1>2 DEF ToNumber
  <2>2. from.concise \in Float /\ to.concise \in Whole
    BY <1>0, <1>2, Families DEF Number, Whole
  <2> QED BY <2>1, <2>2, NearestNear
<1>3. CASE how = "rounded"
  <2>1. ToNumber(from, to, x) = Rounded(from, to, x)
    BY <1>3 DEF ToNumber
  <2>2. from.concise = "BIGINT" /\ ~(to.concise \in Float /\ HasScale(from, to))
    BY <1>0, <1>3, Families DEF Number, Whole
  <2>3. x.d = 1 /\ Unit(from, x) = Power(from.scale)
    BY <2>2, UnitIs DEF Whole
  <2> DEFINE q == Rescale(x.n, to.scale - from.scale, to.scale)
  <2>4. /\ q \in Int /\ q * Power(from.scale) - x.n * Power(to.scale) < Power(from.scale)
        /\ x.n * Power(to.scale) - q * Power(from.scale) < Power(from.scale)
    BY <1>0, RescaleIs
  <2>5. Rounded(from, to, x) = Store(to, Frac(q, 1)) /\ Frac(q, 1).n = q /\ Frac(q, 1).d = 1
    BY DEF Rounded, Frac
  <2>6. CASE to.concise \in Float
    <3>1. from.scale = 0 /\ to.scale = 0
      BY <2>2, <2>6 DEF HasScale
    <3>2. q = x.n
      BY <3>1 DEF Rescale
    <3>3. x = Frac(x.n, 1)
      BY <2>3 DEF IsCase, Frac
    <3>4. Rounded(from, to, x) = x
      BY <2>5, <2>6, <3>2, <3>3, StoreIs
    <3> QED BY <2>1, <2>6, <3>1, <3>4, ExactNear
  <2>7. CASE to.concise \in Whole
    <3>1. Rounded(from, to, x) = Frac(Cast(to.concise, Quotient(q, 1)), 1)
      BY <2>5, <2>7, StoreIs
    <3>2. Quotient(q, 1) = q
      <4> HIDE DEF q
      <4> QED BY <2>4 DEF Quotient
    <3> HIDE DEF q
    <3> QED BY <2>1, <2>3, <2>4, <2>7, <3>1, <3>2, WholeNear DEF Counted
  <2> QED BY <1>0, <2>6, <2>7 DEF Number
<1>4. CASE how = "plain"
  <2>1. ToNumber(from, to, x) = Plain(from, to, x)
    BY <1>4 DEF ToNumber
  <2>2. Unsigned(from, x) = x
    <3>1. ~(from.concise = "TINYINT" /\ x.n < 0)
      OBVIOUS
    <3> QED BY <3>1 DEF Unsigned
  <2>3. Plain(from, to, x) = Store(to, x)
    BY <2>2 DEF Plain
  <2>4. from.concise \in Float => to.concise \in Float
    BY <1>0, <1>4, Families DEF Number
  <2>5. from.concise \in Whole => ~HasScale(from, to) /\ x.d = 1
    <3>1. from.concise \in Whole => x.d = 1
      BY UnitIs
    <3>2. from.concise = "TINYINT" => ~HasScale(from, to)
      OBVIOUS
    <3>3. from.concise = "SHORT" => ~HasScale(from, to)
      BY <1>4, Families
    <3>4. from.concise = "LONG" => ~HasScale(from, to)
      BY <1>4, Families
    <3>5. from.concise # "BIGINT"
      BY <1>4, Families
    <3> QED BY <3>1, <3>2, <3>3, <3>4, <3>5 DEF Whole
  <2>6. CASE to.concise \in Float
    <3>1. Store(to, x) = x
      BY <2>6, StoreIs
    <3>2. from.concise \in Float \/ from.scale = 0
      BY <1>0, <2>5 DEF HasScale, Number
    <3> QED BY <2>1, <2>3, <2>6, <3>1, <3>2, ExactNear
  <2>7. CASE to.concise \in Whole
    <3>1. from.concise \in Whole
      BY <1>0, <2>4, <2>7 DEF Number, Whole, Float
    <3>2. from.scale = 0 /\ to.scale = 0 /\ x.d = 1 /\ Power(0) = 1
      BY <2>5, <3>1, Powers DEF HasScale
    <3>3. Store(to, x) = Frac(Cast(to.concise, Quotient(x.n, 1)), 1) /\ Quotient(x.n, 1) = x.n
      BY <1>0, <2>7, <3>2, StoreIs DEF Quotient
    <3>4. Unit(from, x) = 1 /\ Counted(from, to, x) = x.n
      BY <1>0, <3>2 DEF Unit, Counted
    <3>5. x.n * 1 - x.n < 1
      BY <1>0
    <3> QED BY <1>0, <2>1, <2>3, <2>7, <3>3, <3>4, <3>5, WholeNear
  <2> QED BY <1>0, <2>6, <2>7 DEF Number
<1>5. how \in {"scaled", "nearest", "rounded", "plain"}
  BY <1>0, Families DEF Number, Whole
<1> QED BY <1>1, <1>2, <1>3, <1>4, <1>5

\* So does a SQL_NUMERIC_STRUCT, out of a whole number and into a parameter.
LEMMA NumericNear ==
  ASSUME NEW from, NEW to, NEW x, IsCase(from, to, x), CanHold(from, to, x), from.concise \in Whole,
         ~(from.concise = "TINYINT" /\ x.n < 0)
  PROVE  Near(Numeric(from, to, x), to.scale, x, from.scale)
<1> DEFINE n == x.n mag == IF n < 0 THEN -n ELSE n
           p == Power(from.scale) r == Power(to.scale)
<1>0. /\ to.concise \in Number /\ n \in Int /\ x.d = 1 /\ p \in {1, 10, 100, 1000} /\ r \in {1, 10, 100, 1000}
      /\ Unit(from, x) = p /\ Counted(from, to, x) = n * r
  BY UnitIs DEF IsCase, IsRecord, Counted
<1>1. Numeric(from, to, x) = FromTag(to, Struct(n, from.scale))
  <2>1. from.concise # "DOUBLE"
    BY DEF Whole
  <2>2. Unsigned(from, x) = x
    BY DEF Unsigned
  <2> QED BY <2>1, <2>2 DEF Numeric, ToNumeric
<1> DEFINE nm == Struct(n, from.scale)
<1>2. nm.mag = mag /\ nm.positive = (n >= 0) /\ nm.scale = from.scale
  BY DEF Struct
<1> HIDE DEF nm
<1>3. CASE to.concise \in Float
  <2>1. FromTag(to, nm) = Store(to, Frac(IF n >= 0 THEN mag ELSE -mag, p))
    BY <1>2, <1>3 DEF FromTag, Frac
  <2>2. (IF n >= 0 THEN mag ELSE -mag) = n
    BY <1>0
  <2>3. r = 1 /\ Counted(from, to, x) = n
    BY <1>3, UnitIs
  <2>4. FromTag(to, nm) = Frac(Counted(from, to, x), Unit(from, x))
    BY <1>0, <1>3, <2>1, <2>2, <2>3, StoreIs
  <2> QED BY <1>1, <1>3, <2>4, ExactNear DEF nm
<1>4. CASE to.concise \in Whole
  <2> DEFINE u == Quotient(mag * r, p) q == IF n >= 0 THEN u ELSE -u
  <2>1. to.concise \notin Float
    BY <1>4 DEF Whole, Float
  <2>2. FromTag(to, nm) = Store(to, Frac(q, 1))
    BY <1>2, <2>1 DEF FromTag, Frac
  <2>3. FromTag(to, nm) = Frac(Cast(to.concise, Quotient(q, 1)), 1)
    <3>1. Frac(q, 1).n = q /\ Frac(q, 1).d = 1
      BY DEF Frac
    <3> HIDE DEF q
    <3> QED BY <1>4, <2>2, <3>1, StoreIs
  <2>4. mag * r \in Nat /\ p \in Divisors /\ p \in Nat
    <3> HIDE DEF p, r
    <3> QED BY <1>0 DEF Divisors
  <2>5. u \in Int /\ u * p <= mag * r /\ mag * r < u * p + p
    <3> DEFINE w == mag * r
    <3>1. w \in Nat /\ p \in Divisors
      BY <2>4
    <3> HIDE DEF w, p
    <3> QED BY <3>1, QuotientIs DEF w
  <2>6. q \in Int /\ q * p - n * r < p /\ n * r - q * p < p
    <3> HIDE DEF u, p, r
    <3>1. u * p \in Int /\ n * r \in Int /\ (-u) * p = -(u * p) /\ (-n) * r = -(n * r)
      BY <1>0, <2>5
    <3>2. CASE n >= 0
      BY <1>0, <2>5, <3>1, <3>2
    <3>3. CASE n < 0
      <4>1. q = -u /\ mag = -n
        BY <1>0, <3>3
      <4> DEFINE y == u * p z == n * r
      <4>2. y \in Int /\ z \in Int /\ q * p = -y /\ mag * r = -z /\ y <= mag * r /\ mag * r < y + p
        BY <2>5, <3>1, <4>1
      <4> HIDE DEF y, z, q, mag
      <4>3. q * p - z < p /\ z - q * p < p
        BY <1>0, <4>2
      <4> QED BY <2>5, <4>1, <4>3 DEF z
    <3> QED BY <1>0, <3>2, <3>3
  <2>7. Quotient(q, 1) = q
    <3> HIDE DEF q
    <3> QED BY <2>6 DEF Quotient
  <2> HIDE DEF q, p, r
  <2> QED BY <1>0, <1>1, <1>4, <2>3, <2>6, <2>7, WholeNear DEF nm
<1> QED BY <1>0, <1>3, <1>4 DEF Number

-----------------------------------------------------------------------------
(* The invariant of the numbers *)

\* A record of the cases is that of a number.
LEMMA RecordsAre ==
  ASSUME NEW types \in SUBSET Number, NEW sqlda, NEW f \in Records(types, sqlda)
  PROVE  IsRecord(f) /\ f.concise \in types
<1>1. PICK type \in types : f \in {Record(type, s, sqlda) : s \in Scalable(type)}
  BY DEF Records
<1>2. PICK s \in Scalable(type) : f = Record(type, s, sqlda)
  BY <1>1
<1>3. f.concise = type /\ f.scale = s
  BY <1>2 DEF Record
<1>4. s \in 0..3 /\ (s # 0 => type \in Scaling)
  BY <1>2, ValueConstants DEF Scalable, Scaling
<1> QED BY <1>3, <1>4 DEF IsRecord

\* A value of the cases is a fraction; of a whole type, a whole number.
LEMMA InputsAre ==
  ASSUME NEW type, NEW x \in Inputs(type)
  PROVE  \E n \in Int, d \in {1, 4} : x = Frac(n, d) /\ (type \in Whole => d = 1)
<1>1. CASE type \in Float
  <2>1. PICK n \in Numbers, d \in {1, 4} : x = Frac(n, d)
    BY <1>1 DEF Inputs
  <2> QED BY <1>1, <2>1, ValueConstants DEF Whole, Float
<1>2. CASE type \notin Float
  <2>1. PICK n \in Numbers : x = Frac(n, 1)
    BY <1>2 DEF Inputs
  <2> QED BY <2>1, ValueConstants
<1> QED BY <1>1, <1>2

\* What the conversion is given.
NumberItem(i) ==
  /\ DOMAIN i = {"kind", "from", "to", "value"}
  /\ IsCase(i.from, i.to, i.value)

\* The two kinds of cases about numbers.
LEMMA NumberCasesAre ==
  ASSUME NEW i \in NumberCases
  PROVE  NumberItem(i) /\ i.kind = "number"
<1>1. PICK f \in Records(Number, TRUE) \cup Records(Number, FALSE) :
        i \in [kind : {"number"}, from : {f}, to : Records(Number, ~f.sqlda), value : Inputs(f.concise)]
  BY DEF NumberCases
<1>2. /\ DOMAIN i = {"kind", "from", "to", "value"} /\ i.kind = "number" /\ i.from = f
      /\ i.to \in Records(Number, ~f.sqlda) /\ i.value \in Inputs(f.concise)
  BY <1>1
<1>3. IsRecord(f) /\ IsRecord(i.to)
  BY <1>2, RecordsAre
<1> QED BY <1>2, <1>3, InputsAre DEF NumberItem, IsCase

LEMMA NumericCasesAre ==
  ASSUME NEW i \in NumericCases
  PROVE  NumberItem(i) /\ i.kind = "numeric" /\ i.from.concise \in Whole
<1>1. PICK f \in Records({"TINYINT", "SHORT", "LONG", "BIGINT"}, TRUE) :
        i \in [kind : {"numeric"}, from : {f}, to : Records(Number, TRUE), value : Inputs(f.concise)]
  BY DEF NumericCases
<1>2. /\ DOMAIN i = {"kind", "from", "to", "value"} /\ i.kind = "numeric" /\ i.from = f
      /\ i.to \in Records(Number, TRUE) /\ i.value \in Inputs(f.concise)
  BY <1>1
<1>3. IsRecord(f) /\ IsRecord(i.to) /\ f.concise \in Whole
  BY <1>2, RecordsAre DEF Whole, Number
<1> QED BY <1>2, <1>3, InputsAre DEF NumberItem, IsCase

\* Every kind of case is told by its name.
LEMMA KindInit ==
  ASSUME Init
  PROVE  /\ "kind" \in DOMAIN item
         /\ item.kind = "number" => item \in NumberCases
         /\ item.kind = "numeric" => item \in NumericCases
         /\ item.kind = "stamp" => item \in StampCases
         /\ item.kind = "day" => item \in DayCases
         /\ item.kind = "cursor" => item = CursorCase
         /\ item.kind = "fields" => item = FieldCase
<1>1. CASE item \in NumberCases
  BY <1>1, NumberCasesAre DEF NumberItem
<1>2. CASE item \in NumericCases
  BY <1>2, NumericCasesAre DEF NumberItem
<1>3. CASE item \in TextCases
  <2>1. PICK f \in Records(Whole, TRUE) :
          item \in [kind : {"text"}, from : {f}, wide : BOOLEAN, length : {4, 40},
                   rest : {<< >>, <<"7">>}, value : Inputs(f.concise)]
    BY <1>3 DEF TextCases
  <2> QED BY <2>1
<1>4. CASE item \in StampCases
  <2>1. item.kind = "stamp" /\ "kind" \in DOMAIN item
    BY <1>4 DEF StampCases
  <2> QED BY <1>4, <2>1
<1>5. CASE item \in DayCases
  <2>1. item.kind = "day" /\ "kind" \in DOMAIN item
    BY <1>5 DEF DayCases
  <2> QED BY <1>5, <2>1
<1>6. CASE item \in ColumnCases
  BY <1>6 DEF ColumnCases
<1>7. CASE item \in {CursorCase, FieldCase}
  BY <1>7 DEF CursorCase, FieldCase
<1> QED BY <1>1, <1>2, <1>3, <1>4, <1>5, <1>6, <1>7 DEF Init

\* A case, with what the conversion made of it once that is done.
NumberInv ==
  /\ "kind" \in DOMAIN item
  /\ item.kind = "number" =>
       \E i \in NumberCases : item \in {i, With(i, "result", ToNumber(i.from, i.to, i.value))}
  /\ item.kind = "numeric" =>
       \E i \in NumericCases : item \in {i, With(i, "result", Numeric(i.from, i.to, i.value))}

LEMMA NumberInit == Init => NumberInv
BY KindInit DEF NumberInv

-----------------------------------------------------------------------------
(* Its proof *)

\* A result leaves the kind of the case.
LEMMA ResultKind ==
  ASSUME NEW r, Result(r), "kind" \in DOMAIN item
  PROVE  "kind" \in DOMAIN item' /\ item'.kind = item.kind
<1>1. item' = With(item, "result", r)
  BY DEF Result
<1>2. DOMAIN item' = DOMAIN item \cup {"result"} /\ item'["kind"] = item["kind"]
  BY <1>1 DEF With
<1> QED BY <1>2

\* Every action keeps the kind of the case, and is about one kind.
KindOf(kind, action) == item.kind = kind => action
LEMMA KindKept ==
  ASSUME "kind" \in DOMAIN item, Next
  PROVE  /\ "kind" \in DOMAIN item' /\ item'.kind = item.kind
         /\ KindOf("number", ConvertNumber) /\ KindOf("numeric", ConvertNumeric)
         /\ KindOf("stamp", ConvertStamp) /\ KindOf("day", NextDay)
         /\ KindOf("cursor", SetCursor) /\ KindOf("fields", SetUp \/ SetField)
<1>1. CASE ConvertNumber
  <2>1. item.kind = "number" /\ \E r : Result(r)
    BY <1>1 DEF ConvertNumber, Pending
  <2> QED BY <1>1, <2>1, ResultKind DEF KindOf
<1>2. CASE ConvertNumeric
  <2>1. item.kind = "numeric" /\ \E r : Result(r)
    BY <1>2 DEF ConvertNumeric, Pending
  <2> QED BY <1>2, <2>1, ResultKind DEF KindOf
<1>3. CASE ConvertText
  <2>1. item.kind = "text" /\ \E r : Result(r)
    BY <1>3 DEF ConvertText, Pending
  <2> QED BY <2>1, ResultKind DEF KindOf
<1>4. CASE ConvertStamp
  <2>1. item.kind = "stamp" /\ \E r : Result(r)
    BY <1>4 DEF ConvertStamp, Pending
  <2> QED BY <1>4, <2>1, ResultKind DEF KindOf
<1>5. CASE Describe
  <2>1. item.kind = "column" /\ \E r : Result(r)
    BY <1>5 DEF Describe, Pending
  <2> QED BY <2>1, ResultKind DEF KindOf
<1>6. CASE NextDay
  <2>1. item.kind = "day" /\ "kind" \in DOMAIN item' /\ item'.kind = item.kind
    BY <1>6 DEF NextDay
  <2> QED BY <1>6, <2>1 DEF KindOf
<1>7. CASE SetCursor
  <2>1. item.kind = "cursor" /\ \E c, d : Cursor(c, d)
    BY <1>7 DEF SetCursor
  <2>2. "kind" \in DOMAIN item' /\ item'.kind = item.kind
    BY <2>1 DEF Cursor
  <2> QED BY <1>7, <2>1, <2>2 DEF KindOf
<1>8. CASE SetUp
  <2>1. item.kind = "fields" /\ "kind" \in DOMAIN item' /\ item'.kind = item.kind
    BY <1>8 DEF SetUp, Pending
  <2> QED BY <1>8, <2>1 DEF KindOf
<1>9. CASE SetField
  <2>1. PICK c \in A!Calls(Fields) : item' = With(With(item, "call", c), "result", A!Apply(item.s, c))
    BY <1>9 DEF SetField
  <2>2. "kind" \in DOMAIN item' /\ item'.kind = item.kind
    BY <2>1 DEF With
  <2>3. item.kind = "fields"
    BY <1>9 DEF SetField, Pending
  <2> QED BY <1>9, <2>2, <2>3 DEF KindOf
<1> QED BY <1>1, <1>2, <1>3, <1>4, <1>5, <1>6, <1>7, <1>8, <1>9 DEF Next

\* Every action keeps the invariant.
LEMMA NumberNext == NumberInv /\ [Next]_item => NumberInv'
<1> SUFFICES ASSUME NumberInv, Next PROVE NumberInv'
  BY DEF NumberInv
<1>0. "kind" \in DOMAIN item' /\ item'.kind = item.kind
  BY KindKept DEF NumberInv
<1>1. CASE item.kind = "number"
  <2>0. ConvertNumber
    BY <1>1, KindKept DEF NumberInv, KindOf
  <2>1. PICK i \in NumberCases : item \in {i, With(i, "result", ToNumber(i.from, i.to, i.value))}
    BY <1>1 DEF NumberInv
  <2>2. item = i
    <3>1. "result" \in DOMAIN With(i, "result", ToNumber(i.from, i.to, i.value))
      BY DEF With
    <3> QED BY <2>0, <2>1, <3>1 DEF ConvertNumber, Pending
  <2>3. item' = With(i, "result", ToNumber(i.from, i.to, i.value))
    BY <2>0, <2>2 DEF ConvertNumber, Result
  <2> QED BY <1>0, <1>1, <2>3 DEF NumberInv
<1>2. CASE item.kind = "numeric"
  <2>0. ConvertNumeric
    BY <1>2, KindKept DEF NumberInv, KindOf
  <2>1. PICK i \in NumericCases : item \in {i, With(i, "result", Numeric(i.from, i.to, i.value))}
    BY <1>2 DEF NumberInv
  <2>2. item = i
    <3>1. "result" \in DOMAIN With(i, "result", Numeric(i.from, i.to, i.value))
      BY DEF With
    <3> QED BY <2>0, <2>1, <3>1 DEF ConvertNumeric, Pending
  <2>3. item' = With(i, "result", Numeric(i.from, i.to, i.value))
    BY <2>0, <2>2 DEF ConvertNumeric, Result
  <2> QED BY <1>0, <1>2, <2>3 DEF NumberInv
<1>3. CASE item.kind \notin {"number", "numeric"}
  BY <1>0, <1>3 DEF NumberInv
<1> QED BY <1>1, <1>2, <1>3

\* The guard of the property is what the conversions need.
LEMMA InRangeIs ==
  ASSUME NEW i, InRange(i)
  PROVE  CanHold(i.from, i.to, i.value)
BY DEF InRange, CanHold, Counted, Unit

\* A result leaves the other fields of a case.
LEMMA FieldsKept ==
  ASSUME NEW i, NumberItem(i), NEW r
  PROVE  LET g == With(i, "result", r)
         IN  g.from = i.from /\ g.to = i.to /\ g.value = i.value /\ g.result = r /\ g.kind = i.kind
<1> DEFINE g == With(i, "result", r)
<1>1. /\ g["from"] = i["from"] /\ g["to"] = i["to"] /\ g["value"] = i["value"] /\ g["kind"] = i["kind"]
      /\ g["result"] = r
  <2>1. DOMAIN i = {"kind", "from", "to", "value"}
    BY DEF NumberItem
  <2> QED BY <2>1 DEF With
<1> QED BY <1>1

\* The invariant and the lemmas about the conversions give the property.
LEMMA NumberImplies == NumberInv => NumberKept
<1> SUFFICES ASSUME NumberInv, Done("number") \/ Done("numeric"),
                    ~Unsigned8(item), ~(item.kind = "number" /\ Unscaled(item)), InRange(item)
             PROVE  Near(item.result, item.to.scale, item.value, item.from.scale)
  BY DEF NumberKept
<1>1. CanHold(item.from, item.to, item.value)
  BY InRangeIs
<1>2. ~(item.from.concise = "TINYINT" /\ item.value.n < 0)
  BY DEF Unsigned8
<1>3. CASE Done("number")
  <2>1. item.kind = "number" /\ "result" \in DOMAIN item
    BY <1>3 DEF Done
  <2>2. PICK i \in NumberCases : item \in {i, With(i, "result", ToNumber(i.from, i.to, i.value))}
    BY <2>1 DEF NumberInv
  <2>3. NumberItem(i)
    BY NumberCasesAre
  <2>4. item = With(i, "result", ToNumber(i.from, i.to, i.value))
    BY <2>1, <2>2, <2>3 DEF NumberItem
  <2>5. item.from = i.from /\ item.to = i.to /\ item.value = i.value
        /\ item.result = ToNumber(i.from, i.to, i.value)
    BY <2>3, <2>4, FieldsKept
  <2>6. IsCase(item.from, item.to, item.value)
    BY <2>3, <2>5 DEF NumberItem
  <2>7. /\ ~(item.from.concise = "TINYINT" /\ HasScale(item.from, item.to))
        /\ ~(item.from.concise = "SHORT" /\ item.to.concise = "BIGINT" /\ HasScale(item.from, item.to))
    BY <2>1 DEF Unscaled
  <2> QED BY <1>1, <1>2, <2>5, <2>6, <2>7, ToNumberNear
<1>4. CASE Done("numeric")
  <2>1. item.kind = "numeric" /\ "result" \in DOMAIN item
    BY <1>4 DEF Done
  <2>2. PICK i \in NumericCases : item \in {i, With(i, "result", Numeric(i.from, i.to, i.value))}
    BY <2>1 DEF NumberInv
  <2>3. NumberItem(i) /\ i.from.concise \in Whole
    BY NumericCasesAre
  <2>4. item = With(i, "result", Numeric(i.from, i.to, i.value))
    BY <2>1, <2>2, <2>3 DEF NumberItem
  <2>5. item.from = i.from /\ item.to = i.to /\ item.value = i.value
        /\ item.result = Numeric(i.from, i.to, i.value)
    BY <2>3, <2>4, FieldsKept
  <2>6. IsCase(item.from, item.to, item.value) /\ item.from.concise \in Whole
    BY <2>3, <2>5 DEF NumberItem
  <2> QED BY <1>1, <1>2, <2>5, <2>6, NumericNear
<1> QED BY <1>3, <1>4

\* A number keeps its value through every conversion to a type that can hold it, to
\* within one unit of the target's last place, and through a SQL_NUMERIC_STRUCT: for
\* all numbers, and records of all scales (OdbcConvert.cpp 178-492, 1129-1295).
THEOREM NumbersKept == Spec => []NumberKept
<1>1. NumberInv /\ [Next]_item => NumberInv'
  BY NumberNext
<1> QED BY <1>1, NumberInit, NumberImplies, PTL DEF Spec

-----------------------------------------------------------------------------
(* Years that begin in March *)

\* The days before a century, a year of it and a month of it, of years that begin
\* in March.
Centuries(c) == (146097 * c) \div 4
Years(y) == (1461 * y) \div 4
Months(m) == (153 * m + 2) \div 5
MonthLength(m) == IF m = 11 THEN 29 ELSE IF m \in {1, 3, 6, 8} THEN 30 ELSE 31

LEMMA MonthsAre ==
  /\ Months(0) = 0 /\ Months(1) = 31 /\ Months(2) = 61 /\ Months(3) = 92 /\ Months(4) = 122
  /\ Months(5) = 153 /\ Months(6) = 184 /\ Months(7) = 214 /\ Months(8) = 245 /\ Months(9) = 275
  /\ Months(10) = 306 /\ Months(11) = 337
BY DEF Months

\* The quotients that decode_sql_date takes of a day number, one after the other: the
\* century, the day of it, the year of it, the day of the year, its month, its day.
Century(k)      == (4 * k - 1) \div 146097
InCentury(k, c) == (4 * k - 1 - 146097 * c) \div 4
YearIn(r)       == (4 * r + 3) \div 1461
DayIn(r, y)     == (4 * r + 3 - 1461 * y + 4) \div 4
MonthIn(u)      == (5 * u - 3) \div 153
DayOf(u, m)     == (5 * u - 3 - 153 * m + 5) \div 5

\* A day of the year, from 1, is of the month it is counted from.
OfMonth(u, m, d) ==
  u \in Int /\ m \in 0..11 /\ d \in 1..MonthLength(m) /\ u = Months(m) + d
LEMMA MonthSplit ==
  ASSUME NEW u, NEW m, NEW d, OfMonth(u, m, d)
  PROVE  /\ u \in 1..366 /\ MonthIn(u) = m /\ DayOf(u, m) = d
         /\ u = 366 => m = 11 /\ d = 29
<1>1. /\ u \in Int /\ m \in 0..11 /\ d \in 1..MonthLength(m) /\ u = Months(m) + d
  BY DEF OfMonth
<1> SUFFICES /\ u \in 1..366 /\ (5 * u - 3) \div 153 = m
             /\ (5 * u - 3 - 153 * m + 5) \div 5 = d
             /\ (u = 366 => m = 11 /\ d = 29)
  BY <1>1, SMT DEF MonthIn, DayOf
<1>14. d \in 1..31 /\ m \in {0, 1, 2, 3, 4, 5, 6, 7, 8, 9, 10, 11}
  BY <1>1 DEF MonthLength
<1>2. CASE m = 0
  BY <1>1, <1>14, <1>2, MonthsAre DEF MonthLength
<1>3. CASE m = 1
  BY <1>1, <1>14, <1>3, MonthsAre DEF MonthLength
<1>4. CASE m = 2
  BY <1>1, <1>14, <1>4, MonthsAre DEF MonthLength
<1>5. CASE m = 3
  BY <1>1, <1>14, <1>5, MonthsAre DEF MonthLength
<1>6. CASE m = 4
  BY <1>1, <1>14, <1>6, MonthsAre DEF MonthLength
<1>7. CASE m = 5
  BY <1>1, <1>14, <1>7, MonthsAre DEF MonthLength
<1>8. CASE m = 6
  BY <1>1, <1>14, <1>8, MonthsAre DEF MonthLength
<1>9. CASE m = 7
  BY <1>1, <1>14, <1>9, MonthsAre DEF MonthLength
<1>10. CASE m = 8
  BY <1>1, <1>14, <1>10, MonthsAre DEF MonthLength
<1>11. CASE m = 9
  BY <1>1, <1>14, <1>11, MonthsAre DEF MonthLength
<1>12. CASE m = 10
  BY <1>1, <1>14, <1>12, MonthsAre DEF MonthLength
<1>13. CASE m = 11
  BY <1>1, <1>14, <1>13, MonthsAre DEF MonthLength
<1> QED BY <1>14, <1>2, <1>3, <1>4, <1>5, <1>6, <1>7, <1>8, <1>9, <1>10, <1>11, <1>12, <1>13

-----------------------------------------------------------------------------
(* A day number, taken apart and put together *)

\* A day of the century, from 0, is of the year it is counted from.
OfYear(r, y, u) ==
  /\ y \in 0..99 /\ u \in 1..366 /\ (u = 366 => y % 4 = 3)
  /\ r \in Int /\ r = Years(y) + u - 1
LEMMA YearSplit ==
  ASSUME NEW r, NEW y, NEW u, OfYear(r, y, u)
  PROVE  r \in Nat /\ YearIn(r) = y /\ DayIn(r, y) = u
<1>0. /\ y \in 0..99 /\ u \in 1..366 /\ (u = 366 => y % 4 = 3)
      /\ r \in Int /\ r = Years(y) + u - 1
  BY DEF OfYear
<1>1. /\ Years(y) \in Nat /\ 4 * Years(y) <= 1461 * y /\ 1461 * y <= 4 * Years(y) + 3
      /\ y % 4 = 3 => 4 * Years(y) + 3 = 1461 * y
  BY <1>0, SMT DEF Years
<1> DEFINE b == Years(y)
<1> HIDE DEF b
<1>2. b \in Nat /\ 4 * b <= 1461 * y /\ 1461 * y <= 4 * b + 3 /\ (u = 366 => 4 * b + 3 = 1461 * y) /\ r = b + u - 1
  BY <1>0, <1>1 DEF b
<1>3. 4 * r + 3 >= 1461 * y /\ 4 * r + 3 < 1461 * y + 1461
  BY <1>0, <1>2, SMT
<1>4. (4 * r + 3) \div 1461 = y
  BY <1>0, <1>2, <1>3, SMT
<1>5. (4 * r + 3 - 1461 * y + 4) \div 4 = u
  BY <1>0, <1>2, SMT
<1>6. r \in Nat
  BY <1>0, <1>2, SMT
<1> QED BY <1>0, <1>4, <1>5, <1>6, SMT DEF YearIn, DayIn

\* A day is of the century it is counted from.
OfCentury(k, c, r, y, u) ==
  /\ c \in Int /\ k \in Int /\ OfYear(r, y, u) /\ (y = 99 /\ u = 366 => c % 4 = 3)
  /\ k = Centuries(c) + r + 1
LEMMA CenturySplit ==
  ASSUME NEW k, NEW c, NEW r, NEW y, NEW u, OfCentury(k, c, r, y, u)
  PROVE  Century(k) = c /\ InCentury(k, c) = r
<1>0. /\ c \in Int /\ k \in Int /\ y \in 0..99 /\ u \in 1..366 /\ (u = 366 => y % 4 = 3)
      /\ r \in Int /\ r = Years(y) + u - 1 /\ (y = 99 /\ u = 366 => c % 4 = 3)
  BY DEF OfCentury, OfYear
<1> DEFINE a == Centuries(c)
<1>1. /\ a \in Int /\ 4 * a <= 146097 * c /\ 146097 * c <= 4 * a + 3
      /\ c % 4 = 3 => 4 * a + 3 = 146097 * c
  BY <1>0, SMT DEF Centuries
<1>2. r \in Nat /\ r <= 36524 /\ (r = 36524 => y = 99 /\ u = 366)
  BY <1>0, SMT DEF Years
<1> HIDE DEF a
<1>3. k = a + r + 1
  BY DEF OfCentury, a
<1>4. 4 * k - 1 >= 146097 * c /\ 4 * k - 1 < 146097 * c + 146097
  BY <1>0, <1>1, <1>2, <1>3, SMT
<1>5. (4 * k - 1) \div 146097 = c
  BY <1>0, <1>4, SMT
<1>6. (4 * k - 1 - 146097 * c) \div 4 = r
  <2> DEFINE x == 146097 * c
  <2>1. x \in Int /\ 4 * a <= x /\ x <= 4 * a + 3
    BY <1>0, <1>1, SMT
  <2> HIDE DEF x
  <2>2. (4 * k - 1 - x) \div 4 = r
    BY <1>0, <1>1, <1>2, <1>3, <2>1, SMT
  <2> QED BY <2>2, SMT DEF x
<1> QED BY <1>0, <1>5, <1>6, SMT DEF Century, InCentury

Quotients(k, c, r, y, u, m, d) ==
  /\ c = Century(k) /\ r = InCentury(k, c) /\ y = YearIn(r)
  /\ u = DayIn(r, y) /\ m = MonthIn(u) /\ d = DayOf(u, m)
Total(c, y, m, d) == Centuries(c) + Years(y) + Months(m) + d
Parts(c, y, m, d) == c \in Int /\ y \in 0..99 /\ m \in 0..11 /\ d \in Int

LEMMA QuotientsSum ==
  ASSUME NEW k \in Int, NEW c, NEW r, NEW y, NEW u, NEW m, NEW d, Quotients(k, c, r, y, u, m, d)
  PROVE  Parts(c, y, m, d) /\ Total(c, y, m, d) = k
<1>c. c = (4 * k - 1) \div 146097
  <2>1. c = Century(k)
    BY DEF Quotients
  <2> QED BY <2>1, SMT DEF Century
<1>r. r = (4 * k - 1 - 146097 * c) \div 4
  <2>1. r = InCentury(k, c)
    BY DEF Quotients
  <2> QED BY <2>1, SMT DEF InCentury
<1>y. y = (4 * r + 3) \div 1461
  <2>1. y = YearIn(r)
    BY DEF Quotients
  <2> QED BY <2>1, SMT DEF YearIn
<1>u. u = (4 * r + 3 - 1461 * y + 4) \div 4
  <2>1. u = DayIn(r, y)
    BY DEF Quotients
  <2> QED BY <2>1, SMT DEF DayIn
<1>m. m = (5 * u - 3) \div 153
  <2>1. m = MonthIn(u)
    BY DEF Quotients
  <2> QED BY <2>1, SMT DEF MonthIn
<1>d. d = (5 * u - 3 - 153 * m + 5) \div 5
  <2>1. d = DayOf(u, m)
    BY DEF Quotients
  <2> QED BY <2>1, SMT DEF DayOf
<1>3. c \in Int /\ 4 * k - 1 >= 146097 * c /\ 4 * k - 1 < 146097 * c + 146097
  BY <1>c, SMT
<1>4. r \in Nat /\ r <= 36524
  BY <1>r, <1>3, SMT
<1>5. y \in 0..99 /\ 4 * r + 3 >= 1461 * y /\ 4 * r + 3 < 1461 * y + 1461
  BY <1>y, <1>4, SMT
<1>6. u \in 1..366
  BY <1>u, <1>4, <1>5, SMT
<1>7. r + Centuries(c) = k - 1 /\ Centuries(c) \in Int
  BY <1>r, <1>3, SMT DEF Centuries
<1>8. u + Years(y) = r + 1 /\ Years(y) \in Int
  BY <1>u, <1>4, <1>5, SMT DEF Years
<1>9. m \in 0..11
  BY <1>m, <1>6, SMT
<1>10. Months(m) + d = u /\ d \in Int /\ Months(m) \in Int
  BY <1>m, <1>d, <1>6, <1>9, SMT DEF Months
<1> QED BY <1>3, <1>4, <1>5, <1>7, <1>8, <1>9, <1>10, SMT DEF Parts, Total

\* They take a sum apart again.
MarchDate(c, y, m, d) ==
  /\ c \in Int /\ y \in 0..99 /\ m \in 0..11 /\ d \in 1..MonthLength(m)
  /\ m = 11 /\ d = 29 => y % 4 = 3 /\ (y = 99 => c % 4 = 3)
LEMMA SumQuotients ==
  ASSUME NEW c, NEW y, NEW m, NEW d, MarchDate(c, y, m, d)
  PROVE  /\ Total(c, y, m, d) \in Int /\ Parts(c, y, m, d)
         /\ \E r, u : Quotients(Total(c, y, m, d), c, r, y, u, m, d)
<1> DEFINE u == Months(m) + d
           r == Years(y) + u - 1
           k == Total(c, y, m, d)
<1>0. /\ c \in Int /\ y \in 0..99 /\ m \in 0..11 /\ d \in 1..MonthLength(m) /\ d \in Int
      /\ m = 11 /\ d = 29 => y % 4 = 3 /\ (y = 99 => c % 4 = 3)
  BY DEF MarchDate, MonthLength
<1>1. Centuries(c) \in Int /\ Years(y) \in Int /\ Months(m) \in Int
  BY <1>0, SMT DEF Centuries, Years, Months
<1>2. u \in Int /\ r \in Int /\ k \in Int /\ k = Centuries(c) + r + 1
  BY <1>0, <1>1, SMT DEF Total
<1>3. OfMonth(u, m, d)
  BY <1>0, <1>2 DEF OfMonth
<1>4. r = Years(y) + u - 1
  OBVIOUS
<1> HIDE DEF u, r, k
<1>5. u \in 1..366 /\ MonthIn(u) = m /\ DayOf(u, m) = d /\ (u = 366 => m = 11 /\ d = 29)
  BY <1>3, MonthSplit
<1>6. OfYear(r, y, u)
  BY <1>0, <1>2, <1>4, <1>5 DEF OfYear
<1>7. OfCentury(k, c, r, y, u)
  BY <1>0, <1>2, <1>5, <1>6 DEF OfCentury
<1>8. Quotients(k, c, r, y, u, m, d)
  BY <1>5, <1>6, <1>7, YearSplit, CenturySplit DEF Quotients
<1>9. Parts(c, y, m, d)
  BY <1>0 DEF Parts
<1> QED BY <1>2, <1>8, <1>9 DEF k

-----------------------------------------------------------------------------
(* encode_sql_date and decode_sql_date *)

\* A day by the century and the year in it that begin in March, and its month of them.
FromMarch(c, y, m, d) ==
  IF m < 10 THEN D!Day(100 * c + y, m + 3, d) ELSE D!Day(100 * c + y + 1, m - 9, d)
\* The day the sums are counted from is before the server's.
Shift == 678882

LEMMA ShiftIs ==
  Shift \in Int /\ \A n \in Int : n + Shift \in Int /\ (n + Shift) - Shift = n
BY SMT DEF Shift

LEMMA EncodeIs ==
  ASSUME NEW c, NEW y, NEW m, NEW d, Parts(c, y, m, d)
  PROVE  D!EncodeDate(FromMarch(c, y, m, d)) = Total(c, y, m, d) - Shift
<1>0. c \in Int /\ y \in 0..99 /\ m \in 0..11 /\ d \in Int
  BY DEF Parts
<1> DEFINE f == FromMarch(c, y, m, d)
           month == IF f.month > 2 THEN f.month - 3 ELSE f.month + 9
           year == IF f.month > 2 THEN f.year ELSE f.year - 1
<1>1. f.day = d /\ month = m /\ year = 100 * c + y
  BY <1>0 DEF FromMarch, D!Day
<1>2. D!EncodeDate(f) = (146097 * (year \div 100)) \div 4 + (1461 * (year - 100 * (year \div 100))) \div 4
                         + (153 * month + 2) \div 5 + f.day - 678882
  BY SMT DEF D!EncodeDate
<1> HIDE DEF f, month, year
<1>3. year \div 100 = c /\ year - 100 * c = y
  BY <1>0, <1>1, SMT
<1> QED BY <1>0, <1>1, <1>2, <1>3, SMT DEF f, Total, Shift, Centuries, Years, Months

\* decode_sql_date, as the quotients.
LEMMA DecodeIs ==
  ASSUME NEW n \in Int, NEW c, NEW r, NEW y, NEW u, NEW m, NEW d, Quotients(n + Shift, c, r, y, u, m, d)
  PROVE  D!DecodeDate(n) = FromMarch(c, y, m, d)
<1>1. D!DecodeDate(n) =
        LET k == n + Shift
            a == Century(k)
            b == InCentury(k, a)
            e == YearIn(b)
            f == DayIn(b, e)
            g == MonthIn(f)
        IN  FromMarch(a, e, g, DayOf(f, g))
  BY SMT DEF D!DecodeDate, FromMarch, Shift, Century, InCentury, YearIn, DayIn, MonthIn, DayOf
<1> QED BY <1>1 DEF Quotients

LEMMA EncodeDecode ==
  ASSUME NEW n \in Int
  PROVE  D!EncodeDate(D!DecodeDate(n)) = n
<1>1. PICK c, r, y, u, m, d : Quotients(n + Shift, c, r, y, u, m, d)
  BY DEF Quotients
<1>2. n + Shift \in Int /\ (n + Shift) - Shift = n
  BY ShiftIs
<1>3. Parts(c, y, m, d) /\ Total(c, y, m, d) = n + Shift
  BY <1>1, <1>2, QuotientsSum
<1>4. D!EncodeDate(FromMarch(c, y, m, d)) = Total(c, y, m, d) - Shift
  BY <1>3, EncodeIs
<1>5. D!DecodeDate(n) = FromMarch(c, y, m, d)
  BY <1>1, DecodeIs
<1>6. D!EncodeDate(D!DecodeDate(n)) = Total(c, y, m, d) - Shift
  BY <1>4, <1>5
<1>7. Total(c, y, m, d) - Shift = n
  BY <1>2, <1>3
<1> QED BY <1>6, <1>7

LEMMA DecodeEncode ==
  ASSUME NEW c, NEW y, NEW m, NEW d, MarchDate(c, y, m, d)
  PROVE  D!DecodeDate(D!EncodeDate(FromMarch(c, y, m, d))) = FromMarch(c, y, m, d)
<1>1. Parts(c, y, m, d)
  BY SumQuotients
<1> DEFINE s == Total(c, y, m, d)
<1>2. PICK r, u : Quotients(s, c, r, y, u, m, d)
  BY SumQuotients
<1>3. s \in Int
  BY SumQuotients
<1>4. D!EncodeDate(FromMarch(c, y, m, d)) = s - Shift
  BY <1>1, EncodeIs
<1> HIDE DEF s
<1>5. s - Shift \in Int /\ (s - Shift) + Shift = s
  BY <1>3, ShiftIs
<1>6. Quotients((s - Shift) + Shift, c, r, y, u, m, d)
  BY <1>2, <1>5
<1>7. D!DecodeDate(s - Shift) = FromMarch(c, y, m, d)
  BY <1>5, <1>6, DecodeIs
<1> QED BY <1>4, <1>7

-----------------------------------------------------------------------------
(* The calendar, counted from March *)

LEMMA LeapIs ==
  ASSUME NEW c \in Int, NEW y \in 0..99
  PROVE  Leap(100 * c + y + 1) <=> y % 4 = 3 /\ (y = 99 => c % 4 = 3)
<1> DEFINE n == 100 * c + y + 1
<1>1. n % 4 = (y + 1) % 4 /\ (n % 100 = 0 <=> y = 99)
  BY SMT
<1>2. y = 99 => (n % 400 = 0 <=> c % 4 = 3)
  BY SMT
<1>3. ((y + 1) % 4 = 0 <=> y % 4 = 3) /\ (y = 99 => y % 4 = 3)
  BY SMT
<1> HIDE DEF n
<1>4. Leap(n) <=> n % 4 = 0 /\ (n % 100 # 0 \/ n % 400 = 0)
  BY DEF Leap
<1> QED BY <1>1, <1>2, <1>3, <1>4 DEF n

LEMMA LengthIs ==
  ASSUME NEW d, d.month \in 1..12
  PROVE  /\ d.month = 2 => Length(d) = IF Leap(d.year) THEN 29 ELSE 28
         /\ d.month \in {4, 6, 9, 11} => Length(d) = 30
         /\ d.month \in {1, 3, 5, 7, 8, 10, 12} => Length(d) = 31
         /\ Length(d) \in 28..31
BY DEF Length

\* A day of the calendar, counted from March.
LEMMA DateMarch ==
  ASSUME NEW d, IsDate(d)
  PROVE  \E c, y, m, k : MarchDate(c, y, m, k) /\ d = FromMarch(c, y, m, k)
<1> DEFINE Y == IF d.month > 2 THEN d.year ELSE d.year - 1
           m == IF d.month > 2 THEN d.month - 3 ELSE d.month + 9
           c == Y \div 100
           y == Y - 100 * c
<1>1. /\ d = D!Day(d.year, d.month, d.day) /\ d.year \in Int /\ d.month \in 1..12
      /\ d.day \in 1..Length(d)
  BY DEF IsDate
<1>2. Y \in Int /\ m \in 0..11 /\ (d.month > 2 => m < 10 /\ d.month = m + 3 /\ d.year = Y)
      /\ (d.month <= 2 => m >= 10 /\ d.month = m - 9 /\ d.year = Y + 1)
  BY <1>1
<1> HIDE DEF Y, m
<1>3. c \in Int /\ y \in 0..99 /\ Y = 100 * c + y
  BY <1>2
<1> HIDE DEF c, y
<1>4. d = FromMarch(c, y, m, d.day)
  <2>1. CASE d.month > 2
    BY <1>1, <1>2, <1>3, <2>1 DEF FromMarch
  <2>2. CASE d.month <= 2
    <3>1. ~(m < 10) /\ d.year = 100 * c + y + 1
      BY <1>2, <1>3, <2>2
    <3> QED BY <1>1, <1>2, <2>2, <3>1 DEF FromMarch
  <2> QED BY <1>1, <2>1, <2>2
<1>5. d.day \in 1..MonthLength(m) /\ (m = 11 /\ d.day = 29 => y % 4 = 3 /\ (y = 99 => c % 4 = 3))
  <2>1. CASE d.month = 2
    <3>1. m = 11 /\ d.year = 100 * c + y + 1
      BY <1>2, <1>3, <2>1
    <3>2. Length(d) = IF Leap(d.year) THEN 29 ELSE 28
      BY <1>1, <2>1, LengthIs
    <3>3. Leap(d.year) <=> y % 4 = 3 /\ (y = 99 => c % 4 = 3)
      BY <1>3, <3>1, LeapIs
    <3> QED BY <1>1, <3>1, <3>2, <3>3 DEF MonthLength
  <2>2. CASE d.month # 2
    <3>1. m # 11
      BY <1>1, <1>2, <2>2
    <3>2. Length(d) = MonthLength(m)
      <4>1. m \in 0..10 /\ d.month \in {1, 3, 4, 5, 6, 7, 8, 9, 10, 11, 12}
        BY <1>1, <1>2, <2>2
      <4> QED BY <1>1, <1>2, <2>2, <4>1, LengthIs DEF MonthLength
    <3> QED BY <1>1, <3>1, <3>2
  <2> QED BY <2>1, <2>2
<1> QED BY <1>2, <1>3, <1>4, <1>5 DEF MarchDate

-----------------------------------------------------------------------------
(* The parts of the day after *)

\* The parts of the day after.
NextMarch(c, y, m, k, e, z, n, j) ==
  \/ e = c /\ z = y /\ n = m /\ j = k + 1
  \/ e = c /\ z = y /\ n = m + 1 /\ j = 1 /\ m < 11 /\ k = MonthLength(m)
  \/ /\ m = 11 /\ n = 0 /\ j = 1 /\ k = IF y % 4 = 3 /\ (y = 99 => c % 4 = 3) THEN 29 ELSE 28
     /\ e = (IF y = 99 THEN c + 1 ELSE c) /\ z = (IF y = 99 THEN 0 ELSE y + 1)

LEMMA NextTotal ==
  ASSUME NEW c, NEW y, NEW m, NEW k, MarchDate(c, y, m, k),
         NEW e, NEW z, NEW n, NEW j, NextMarch(c, y, m, k, e, z, n, j)
  PROVE  Total(e, z, n, j) = Total(c, y, m, k) + 1
<1>1. c \in Int /\ y \in 0..99 /\ m \in 0..11 /\ k \in Int
  BY DEF MarchDate, MonthLength
<1>2. Centuries(c) \in Int /\ Years(y) \in Int /\ Months(m) \in Int
  BY <1>1, SMT DEF Centuries, Years, Months
<1>3. CASE e = c /\ z = y /\ n = m /\ j = k + 1
  <2>1. Total(e, z, n, j) = Centuries(c) + Years(y) + Months(m) + (k + 1)
    BY <1>3 DEF Total
  <2>2. Total(c, y, m, k) = Centuries(c) + Years(y) + Months(m) + k
    BY DEF Total
  <2> QED BY <1>1, <1>2, <2>1, <2>2
<1>4. CASE e = c /\ z = y /\ n = m + 1 /\ j = 1 /\ m < 11 /\ k = MonthLength(m)
  <2>1. Months(m + 1) = Months(m) + MonthLength(m)
    <3>1. m \in {0, 1, 2, 3, 4, 5, 6, 7, 8, 9, 10}
      BY <1>1, <1>4
    <3> QED BY <3>1, MonthsAre DEF MonthLength
  <2>2. MonthLength(m) \in Int
    BY DEF MonthLength
  <2>3. Total(e, z, n, j) = Centuries(c) + Years(y) + Months(m + 1) + 1
    BY <1>4 DEF Total
  <2>4. Total(c, y, m, k) = Centuries(c) + Years(y) + Months(m) + MonthLength(m)
    BY <1>4 DEF Total
  <2> QED BY <1>2, <2>1, <2>2, <2>3, <2>4
<1>5. CASE /\ m = 11 /\ n = 0 /\ j = 1 /\ k = IF y % 4 = 3 /\ (y = 99 => c % 4 = 3) THEN 29 ELSE 28
           /\ e = (IF y = 99 THEN c + 1 ELSE c) /\ z = (IF y = 99 THEN 0 ELSE y + 1)
  <2>1. Months(n) = 0 /\ Months(m) = 337
    BY <1>5, MonthsAre
  <2>2. CASE y < 99
    <3>1. Years(y + 1) = Years(y) + IF y % 4 = 3 THEN 366 ELSE 365
      BY <1>1, SMT DEF Years
    <3>2. k = IF y % 4 = 3 THEN 29 ELSE 28
      BY <1>1, <1>5, <2>2
    <3>3. e = c /\ z = y + 1
      BY <1>1, <1>5, <2>2
    <3>4. Total(e, z, n, j) = Centuries(c) + Years(y + 1) + 0 + 1
      BY <1>5, <2>1, <3>3 DEF Total
    <3>5. Total(c, y, m, k) = Centuries(c) + Years(y) + 337 + k
      BY <2>1 DEF Total
    <3> QED BY <1>1, <1>2, <3>1, <3>2, <3>4, <3>5
  <2>3. CASE y = 99
    <3>1. Centuries(c + 1) = Centuries(c) + IF c % 4 = 3 THEN 36525 ELSE 36524
      BY <1>1, SMT DEF Centuries
    <3>2. k = IF c % 4 = 3 THEN 29 ELSE 28
      BY <1>1, <1>5, <2>3
    <3>3. e = c + 1 /\ z = 0
      BY <1>5, <2>3
    <3>4. Years(0) = 0 /\ Years(99) = 36159
      BY SMT DEF Years
    <3>5. Total(e, z, n, j) = Centuries(c + 1) + 0 + 0 + 1
      BY <1>5, <2>1, <3>3, <3>4 DEF Total
    <3>6. Total(c, y, m, k) = Centuries(c) + 36159 + 337 + k
      BY <2>1, <2>3, <3>4 DEF Total
    <3> QED BY <1>1, <1>2, <3>1, <3>2, <3>5, <3>6, SMT
  <2> QED BY <1>1, <2>2, <2>3
<1> QED BY <1>3, <1>4, <1>5 DEF NextMarch

LEMMA MarchFields ==
  ASSUME NEW c, NEW y, NEW m, NEW k, MarchDate(c, y, m, k)
  PROVE  LET d == FromMarch(c, y, m, k)
         IN  /\ m < 10 => d = D!Day(100 * c + y, m + 3, k)
             /\ m >= 10 => d = D!Day(100 * c + y + 1, m - 9, k)
             /\ d.day = k /\ d.month = (IF m < 10 THEN m + 3 ELSE m - 9)
             /\ d.year = (IF m < 10 THEN 100 * c + y ELSE 100 * c + y + 1)
             /\ m < 11 => Length(d) = MonthLength(m)
             /\ m = 11 => Length(d) = IF y % 4 = 3 /\ (y = 99 => c % 4 = 3) THEN 29 ELSE 28
<1> DEFINE d == FromMarch(c, y, m, k)
<1>1. c \in Int /\ y \in 0..99 /\ m \in 0..11
  BY DEF MarchDate
<1>2. /\ m < 10 => d = D!Day(100 * c + y, m + 3, k)
      /\ m >= 10 => d = D!Day(100 * c + y + 1, m - 9, k)
  BY <1>1 DEF FromMarch
<1>3. /\ d.day = k /\ d.month = (IF m < 10 THEN m + 3 ELSE m - 9)
      /\ d.year = (IF m < 10 THEN 100 * c + y ELSE 100 * c + y + 1)
  BY <1>1, <1>2 DEF D!Day
<1> HIDE DEF d
<1>4. d.month \in 1..12
  BY <1>1, <1>3
<1>5. m < 11 => Length(d) = MonthLength(m)
  BY <1>1, <1>3, <1>4, LengthIs DEF MonthLength
<1>6. m = 11 => Length(d) = IF y % 4 = 3 /\ (y = 99 => c % 4 = 3) THEN 29 ELSE 28
  <2>1. m = 11 => d.month = 2 /\ d.year = 100 * c + y + 1
    BY <1>3
  <2>2. Leap(100 * c + y + 1) <=> y % 4 = 3 /\ (y = 99 => c % 4 = 3)
    BY <1>1, LeapIs
  <2> QED BY <1>4, <2>1, <2>2, LengthIs
<1> QED BY <1>2, <1>3, <1>5, <1>6 DEF d

-----------------------------------------------------------------------------
(* The number of the day after *)

LEMMA AfterIsDate ==
  ASSUME NEW d, IsDate(d)
  PROVE  IsDate(After(d))
<1>1. /\ d = D!Day(d.year, d.month, d.day) /\ d.year \in Nat \ {0} /\ d.month \in 1..12
      /\ d.day \in 1..Length(d)
  BY DEF IsDate
<1>2. Length(d) \in 28..31
  BY <1>1, LengthIs
<1> DEFINE e == After(d)
<1>3. CASE d.day < Length(d)
  <2>2. e = D!Day(d.year, d.month, d.day + 1)
    BY <1>3 DEF After
  <2>3. e.year = d.year /\ e.month = d.month /\ e.day = d.day + 1
    BY <2>2 DEF D!Day
  <2>4. Length(e) = Length(d)
    BY <2>3 DEF Length
  <2> QED BY <1>1, <1>2, <1>3, <2>2, <2>3, <2>4 DEF IsDate
<1>4. CASE ~(d.day < Length(d)) /\ d.month < 12
  <2>2. e = D!Day(d.year, d.month + 1, 1)
    BY <1>4 DEF After
  <2>3. e.year = d.year /\ e.month = d.month + 1 /\ e.day = 1
    BY <2>2 DEF D!Day
  <2>4. e.month \in 1..12
    BY <1>1, <1>4, <2>3
  <2>5. Length(e) \in 28..31
    BY <2>4, LengthIs
  <2> QED BY <1>1, <2>2, <2>3, <2>4, <2>5 DEF IsDate
<1>5. CASE ~(d.day < Length(d)) /\ ~(d.month < 12)
  <2>1. e = D!Day(d.year + 1, 1, 1)
    BY <1>5 DEF After
  <2>2. e.year = d.year + 1 /\ e.month = 1 /\ e.day = 1
    BY <2>1 DEF D!Day
  <2>3. Length(e) \in 28..31
    BY <2>2, LengthIs
  <2> QED BY <1>1, <2>1, <2>2, <2>3 DEF IsDate
<1> QED BY <1>3, <1>4, <1>5

LEMMA AfterMarch ==
  ASSUME NEW c, NEW y, NEW m, NEW k, MarchDate(c, y, m, k), IsDate(FromMarch(c, y, m, k))
  PROVE  \E e, z, n, j : /\ NextMarch(c, y, m, k, e, z, n, j) /\ Parts(e, z, n, j)
                         /\ After(FromMarch(c, y, m, k)) = FromMarch(e, z, n, j)
<1> DEFINE d == FromMarch(c, y, m, k)
<1>1. c \in Int /\ y \in 0..99 /\ m \in 0..11 /\ k \in Int
  BY DEF MarchDate, MonthLength
<1>2. /\ m < 10 => d = D!Day(100 * c + y, m + 3, k)
      /\ m >= 10 => d = D!Day(100 * c + y + 1, m - 9, k)
      /\ d.day = k /\ d.month = (IF m < 10 THEN m + 3 ELSE m - 9)
      /\ d.year = (IF m < 10 THEN 100 * c + y ELSE 100 * c + y + 1)
      /\ m < 11 => Length(d) = MonthLength(m)
      /\ m = 11 => Length(d) = IF y % 4 = 3 /\ (y = 99 => c % 4 = 3) THEN 29 ELSE 28
  BY MarchFields
<1>3. d.day <= Length(d) /\ Length(d) \in 28..31
  BY <1>1, <1>2, LengthIs DEF IsDate
<1> HIDE DEF d
<1>4. CASE d.day < Length(d)
  <2>1. After(d) = D!Day(d.year, d.month, k + 1)
    BY <1>2, <1>4 DEF After
  <2>2. After(d) = FromMarch(c, y, m, k + 1)
    <3>1. CASE m < 10
      BY <1>2, <2>1, <3>1 DEF FromMarch
    <3>2. CASE m >= 10
      <4>1. ~(m < 10)
        BY <1>1, <3>2
      <4> QED BY <1>2, <2>1, <3>2, <4>1 DEF FromMarch
    <3> QED BY <1>1, <3>1, <3>2
  <2>3. NextMarch(c, y, m, k, c, y, m, k + 1) /\ Parts(c, y, m, k + 1)
    BY <1>1 DEF NextMarch, Parts
  <2> QED BY <2>2, <2>3 DEF d
<1>5. CASE ~(d.day < Length(d)) /\ m < 11
  <2>1. k = MonthLength(m)
    BY <1>1, <1>2, <1>3, <1>5
  <2>2. After(d) = FromMarch(c, y, m + 1, 1)
    <3>1. CASE m < 9
      <4>1. After(d) = D!Day(d.year, d.month + 1, 1) /\ d.year = 100 * c + y /\ d.month = m + 3
        BY <1>1, <1>2, <1>5, <3>1 DEF After
      <4>2. m + 1 < 10 /\ m + 3 + 1 = m + 1 + 3
        BY <1>1, <3>1
      <4> QED BY <4>1, <4>2 DEF FromMarch
    <3>2. CASE m = 9
      <4>1. After(d) = D!Day(d.year + 1, 1, 1) /\ d.year = 100 * c + y
        BY <1>1, <1>2, <1>5, <3>2 DEF After
      <4> QED BY <1>1, <3>2, <4>1 DEF FromMarch
    <3>3. CASE m = 10
      <4>3. After(d) = D!Day(100 * c + y + 1, 2, 1)
        BY <1>1, <1>2, <1>5, <3>3 DEF After
      <4> QED BY <3>3, <4>3 DEF FromMarch
    <3> QED BY <1>1, <1>5, <3>1, <3>2, <3>3
  <2>3. NextMarch(c, y, m, k, c, y, m + 1, 1) /\ Parts(c, y, m + 1, 1)
    BY <1>1, <1>5, <2>1 DEF NextMarch, Parts
  <2> QED BY <2>2, <2>3 DEF d
<1>6. CASE ~(d.day < Length(d)) /\ m = 11
  <2> DEFINE e == IF y = 99 THEN c + 1 ELSE c
             z == IF y = 99 THEN 0 ELSE y + 1
  <2>1. k = IF y % 4 = 3 /\ (y = 99 => c % 4 = 3) THEN 29 ELSE 28
    BY <1>1, <1>2, <1>3, <1>6
  <2>4. After(d) = D!Day(100 * c + y + 1, 3, 1)
    BY <1>2, <1>6 DEF After
  <2>5. 100 * e + z = 100 * c + y + 1 /\ e \in Int /\ z \in 0..99
    BY <1>1
  <2>6. After(d) = FromMarch(e, z, 0, 1)
    BY <2>4, <2>5 DEF FromMarch
  <2>7. NextMarch(c, y, m, k, e, z, 0, 1) /\ Parts(e, z, 0, 1)
    BY <1>6, <2>1, <2>5 DEF NextMarch, Parts
  <2> QED BY <2>6, <2>7 DEF d
<1> QED BY <1>1, <1>4, <1>5, <1>6

\* The number of the day after is the next number.
LEMMA AfterEncode ==
  ASSUME NEW d, IsDate(d)
  PROVE  D!EncodeDate(After(d)) = D!EncodeDate(d) + 1 /\ D!EncodeDate(d) \in Int
<1>1. PICK c, y, m, k : MarchDate(c, y, m, k) /\ d = FromMarch(c, y, m, k)
  BY DateMarch
<1>2. PICK e, z, n, j : NextMarch(c, y, m, k, e, z, n, j) /\ Parts(e, z, n, j) /\ After(d) = FromMarch(e, z, n, j)
  BY <1>1, AfterMarch
<1>3. Parts(c, y, m, k) /\ Total(c, y, m, k) \in Int
  BY <1>1, SumQuotients
<1>4. D!EncodeDate(d) = Total(c, y, m, k) - Shift
  BY <1>1, <1>3, EncodeIs
<1>5. D!EncodeDate(After(d)) = Total(e, z, n, j) - Shift
  BY <1>2, EncodeIs
<1>6. Total(e, z, n, j) = Total(c, y, m, k) + 1
  BY <1>1, <1>2, NextTotal
<1>7. Shift \in Int
  BY ShiftIs
<1> HIDE DEF Shift
<1> QED BY <1>3, <1>4, <1>5, <1>6, <1>7

-----------------------------------------------------------------------------
(* The day of the year *)

\* DateTime::yday counts thirty days for February; those it has not are taken off
\* from March on.
DaysTo(m) == (214 * m + 3) \div 7
LEMMA DaysToAre ==
  /\ DaysTo(0) = 0 /\ DaysTo(1) = 31 /\ DaysTo(2) = 61 /\ DaysTo(3) = 92 /\ DaysTo(4) = 122
  /\ DaysTo(5) = 153 /\ DaysTo(6) = 183 /\ DaysTo(7) = 214 /\ DaysTo(8) = 245 /\ DaysTo(9) = 275
  /\ DaysTo(10) = 306 /\ DaysTo(11) = 336
BY DEF DaysTo
Missing(m, leap) == IF m <= 2 THEN 0 ELSE IF leap THEN 1 ELSE 2

LEMMA YearDayIs ==
  ASSUME NEW d, d.year \in Int, d.month \in 1..12, d.day \in Int
  PROVE  D!YearDay(d) = DaysTo(d.month - 1) + d.day - 1 - Missing(d.month, Leap(d.year))
<1>1. d.year % 400 = 0 => d.year % 4 = 0
  BY SMT
<1>2. Leap(d.year) <=> (d.year % 4 = 0 /\ d.year % 100 # 0) \/ d.year % 400 = 0
  BY <1>1 DEF Leap
<1>3. DaysTo(d.month - 1) \in Int
  BY SMT DEF DaysTo
<1>4. D!YearDay(d) = IF d.month - 1 < 2 THEN DaysTo(d.month - 1) + d.day - 1
                     ELSE IF Leap(d.year) THEN DaysTo(d.month - 1) + d.day - 1 - 1
                     ELSE DaysTo(d.month - 1) + d.day - 1 - 2
  BY <1>2, SMT DEF D!YearDay, DaysTo
<1> QED BY <1>3, <1>4, SMT DEF Missing

\* From one day to the next the day of the year is the next one, or the first.
LEMMA YearDayAfter ==
  ASSUME NEW d, IsDate(d)
  PROVE  /\ D!YearDay(After(d)) \in {D!YearDay(d) + 1, 0}
         /\ d.month = 1 /\ d.day = 1 => D!YearDay(d) = 0
<1>1. d.year \in Int /\ d.month \in 1..12 /\ d.day \in Int /\ d.day >= 1 /\ d.day <= Length(d)
  <2>1. d.year \in Int /\ d.month \in 1..12 /\ d.day \in 1..Length(d)
    BY DEF IsDate
  <2>2. Length(d) \in 28..31
    BY <2>1, LengthIs
  <2> QED BY <2>1, <2>2
<1>2. Length(d) \in 28..31
  BY <1>1, LengthIs
<1>3. D!YearDay(d) = DaysTo(d.month - 1) + d.day - 1 - Missing(d.month, Leap(d.year))
  BY <1>1, YearDayIs
<1>7. d.month = 1 /\ d.day = 1 => D!YearDay(d) = 0
  BY <1>3, DaysToAre DEF Missing
<1> SUFFICES D!YearDay(After(d)) \in {D!YearDay(d) + 1, 0}
  BY <1>7
<1> DEFINE e == After(d)
<1>4. CASE d.day < Length(d)
  <2>1. e.year = d.year /\ e.month = d.month /\ e.day = d.day + 1
    BY <1>4 DEF After, D!Day
  <2> HIDE DEF e
  <2>2. D!YearDay(e) = DaysTo(e.month - 1) + e.day - 1 - Missing(e.month, Leap(e.year))
    BY <1>1, <2>1, YearDayIs
  <2>3. DaysTo(d.month - 1) \in Int /\ Missing(d.month, Leap(d.year)) \in Int
    BY <1>1, SMT DEF DaysTo, Missing
  <2>4. D!YearDay(e) = DaysTo(d.month - 1) + (d.day + 1) - 1 - Missing(d.month, Leap(d.year))
    BY <2>1, <2>2
  <2>5. D!YearDay(e) = D!YearDay(d) + 1
    BY <1>1, <1>3, <2>3, <2>4
  <2> QED BY <2>5 DEF e
<1>5. CASE ~(d.day < Length(d)) /\ d.month < 12
  <2>1. e.year = d.year /\ e.month = d.month + 1 /\ e.day = 1
    BY <1>5 DEF After, D!Day
  <2> HIDE DEF e
  <2>2. d.day = Length(d) /\ d.month \in {1, 2, 3, 4, 5, 6, 7, 8, 9, 10, 11}
    BY <1>1, <1>2, <1>5
  <2>3. D!YearDay(e) = DaysTo(d.month + 1 - 1) + 1 - 1 - Missing(d.month + 1, Leap(d.year))
    BY <1>1, <1>5, <2>1, YearDayIs
  <2>4. D!YearDay(d) = DaysTo(d.month - 1) + Length(d) - 1 - Missing(d.month, Leap(d.year))
    BY <1>3, <2>2
  <2>5. CASE d.month = 1
    BY <1>1, <2>3, <2>4, <2>5, DaysToAre, LengthIs DEF Missing, e
  <2>6. CASE d.month = 2
    BY <1>1, <2>3, <2>4, <2>6, DaysToAre, LengthIs DEF Missing, e
  <2>7. CASE d.month \notin {1, 2}
    <3>1. Missing(d.month + 1, Leap(d.year)) = Missing(d.month, Leap(d.year))
          /\ Missing(d.month, Leap(d.year)) \in Int
      BY <2>2, <2>7 DEF Missing
    <3>2. DaysTo(d.month + 1 - 1) = DaysTo(d.month - 1) + Length(d) /\ DaysTo(d.month - 1) \in Int
      BY <1>1, <2>2, <2>7, DaysToAre, LengthIs
    <3>3. D!YearDay(e) = D!YearDay(d) + 1
      BY <1>2, <2>3, <2>4, <3>1, <3>2
    <3> QED BY <3>3 DEF e
  <2> QED BY <2>5, <2>6, <2>7 DEF e
<1>6. CASE ~(d.day < Length(d)) /\ ~(d.month < 12)
  <2>1. e.year = d.year + 1 /\ e.month = 1 /\ e.day = 1
    BY <1>6 DEF After, D!Day
  <2> HIDE DEF e
  <2>2. D!YearDay(e) = DaysTo(e.month - 1) + e.day - 1 - Missing(e.month, Leap(e.year))
    BY <1>1, <2>1, YearDayIs
  <2>3. D!YearDay(e) = 0
    BY <2>1, <2>2, DaysToAre DEF Missing
  <2> QED BY <2>3 DEF e
<1> QED BY <1>4, <1>5, <1>6

-----------------------------------------------------------------------------
(* The walk through the calendar *)

\* The walk through the calendar is at a date, and holds the number of it.
DayInv ==
  /\ "kind" \in DOMAIN item
  /\ item.kind = "day" =>
       /\ DOMAIN item = {"kind", "date", "day", "left"}
       /\ IsDate(item.date) /\ item.day = D!EncodeDate(item.date)

LEMMA DayInit == Init => DayInv
<1> SUFFICES ASSUME Init PROVE DayInv
  OBVIOUS
<1>1. "kind" \in DOMAIN item /\ (item.kind = "day" => item \in DayCases)
  BY KindInit
<1>2. ASSUME item \in DayCases
      PROVE  DOMAIN item = {"kind", "date", "day", "left"} /\ IsDate(item.date)
             /\ item.day = D!EncodeDate(item.date)
  <2>1. PICK d \in Starts : item = [kind |-> "day", date |-> d, day |-> D!EncodeDate(d), left |-> WalkDays]
    BY <1>2 DEF DayCases
  <2>2. IsDate(d)
    BY ValueConstants
  <2> QED BY <2>1, <2>2
<1> QED BY <1>1, <1>2 DEF DayInv

LEMMA DayNext == DayInv /\ [Next]_item => DayInv'
<1>1. CASE UNCHANGED item
  BY <1>1 DEF DayInv
<1>2. ASSUME DayInv, Next PROVE DayInv'
  <2>1. "kind" \in DOMAIN item' /\ item'.kind = item.kind /\ (item.kind = "day" => NextDay)
    BY <1>2, KindKept DEF DayInv, KindOf
  <2>2. ASSUME item.kind = "day"
        PROVE  /\ DOMAIN item' = {"kind", "date", "day", "left"}
               /\ IsDate(item'.date) /\ item'.day = D!EncodeDate(item'.date)
    <3>1. /\ DOMAIN item = {"kind", "date", "day", "left"}
          /\ IsDate(item.date) /\ item.day = D!EncodeDate(item.date)
      BY <1>2, <2>2 DEF DayInv
    <3>2. item' = [item EXCEPT !.date = After(@), !.day = @ + 1, !.left = @ - 1]
      BY <2>1, <2>2 DEF NextDay
    <3>3. DOMAIN item' = {"kind", "date", "day", "left"}
          /\ item'.date = After(item.date) /\ item'.day = item.day + 1
      BY <3>1, <3>2
    <3> QED BY <3>1, <3>3, AfterIsDate, AfterEncode
  <2> QED BY <2>1, <2>2 DEF DayInv
<1> QED BY <1>1, <1>2

LEMMA DayImplies == DayInv => CalendarAgrees
<1> SUFFICES ASSUME DayInv, item.kind = "day"
             PROVE  /\ D!EncodeDate(item.date) = item.day
                    /\ D!DecodeDate(item.day) = item.date
                    /\ item.date.month = 1 /\ item.date.day = 1 => D!YearDay(item.date) = 0
                    /\ D!YearDay(After(item.date)) \in {D!YearDay(item.date) + 1, 0}
  BY DEF CalendarAgrees
<1>1. IsDate(item.date) /\ item.day = D!EncodeDate(item.date)
  BY DEF DayInv
<1>2. PICK c, y, m, k : MarchDate(c, y, m, k) /\ item.date = FromMarch(c, y, m, k)
  BY <1>1, DateMarch
<1>3. D!DecodeDate(D!EncodeDate(item.date)) = item.date
  BY <1>2, DecodeEncode
<1> QED BY <1>1, <1>3, YearDayAfter

-----------------------------------------------------------------------------
(* Points in time as structures *)

\* A point in time is one of the server's.
IsStamp(v) == v = <<v[1], v[2]>> /\ v[1] \in Int /\ v[2] \in 0 .. DayTime - 1
LEMMA StampsAre ==
  ASSUME NEW v \in Stamps
  PROVE  IsStamp(v)
<1>1. v \in (FirstDay .. LastDay) \X (0 .. DayTime - 1)
  BY ValueConstants
<1>2. v = <<v[1], v[2]>> /\ v[1] \in FirstDay .. LastDay /\ v[2] \in 0 .. DayTime - 1
  BY <1>1
<1>3. FirstDay \in Int /\ LastDay \in Int
  BY SMT DEF FirstDay, LastDay
<1> QED BY <1>2, <1>3 DEF IsStamp

Fraction(t) == t % D!Precision
LEMMA FractionIs ==
  ASSUME NEW t, t \in 0 .. DayTime - 1
  PROVE  /\ t \in Nat /\ Fraction(t) \in 0..9999
         /\ D!EncodeTime(D!DecodeTime(t)) = t - Fraction(t)
         /\ (Fraction(t) * D!Nanos) \div D!Nanos = Fraction(t)
         /\ D!Hundredths(t) = Fraction(t) \div 100
<1>1. t \in Nat
  OBVIOUS
<1>2. Fraction(t) = t % 10000 /\ Fraction(t) \in 0..9999
  BY <1>1, SMT DEF Fraction, D!Precision
<1>3. D!EncodeTime(D!DecodeTime(t)) = t - Fraction(t)
  <2> DEFINE m == t \div 600000
             q == t \div 10000
  <2>1. D!DecodeTime(t) = D!Clock(m \div 60, m % 60, q % 60)
    BY SMT DEF D!DecodeTime, D!Precision
  <2>2. D!EncodeTime(D!DecodeTime(t)) = (((m \div 60) * 60 + (m % 60)) * 60 + (q % 60)) * 10000
    BY <2>1, SMT DEF D!EncodeTime, D!Clock, D!Precision
  <2>3. m \in Nat /\ q \in Nat /\ q \div 60 = m /\ t = 10000 * q + Fraction(t)
    BY <1>1, <1>2, SMT
  <2> HIDE DEF m, q
  <2>4. (m \div 60) * 60 + (m % 60) = m /\ m * 60 + (q % 60) = q
    BY <2>3, SMT
  <2>5. D!EncodeTime(D!DecodeTime(t)) = q * 10000
    BY <2>2, <2>4
  <2> QED BY <1>2, <2>3, <2>5, SMT
<1>4. (Fraction(t) * D!Nanos) \div D!Nanos = Fraction(t)
  BY <1>2, SMT DEF D!Nanos
<1>5. D!Hundredths(t) = Fraction(t) \div 100
  <2>1. D!Hundredths(t) = IF Fraction(t) = 0 THEN 0 ELSE (10000 + Fraction(t)) \div 100 - 100
    BY SMT DEF D!Hundredths, Fraction
  <2> QED BY <1>2, <2>1, SMT
<1> QED BY <1>1, <1>2, <1>3, <1>4, <1>5

\* A point in time through the structures.
LEMMA StructReadsBack ==
  ASSUME NEW v, IsStamp(v)
  PROVE  LET s    == D!TimestampToTagTimestamp(v)
             tail == v[2] % D!Precision
             dos  == D!TimestampToBinary(v, 8)
         IN  /\ D!TimestampToTimestamp(s) = v
             /\ D!TimestampToBinary(v, 16) = s
             /\ <<D!TimestampToDate(s), D!TimestampToTime(s)>> = v
             /\ D!DateToTimestamp(D!TimestampToTagDate(v)) = <<v[1], 0>>
             /\ D!DateToDate(D!DateToTagDate(v[1])) = v[1]
             /\ D!TimestampToTime(D!TimeToTagTimestamp(v[2])) = v[2]
             /\ D!TimeToTime(D!TimestampToTagTime(v)) = v[2] - tail
             /\ D!TimeToTimestamp(D!TimeToTagTime(v[2]))[2] = v[2] - tail
             /\ dos.date = D!DateToBinary(v[1], 4)
             /\ [time |-> dos.time, hsecond |-> tail \div 100] = D!TimeToBinary(v[2], 4)
<1> DEFINE n == v[1]
           t == v[2]
           s == D!TimestampToTagTimestamp(v)
           tail == Fraction(t)
           dos == D!TimestampToBinary(v, 8)
<1>0. v = <<n, t>> /\ n \in Int /\ t \in 0 .. DayTime - 1
  BY DEF IsStamp
<1>1. /\ t \in Nat /\ tail \in 0..9999
      /\ D!EncodeTime(D!DecodeTime(t)) = t - tail
      /\ (tail * D!Nanos) \div D!Nanos = tail
      /\ D!Hundredths(t) = tail \div 100
  BY <1>0, FractionIs
<1>2. D!EncodeDate(D!DecodeDate(n)) = n
  BY <1>0, EncodeDecode
<1>3. tail = t % D!Precision
  BY DEF Fraction
<1>4. ~(t < 0) /\ (t - tail) + tail = t
  <2> HIDE DEF t, tail
  <2> QED BY <1>1
<1> DEFINE date == D!DecodeDate(n)
           time == D!DecodeTime(t)
           fraction == tail * D!Nanos
<1>5. s = [date |-> date, time |-> time, fraction |-> fraction]
  BY <1>3, <1>4 DEF D!TimestampToTagTimestamp, D!Stamp
<1>6. s = D!Stamp(n, t)
  BY <1>4 DEF D!TimestampToTagTimestamp
<1>7. D!TimestampToBinary(v, 16) = s /\ dos.date = date /\ dos.time = time
  BY <1>6 DEF D!TimestampToBinary
<1>8. D!DateToBinary(n, 4) = date
  BY DEF D!DateToBinary
<1>9. D!TimeToBinary(t, 4) = [time |-> time, hsecond |-> D!Hundredths(t)]
  BY DEF D!TimeToBinary
<1>10. D!TimeToTagTimestamp(t) = [date |-> D!Day(0, 0, 0), time |-> time, fraction |-> fraction]
  BY <1>3 DEF D!TimeToTagTimestamp
<1>11. /\ D!TimestampToTagDate(v) = date /\ D!DateToTagDate(n) = date
       /\ D!TimestampToTagTime(v) = time /\ D!TimeToTagTime(t) = time
  BY DEF D!TimestampToTagDate, D!DateToTagDate, D!TimestampToTagTime, D!TimeToTagTime
<1> HIDE DEF n, t, s, tail, dos, date, time, fraction
<1>20. D!EncodeDate(date) = n /\ D!EncodeTime(time) = t - tail /\ fraction \div D!Nanos = tail
  BY <1>1, <1>2 DEF date, time, fraction
<1>21. D!TimestampToDate(s) = n
  BY <1>5, <1>20 DEF D!TimestampToDate
<1>22. D!TimestampToTime(s) = t
  BY <1>1, <1>4, <1>5, <1>20 DEF D!TimestampToTime
<1>23. D!TimestampToTimestamp(s) = v
  BY <1>0, <1>5, <1>20, <1>22 DEF D!TimestampToTimestamp
<1>24. D!TimestampToTime(D!TimeToTagTimestamp(t)) = t
  BY <1>1, <1>4, <1>10, <1>20 DEF D!TimestampToTime
<1>25. D!DateToTimestamp(date) = <<n, 0>> /\ D!DateToDate(date) = n
  BY <1>20 DEF D!DateToTimestamp, D!DateToDate
<1>26. D!TimeToTime(time) = t - tail /\ D!TimeToTimestamp(time)[2] = t - tail
  BY <1>20 DEF D!TimeToTime, D!TimeToTimestamp
<1>27. [time |-> dos.time, hsecond |-> tail \div 100] = D!TimeToBinary(t, 4)
  BY <1>1, <1>7, <1>9
<1> QED BY <1>0, <1>3, <1>7, <1>8, <1>11, <1>21, <1>22, <1>23, <1>24, <1>25, <1>26, <1>27 DEF n, t, s, dos

-----------------------------------------------------------------------------
(* Characters and figures *)

\* The characters of texts; those of a date and of a time of day without a fraction.
Space == " "
Comma == ","
Open  == "{"
Close == "}"
Numerals == {"0", "1", "2", "3", "4", "5", "6", "7", "8", "9"}
Marks    == Numerals \cup {"-", ":", Space}
Alphabet == Marks \cup {".", "'", "t", "s", Comma, Open, Close}
Line     == Seq(Alphabet)
LEMMA Distinct ==
  /\ Space \notin Numerals \cup {"-", ":", ".", "'", "t", "s", Comma, Open, Close}
  /\ Comma \notin Numerals \cup {"-", ":", ".", "'", "t", "s", Open, Close}
  /\ Open  \notin Numerals \cup {"-", ":", ".", "'", "t", "s", Close}
  /\ Close \notin Numerals \cup {"-", ":", ".", "'", "t", "s"}
BY Zenon DEF Space, Comma, Open, Close, Numerals

LEMMA DigitIs == D!Digit = Numerals
<1>1. Len(D!DigitChar) = 10 /\ DOMAIN D!DigitChar = 1..10
  BY DEF D!DigitChar
<1>2. \A i \in 1..10 : D!DigitChar[i] \in Numerals
  <2>1. 1..10 = {1, 2, 3, 4, 5, 6, 7, 8, 9, 10}
    OBVIOUS
  <2> QED BY <2>1 DEF D!DigitChar, Numerals
<1>3. \A c \in Numerals : \E i \in 1..10 : D!DigitChar[i] = c
  <2>1. /\ D!DigitChar[1] = "0" /\ D!DigitChar[2] = "1" /\ D!DigitChar[3] = "2" /\ D!DigitChar[4] = "3"
        /\ D!DigitChar[5] = "4" /\ D!DigitChar[6] = "5" /\ D!DigitChar[7] = "6" /\ D!DigitChar[8] = "7"
        /\ D!DigitChar[9] = "8" /\ D!DigitChar[10] = "9"
    BY DEF D!DigitChar
  <2> QED BY <2>1 DEF Numerals
<1> QED BY <1>1, <1>2, <1>3 DEF D!Digit, D!Range

LEMMA Tens ==
  ASSUME NEW k, k \in {0, 1, 2, 3}, NEW n \in Int
  PROVE  n \div 10^k \in Int
<1>1. ASSUME k = 0 PROVE 10^k = 1
  BY <1>1, SMT
<1>2. ASSUME k = 1 PROVE 10^k = 10
  BY <1>2, SMT
<1>3. ASSUME k = 2 PROVE 10^k = 100
  BY <1>3, SMT
<1>4. ASSUME k = 3 PROVE 10^k = 1000
  BY <1>4, SMT
<1>5. 10^k \in {1, 10, 100, 1000}
  BY <1>1, <1>2, <1>3, <1>4
<1> QED BY <1>5

LEMMA PaddedIs ==
  ASSUME NEW n \in Int, NEW w \in {2, 4}
  PROVE  D!Padded(n, w) \in Seq(Numerals) /\ Len(D!Padded(n, w)) = w
<1>1. ASSUME NEW m \in Int PROVE D!DigitChar[(m % 10) + 1] \in Numerals
  <2>1. m % 10 \in {0, 1, 2, 3, 4, 5, 6, 7, 8, 9}
    OBVIOUS
  <2> QED BY <2>1 DEF D!DigitChar, Numerals
<1>2. ASSUME NEW i \in 1..w PROVE n \div 10^(w - i) \in Int
  <2> DEFINE k == w - i
  <2>1. k \in {0, 1, 2, 3}
    OBVIOUS
  <2> HIDE DEF k
  <2>2. n \div 10^k \in Int
    BY <2>1, Tens, Zenon
  <2> QED BY <2>2 DEF k
<1>3. D!Padded(n, w) \in [1..w -> Numerals]
  BY <1>1, <1>2 DEF D!Padded
<1> QED BY <1>3

-----------------------------------------------------------------------------
(* The text of a point in time *)

LEMMA DecodedIs ==
  ASSUME NEW n \in Int
  PROVE  LET d == D!DecodeDate(n) IN d.year \in Int /\ d.month \in Int /\ d.day \in Int
<1>1. PICK c, r, y, u, m, d : Quotients(n + Shift, c, r, y, u, m, d)
  BY DEF Quotients
<1>2. n + Shift \in Int
  BY ShiftIs
<1>3. Parts(c, y, m, d)
  BY <1>1, <1>2, QuotientsSum
<1>4. D!DecodeDate(n) = FromMarch(c, y, m, d)
  BY <1>1, DecodeIs
<1>5. LET d1 == FromMarch(c, y, m, d) IN d1.year \in Int /\ d1.month \in Int /\ d1.day \in Int
  BY <1>3 DEF Parts, FromMarch, D!Day
<1> QED BY <1>4, <1>5

\* A piece of a text and its length.
IsPiece(s, n) == s \in Seq(Marks) /\ n \in Nat /\ Len(s) = n
LEMMA Joined ==
  ASSUME NEW a, NEW n, IsPiece(a, n), NEW b, NEW m, IsPiece(b, m)
  PROVE  IsPiece(a \o b, n + m)
<1>1. a \in Seq(Marks) /\ n \in Nat /\ Len(a) = n /\ b \in Seq(Marks) /\ m \in Nat /\ Len(b) = m
  BY DEF IsPiece
<1>2. a \o b \in Seq(Marks) /\ Len(a \o b) = Len(a) + Len(b)
  BY <1>1, ConcatProperties
<1> QED BY <1>1, <1>2 DEF IsPiece

\* The first piece begins with a figure.
IsStart(s, n) == IsPiece(s, n) /\ n > 0 /\ s[1] \in Numerals
LEMMA Started ==
  ASSUME NEW a, NEW n, IsStart(a, n), NEW b, NEW m, IsPiece(b, m)
  PROVE  IsStart(a \o b, n + m)
<1>1. /\ a \in Seq(Marks) /\ n \in Nat /\ Len(a) = n /\ b \in Seq(Marks) /\ m \in Nat /\ Len(b) = m
      /\ n > 0 /\ a[1] \in Numerals
  BY DEF IsStart, IsPiece
<1>2. \A i \in 1 .. Len(a) + Len(b) : (a \o b)[i] = IF i <= Len(a) THEN a[i] ELSE b[i - Len(a)]
  BY <1>1, ConcatProperties
<1>3. 1 \in 1 .. Len(a) + Len(b) /\ 1 <= Len(a) /\ n + m > 0
  BY <1>1
<1>4. (a \o b)[1] = a[1]
  BY <1>2, <1>3
<1>5. IsPiece(a, n)
  BY DEF IsStart
<1>6. IsPiece(a \o b, n + m)
  BY <1>5, Joined
<1> QED BY <1>1, <1>3, <1>4, <1>6 DEF IsStart

LEMMA PaddedPiece ==
  ASSUME NEW n, n \in Int, NEW w, w \in {2, 4}
  PROVE  /\ D!Padded(n, w) \in Seq(Numerals) /\ IsPiece(D!Padded(n, w), w)
         /\ D!Padded(n, w)[1] \in Numerals
<1> DEFINE s == D!Padded(n, w)
<1>1. s \in Seq(Numerals) /\ Len(s) = w
  BY PaddedIs, Zenon
<1> HIDE DEF s
<1>2. Numerals \subseteq Marks
  BY DEF Marks
<1>3. s \in Seq(Marks)
  BY <1>1, <1>2, SeqMonotonic
<1>4. 1 \in 1..Len(s) /\ w \in Nat
  BY <1>1
<1>5. s[1] \in Numerals
  BY <1>1, <1>4, ElementOfSeq
<1> QED BY <1>1, <1>3, <1>4, <1>5 DEF IsPiece, s

\* The text of a day, and of a time of day without its fraction.
LEMMA DateTextIs ==
  ASSUME NEW d, d.year \in Int, d.month \in Int, d.day \in Int
  PROVE  IsStart(D!DateText(d), 10)
<1> DEFINE y == D!Padded(d.year, 4)
           m == D!Padded(d.month, 2)
           k == D!Padded(d.day, 2)
           dash == <<"-">>
           a == y \o dash
           b == a \o m
           c == b \o dash
<1>1. IsStart(y, 4) /\ IsPiece(m, 2) /\ IsPiece(k, 2)
  <2>1. 4 > 0
    OBVIOUS
  <2> QED BY <2>1, PaddedPiece DEF IsStart
<1>2. IsPiece(dash, 1)
  BY DEF Marks, IsPiece
<1>3. D!DateText(d) = c \o k
  BY DEF D!DateText
<1> HIDE DEF y, m, k, dash
<1>4. IsStart(a, 4 + 1)
  BY <1>1, <1>2, Started
<1> HIDE DEF a
<1>5. IsStart(b, 4 + 1 + 2)
  BY <1>1, <1>4, Started
<1> HIDE DEF b
<1>6. IsStart(c, 4 + 1 + 2 + 1)
  BY <1>2, <1>5, Started
<1> HIDE DEF c
<1>7. IsStart(c \o k, 4 + 1 + 2 + 1 + 2)
  BY <1>1, <1>6, Started
<1> QED BY <1>3, <1>7

LEMMA ClockTextIs ==
  ASSUME NEW t, t.hour \in Int, t.minute \in Int, t.second \in Int
  PROVE  IsPiece(D!ClockText(t), 8)
<1> DEFINE h == D!Padded(t.hour, 2)
           m == D!Padded(t.minute, 2)
           s == D!Padded(t.second, 2)
           colon == <<":">>
           a == h \o colon
           b == a \o m
           c == b \o colon
<1>1. IsPiece(h, 2) /\ IsPiece(m, 2) /\ IsPiece(s, 2)
  BY PaddedPiece
<1>2. IsPiece(colon, 1)
  BY DEF Marks, IsPiece
<1>3. D!ClockText(t) = c \o s
  BY DEF D!ClockText
<1> HIDE DEF h, m, s, colon
<1>4. IsPiece(a, 2 + 1)
  BY <1>1, <1>2, Joined
<1> HIDE DEF a
<1>5. IsPiece(b, 2 + 1 + 2)
  BY <1>1, <1>4, Joined
<1> HIDE DEF b
<1>6. IsPiece(c, 2 + 1 + 2 + 1)
  BY <1>2, <1>5, Joined
<1> HIDE DEF c
<1>7. IsPiece(c \o s, 2 + 1 + 2 + 1 + 2)
  BY <1>1, <1>6, Joined
<1> QED BY <1>3, <1>7

LEMMA TailIs ==
  ASSUME NEW t, t \in Nat
  PROVE  \/ D!Tail4(t) = << >>
         \/ \E p : IsPiece(p, 4) /\ p \in Seq(Numerals) /\ D!Tail4(t) = <<".">> \o p
<1>1. t % D!Precision \in Int
  BY SMT DEF D!Precision
<1>2. D!Tail4(t) = IF t % D!Precision = 0 THEN << >> ELSE <<".">> \o D!Padded(t % D!Precision, 4)
  BY DEF D!Tail4
<1>3. IsPiece(D!Padded(t % D!Precision, 4), 4) /\ D!Padded(t % D!Precision, 4) \in Seq(Numerals)
  BY <1>1, PaddedPiece
<1> QED BY <1>2, <1>3

\* The driver's text of a point in time.
IsText(s) ==
  /\ s \in Line /\ Len(s) \in {19, 24} /\ s[1] \in Numerals
  /\ \A i \in 1..Len(s) : s[i] \notin {"'", Close, Comma} /\ (s[i] = "." <=> i = 20)
LEMMA MarksAre ==
  ASSUME NEW s, NEW n, IsPiece(s, n)
  PROVE  s \in Line /\ Len(s) = n /\ \A i \in 1..n : s[i] \notin {"'", Close, Comma, "."}
<1>0. s \in Seq(Marks) /\ Len(s) = n
  BY DEF IsPiece
<1>1. Marks \subseteq Alphabet
  BY DEF Alphabet
<1>2. ASSUME NEW c \in Marks PROVE c \notin {"'", Close, Comma, "."}
  BY Distinct DEF Marks, Numerals
<1>3. \A i \in 1..n : s[i] \in Marks
  BY <1>0, ElementOfSeq
<1>4. s \in Line
  BY <1>0, <1>1, SeqMonotonic DEF Line
<1> QED BY <1>0, <1>2, <1>3, <1>4

\* Lines joined, character by character.
LEMMA JoinedLine ==
  ASSUME NEW a, NEW b, a \in Line, b \in Line
  PROVE  /\ a \o b \in Line /\ Len(a \o b) = Len(a) + Len(b) /\ Len(a) \in Nat /\ Len(b) \in Nat
         /\ \A i \in 1..Len(a) : (a \o b)[i] = a[i]
         /\ \A i \in 1..Len(b) : (a \o b)[Len(a) + i] = b[i]
<1>1. a \in Seq(Alphabet) /\ b \in Seq(Alphabet)
  BY DEF Line
<1>2. Len(a) \in Nat /\ Len(b) \in Nat
  BY <1>1, LenProperties
<1>3. /\ a \o b \in Seq(Alphabet) /\ Len(a \o b) = Len(a) + Len(b)
      /\ \A i \in 1 .. Len(a) + Len(b) : (a \o b)[i] = IF i <= Len(a) THEN a[i] ELSE b[i - Len(a)]
  BY <1>1, ConcatProperties
<1>4. ASSUME NEW i \in 1..Len(b) PROVE (a \o b)[Len(a) + i] = b[i]
  <2>1. Len(a) + i \in 1 .. Len(a) + Len(b) /\ ~(Len(a) + i <= Len(a)) /\ (Len(a) + i) - Len(a) = i
    BY <1>2
  <2> QED BY <1>3, <2>1
<1>5. ASSUME NEW i \in 1..Len(a) PROVE (a \o b)[i] = a[i]
  BY <1>2, <1>3
<1> QED BY <1>2, <1>3, <1>4, <1>5 DEF Line

LEMMA TimestampTextIs ==
  ASSUME NEW v, IsStamp(v)
  PROVE  IsText(D!TimestampText(v))
<1> DEFINE d == D!DateText(D!DecodeDate(v[1]))
           c == D!ClockText(D!DecodeTime(v[2]))
           f == D!Tail4(v[2])
           space == <<Space>>
           a == d \o space
           b == a \o c
<1>1. v[1] \in Int /\ v[2] \in Nat
  BY FractionIs DEF IsStamp
<1>2. IsStart(d, 10)
  BY <1>1, DecodedIs, DateTextIs
<1>3. IsPiece(c, 8)
  <2> DEFINE t == D!DecodeTime(v[2])
  <2>1. t.hour \in Int /\ t.minute \in Int /\ t.second \in Int
    BY <1>1, SMT DEF D!DecodeTime, D!Clock, D!Precision
  <2> QED BY <2>1, ClockTextIs
<1>4. IsPiece(space, 1)
  BY DEF Marks, IsPiece
<1>5. f = << >> \/ \E p : IsPiece(p, 4) /\ p \in Seq(Numerals) /\ f = <<".">> \o p
  BY <1>1, TailIs
<1>6. D!TimestampText(v) = b \o f
  BY DEF D!TimestampText, Space
<1> HIDE DEF d, c, f, space
<1>7. IsStart(a, 10 + 1)
  BY <1>2, <1>4, Started
<1> HIDE DEF a
<1>8. IsStart(b, 10 + 1 + 8)
  BY <1>3, <1>7, Started
<1> HIDE DEF b
<1>9. IsPiece(b, 19) /\ b[1] \in Numerals
  BY <1>8 DEF IsStart
<1>10. b \in Line /\ Len(b) = 19 /\ \A i \in 1..19 : b[i] \notin {"'", Close, Comma, "."}
  BY <1>9, MarksAre
<1>11. CASE f = << >>
  <2>1. b \o f = b
    BY <1>10, <1>11, ConcatEmptySeq DEF Line
  <2>2. IsText(b)
    <3>1. \A i \in 1..19 : i # 20
      OBVIOUS
    <3> QED BY <1>9, <1>10, <3>1 DEF IsText
  <2> QED BY <1>6, <2>1, <2>2
<1>12. ASSUME NEW p, IsPiece(p, 4), f = <<".">> \o p
       PROVE  IsText(D!TimestampText(v))
  <2> DEFINE point == <<".">>
             s == b \o f
  <2>1. p \in Line /\ Len(p) = 4 /\ \A i \in 1..4 : p[i] \notin {"'", Close, Comma, "."}
    BY <1>12, MarksAre
  <2>2. point \in Line /\ Len(point) = 1 /\ point[1] = "."
    BY DEF Line, Alphabet
  <2>0. f = point \o p
    BY <1>12
  <2> HIDE DEF point
  <2>3. /\ f \in Line /\ Len(f) = 5 /\ f[1] = "."
        /\ \A i \in 1..4 : f[1 + i] = p[i]
    <3>1. /\ f \in Line /\ Len(f) = Len(point) + Len(p)
          /\ \A i \in 1..Len(point) : f[i] = point[i]
          /\ \A i \in 1..Len(p) : f[Len(point) + i] = p[i]
      <4>1. point \in Line /\ p \in Line
        BY <2>1, <2>2
      <4> QED BY <2>0, <4>1, JoinedLine
    <3> QED BY <2>1, <2>2, <3>1
  <2>4. /\ s \in Line /\ Len(s) = 24
        /\ \A i \in 1..19 : s[i] = b[i]
        /\ \A i \in 1..5 : s[19 + i] = f[i]
    <3>1. /\ s \in Line /\ Len(s) = Len(b) + Len(f)
          /\ \A i \in 1..Len(b) : s[i] = b[i]
          /\ \A i \in 1..Len(f) : s[Len(b) + i] = f[i]
      <4>1. b \in Line /\ f \in Line
        BY <1>10, <2>3
      <4> QED BY <4>1, JoinedLine
    <3> HIDE DEF s
    <3> QED BY <1>10, <2>3, <3>1
  <2> HIDE DEF s
  <2>5. s[1] \in Numerals
    BY <1>9, <2>4
  <2>6. ASSUME NEW i \in 1..24
        PROVE  s[i] \notin {"'", Close, Comma} /\ (s[i] = "." <=> i = 20)
    <3>1. CASE i <= 19
      <4>1. i \in 1..19 /\ i # 20
        BY <3>1
      <4> QED BY <1>10, <2>4, <4>1
    <3>2. CASE i = 20
      <4>1. s[19 + 1] = "."
        BY <2>3, <2>4
      <4> QED BY <3>2, <4>1, Distinct
    <3>3. CASE i > 20
      <4>1. i - 20 \in 1..4 /\ 1 + (i - 20) \in 1..5 /\ 19 + (1 + (i - 20)) = i /\ i # 20
        BY <3>3
      <4>2. s[i] = f[1 + (i - 20)]
        BY <2>4, <4>1
      <4>3. s[i] = p[i - 20]
        BY <2>3, <4>1, <4>2
      <4> QED BY <2>1, <4>1, <4>3
    <3> QED BY <3>1, <3>2, <3>3
  <2>7. IsText(s)
    BY <2>4, <2>5, <2>6 DEF IsText
  <2> QED BY <1>6, <2>7 DEF s
<1> QED BY <1>5, <1>11, <1>12

-----------------------------------------------------------------------------
(* Positions in a line *)

\* The first of some positions of a text, or past its end.
First(s, hits) == IF hits = {} THEN Len(s) + 1 ELSE CHOOSE i \in hits : \A j \in hits : i <= j
LEMMA FirstIs ==
  ASSUME NEW s, NEW hits, NEW k, hits \subseteq Int, k \in hits, \A j \in hits : k <= j
  PROVE  First(s, hits) = k
<1>1. \A i \in hits : (\A j \in hits : i <= j) => i = k
  <2>1. \A i \in Int, j \in Int : i <= j /\ j <= i => i = j
    OBVIOUS
  <2> QED BY <2>1
<1> QED BY <1>1 DEF First

LEMMA SubSeqIs ==
  ASSUME NEW f, NEW s, NEW k, f \in Line, s \in Line, k \in Nat, k + Len(s) <= Len(f),
         \A i \in 1..Len(s) : f[k + i] = s[i]
  PROVE  SubSeq(f, k + 1, k + Len(s)) = s
<1> DEFINE a == k + 1
           b == k + Len(s)
           t == SubSeq(f, a, b)
<1>1. f \in Seq(Alphabet) /\ s \in Seq(Alphabet) /\ Len(s) \in Nat /\ Len(f) \in Nat
  BY LenProperties DEF Line
<1>2. a \in Int /\ b \in Int /\ b - a + 1 = Len(s) /\ \A i \in a..b : i \in 1..Len(f)
  BY <1>1
<1>7. \A i \in 1..Len(s) : a + i - 1 = k + i
  BY <1>1
<1> HIDE DEF a, b
<1>8. \A i \in a..b : f[i] \in Alphabet
  BY <1>1, <1>2, ElementOfSeq
<1>3. /\ t \in Seq(Alphabet) /\ Len(t) = IF a <= b THEN b - a + 1 ELSE 0
      /\ \A i \in 1 .. b - a + 1 : t[i] = f[a + i - 1]
  BY <1>2, <1>8, SubSeqProperties
<1> HIDE DEF t
<1>4. Len(t) = Len(s)
  BY <1>1, <1>2, <1>3
<1>5. ASSUME NEW i \in 1..Len(s) PROVE t[i] = s[i]
  <2>1. t[i] = f[a + i - 1] /\ a + i - 1 = k + i
    BY <1>2, <1>3, <1>7
  <2> QED BY <2>1
<1>6. t = s
  BY <1>1, <1>3, <1>4, <1>5, SeqEqual
<1> QED BY <1>6 DEF t, a, b

\* The whole of a line.
LEMMA WholeIs ==
  ASSUME NEW s, s \in Line
  PROVE  SubSeq(s, 1, Len(s)) = s
BY SubSeqFull DEF Line

\* Blanks before a text are dropped.
LEMMA TrimIs ==
  ASSUME NEW s, s \in Line, NEW k, k \in 1..Len(s), s[k] # Space, \A j \in 1..k-1 : s[j] = Space
  PROVE  D!Trim(s) = SubSeq(s, k, Len(s))
<1> DEFINE hits == {i \in 1..Len(s) : s[i] # Space}
<1>1. D!Trim(s) = SubSeq(s, First(s, hits), Len(s))
  BY DEF D!Trim, D!Rest, D!From, First, Space
<1>2. Len(s) \in Nat
  BY LenProperties DEF Line
<1>3. hits \subseteq Int /\ k \in hits
  OBVIOUS
<1>4. ASSUME NEW j \in hits PROVE k <= j
  <2>1. j \in 1..Len(s) /\ ~(j \in 1..k-1)
    OBVIOUS
  <2> QED BY <1>2, <2>1
<1> HIDE DEF hits
<1>5. First(s, hits) = k
  BY <1>3, <1>4, FirstIs
<1> QED BY <1>1, <1>5

-----------------------------------------------------------------------------
(* A text without a frame *)

\* A text, or that text with more figures in its fraction.
IsLong(g, s) ==
  /\ g \in Line /\ \A i \in 1..Len(s) : g[i] = s[i]
  /\ \/ Len(g) = Len(s)
     \/ Len(s) = 24 /\ Len(g) = 26 /\ g[25] \in Numerals /\ g[26] \in Numerals

LEMMA LongFacts ==
  ASSUME NEW g, NEW s, IsText(s), IsLong(g, s)
  PROVE  /\ Len(g) \in {19, 24, 26} /\ Len(s) = IF Len(g) = 19 THEN 19 ELSE 24
         /\ \A i \in 1..Len(g) : g[i] \notin {"'", Close, Comma} /\ (g[i] = "." <=> i = 20)
         /\ g[1] \in Numerals /\ g[1] # Space /\ g[1] # Open /\ g[1] # "'" /\ g[1] \in D!Digit
<1>1. /\ Len(s) \in {19, 24} /\ s[1] \in Numerals
      /\ \A i \in 1..Len(s) : s[i] \notin {"'", Close, Comma} /\ (s[i] = "." <=> i = 20)
  BY DEF IsText
<1>2. /\ \A i \in 1..Len(s) : g[i] = s[i]
      /\ \/ Len(g) = Len(s)
         \/ Len(s) = 24 /\ Len(g) = 26 /\ g[25] \in Numerals /\ g[26] \in Numerals
  BY DEF IsLong
<1>3. \A c \in Numerals : c # Space /\ c # Open /\ c # "'" /\ c # "." /\ c # Close /\ c # Comma
  BY Distinct DEF Numerals
<1>4. g[1] = s[1]
  <2>1. 1 \in 1..Len(s)
    BY <1>1
  <2> QED BY <1>2, <2>1
<1>5. ASSUME NEW i \in 1..Len(g)
      PROVE  g[i] \notin {"'", Close, Comma} /\ (g[i] = "." <=> i = 20)
  <2>1. CASE i \in 1..Len(s)
    BY <1>1, <1>2, <2>1
  <2>2. CASE i \notin 1..Len(s)
    <3>1. i \in {25, 26} /\ g[25] \in Numerals /\ g[26] \in Numerals
      <4>1. Len(g) # Len(s)
        BY <2>2
      <4>2. Len(s) = 24 /\ Len(g) = 26 /\ g[25] \in Numerals /\ g[26] \in Numerals
        BY <1>2, <4>1
      <4>3. i \in 1..26 /\ i \notin 1..24
        BY <2>2, <4>2
      <4> QED BY <4>2, <4>3
    <3>2. g[i] \in Numerals /\ i # 20
      BY <3>1
    <3> QED BY <1>3, <3>2
  <2> QED BY <2>1, <2>2
<1>6. g[1] \in Numerals /\ g[1] # Space /\ g[1] # Open /\ g[1] # "'" /\ g[1] \in D!Digit
  BY <1>1, <1>3, <1>4, DigitIs
<1>7. Len(g) \in {19, 24, 26} /\ Len(s) = IF Len(g) = 19 THEN 19 ELSE 24
  BY <1>1, <1>2
<1> QED BY <1>5, <1>6, <1>7

\* A line without a frame is cut after the fourth figure of its fraction.
LEMMA PlainReads ==
  ASSUME NEW g, NEW s, IsText(s), IsLong(g, s)
  PROVE  D!PlainDateTime(g) = s
<1>0. /\ Len(g) \in {19, 24, 26} /\ Len(s) = IF Len(g) = 19 THEN 19 ELSE 24
      /\ \A i \in 1..Len(g) : g[i] = "." <=> i = 20
      /\ g[1] \in D!Digit
  BY LongFacts
<1>1. g \in Line /\ s \in Line /\ \A i \in 1..Len(s) : g[i] = s[i]
  BY DEF IsText, IsLong
<1> DEFINE figures == {i \in 1..Len(g) : g[i] \in D!Digit}
           points == {i \in 1..Len(g) : g[i] = "."}
           b == SubSeq(g, First(g, figures), Len(g))
<1>2. First(g, figures) = 1
  <2>1. 1 \in figures /\ figures \subseteq Int /\ \A j \in figures : 1 <= j
    BY <1>0
  <2> HIDE DEF figures
  <2> QED BY <2>1, FirstIs
<1>3. b = g
  BY <1>1, <1>2, WholeIs
<1>4. First(g, points) = 20
  <2>1. CASE Len(g) = 19
    <3>1. points = {}
      BY <1>0, <2>1
    <3> QED BY <2>1, <3>1 DEF First
  <2>2. CASE Len(g) # 19
    <3>1. 20 \in points /\ points \subseteq Int /\ \A j \in points : 20 <= j
      BY <1>0, <2>2
    <3> HIDE DEF points
    <3> QED BY <3>1, FirstIs
  <2> QED BY <2>1, <2>2
<1>5. D!PlainDateTime(g) =
        LET point == First(b, {i \in 1..Len(b) : b[i] = "."})
        IN  IF b = << >> THEN g
            ELSE SubSeq(b, 1, IF point + 4 < Len(b) THEN point + 4 ELSE Len(b))
  BY DEF D!PlainDateTime, D!Rest, D!From, First
<1> HIDE DEF b, figures
<1>6. D!PlainDateTime(g) = SubSeq(g, 1, IF First(g, points) + 4 < Len(g) THEN First(g, points) + 4 ELSE Len(g))
  <2>1. g # << >>
    BY <1>0
  <2> QED BY <1>3, <1>5, <2>1
<1> HIDE DEF points
<1>7. D!PlainDateTime(g) = SubSeq(g, 0 + 1, 0 + Len(s))
  <2> DEFINE p == First(g, points)
  <2>1. p = 20
    BY <1>4
  <2> HIDE DEF p
  <2>2. (IF p + 4 < Len(g) THEN p + 4 ELSE Len(g)) = 0 + Len(s) /\ 0 + 1 = 1
    <3>1. CASE Len(g) = 19
      BY <1>0, <2>1, <3>1
    <3>2. CASE Len(g) = 24
      BY <1>0, <2>1, <3>2
    <3>3. CASE Len(g) = 26
      BY <1>0, <2>1, <3>3
    <3> QED BY <1>0, <3>1, <3>2, <3>3
  <2>3. D!PlainDateTime(g) = SubSeq(g, 1, IF p + 4 < Len(g) THEN p + 4 ELSE Len(g))
    BY <1>6 DEF p
  <2> QED BY <2>2, <2>3
<1>8. 0 + Len(s) <= Len(g) /\ \A i \in 1..Len(s) : g[0 + i] = s[i]
  BY <1>0, <1>1
<1>9. SubSeq(g, 0 + 1, 0 + Len(s)) = s
  BY <1>1, <1>8, SubSeqIs
<1> QED BY <1>7, <1>9

\* A text, alone or after a blank.
LEMMA ServerPlain ==
  ASSUME NEW g, NEW s, IsText(s), IsLong(g, s)
  PROVE  D!ServerText(g) = s /\ D!ServerText(<<Space>> \o g) = s
<1>0. Len(g) \in {19, 24, 26} /\ g[1] # Space /\ g[1] # Open /\ g \in Line
  BY LongFacts DEF IsLong
<1>1. ASSUME NEW f, D!Trim(f) = g
      PROVE  D!ServerText(f) = s
  <2>1. D!Trim(f) # << >> /\ D!Trim(f)[1] # "{"
    <3>1. g # << >>
      BY <1>0
    <3>2. g[1] # "{"
      BY <1>0, Zenon DEF Open
    <3> QED BY <1>1, <3>1, <3>2, Zenon
  <2>2. D!ServerText(f) = D!PlainDateTime(D!Trim(f))
    BY <2>1 DEF D!ServerText
  <2> QED BY <1>1, <2>2, PlainReads
<1>2. D!Trim(g) = g
  <2>1. 1 \in 1..Len(g) /\ \A j \in 1..1-1 : g[j] = Space
    BY <1>0
  <2> QED BY <1>0, <2>1, TrimIs, WholeIs
<1>3. D!Trim(<<Space>> \o g) = g
  <2> DEFINE a == <<Space>>
             f == a \o g
  <2>1. a \in Line /\ Len(a) = 1 /\ a[1] = Space
    BY DEF Line, Alphabet, Marks
  <2> HIDE DEF a
  <2>2. /\ f \in Line /\ Len(f) = Len(a) + Len(g)
        /\ \A i \in 1..Len(a) : f[i] = a[i]
        /\ \A i \in 1..Len(g) : f[Len(a) + i] = g[i]
    <3>1. a \in Line /\ g \in Line
      BY <1>0, <2>1
    <3> QED BY <3>1, JoinedLine
  <2> HIDE DEF f
  <2>3. Len(f) = 1 + Len(g) /\ f[1] = Space /\ \A i \in 1..Len(g) : f[1 + i] = g[i]
    BY <2>1, <2>2
  <2>4. 1 + 1 \in 1..Len(f) /\ f[1 + 1] # Space /\ \A j \in 1..(1 + 1)-1 : f[j] = Space
    BY <1>0, <2>3
  <2>5. D!Trim(f) = SubSeq(f, 1 + 1, Len(f))
    BY <2>2, <2>4, TrimIs
  <2>6. SubSeq(f, 1 + 1, 1 + Len(g)) = g
    <3>1. 1 \in Nat /\ 1 + Len(g) <= Len(f) /\ f \in Line /\ g \in Line
      BY <1>0, <2>2, <2>3
    <3> QED BY <2>3, <3>1, SubSeqIs
  <2>7. D!Trim(f) = g
    BY <2>3, <2>5, <2>6
  <2> QED BY <2>7 DEF f, a
<1> QED BY <1>1, <1>2, <1>3

-----------------------------------------------------------------------------
(* Lines, cut and quoted *)

\* What is left of a line after its first characters.
LEMMA CutIs ==
  ASSUME NEW f, f \in Line, NEW k, k \in Nat, k <= Len(f), NEW a, a = k + 1
  PROVE  LET t == SubSeq(f, a, Len(f))
         IN  t \in Line /\ Len(t) = Len(f) - k /\ \A i \in 1..Len(f) - k : t[i] = f[k + i]
<1> DEFINE b == Len(f)
           t == SubSeq(f, a, b)
<1>1. f \in Seq(Alphabet) /\ b \in Nat
  BY LenProperties DEF Line
<1>2. a \in Int /\ b \in Int /\ b - a + 1 = b - k /\ \A i \in a..b : i \in 1..Len(f)
  BY <1>1
<1>3. \A i \in 1 .. b - k : a + i - 1 = k + i
  BY <1>1
<1>6. (IF a <= b THEN b - a + 1 ELSE 0) = b - k
  BY <1>1
<1> HIDE DEF b
<1>4. \A i \in a..b : f[i] \in Alphabet
  BY <1>1, <1>2, ElementOfSeq
<1>5. /\ t \in Seq(Alphabet) /\ Len(t) = IF a <= b THEN b - a + 1 ELSE 0
      /\ \A i \in 1 .. b - a + 1 : t[i] = f[a + i - 1]
  BY <1>2, <1>4, SubSeqProperties
<1> HIDE DEF t
<1>7. t \in Line /\ Len(t) = b - k /\ \A i \in 1 .. b - k : t[i] = f[k + i]
  BY <1>2, <1>3, <1>5, <1>6 DEF Line
<1> QED BY <1>7 DEF t, b

LEMMA TailCut ==
  ASSUME NEW f, f \in Line, Len(f) > 0
  PROVE  Tail(f) \in Line /\ Len(Tail(f)) = Len(f) - 1 /\ \A i \in 1..Len(f) - 1 : Tail(f)[i] = f[1 + i]
<1>1. f \in Seq(Alphabet) /\ Len(f) \in Nat /\ f # << >>
  BY LenProperties, EmptySeq DEF Line
<1>2. Tail(f) = SubSeq(f, 2, Len(f))
  BY <1>1, TailIsSubSeq
<1>3. 2 = 1 + 1 /\ 1 \in Nat /\ 1 <= Len(f)
  BY <1>1
<1>4. LET t == SubSeq(f, 2, Len(f))
      IN  t \in Line /\ Len(t) = Len(f) - 1 /\ \A i \in 1..Len(f) - 1 : t[i] = f[1 + i]
  <2> DEFINE a == 2
             k == 1
  <2>1. a = k + 1 /\ k \in Nat /\ k <= Len(f)
    BY <1>3
  <2> HIDE DEF a, k
  <2>2. LET t == SubSeq(f, a, Len(f))
        IN  t \in Line /\ Len(t) = Len(f) - k /\ \A i \in 1..Len(f) - k : t[i] = f[k + i]
    BY <2>1, CutIs
  <2> QED BY <2>2 DEF a, k
<1> QED BY <1>2, <1>4

\* A line between quotation marks.
LEMMA QuotedIs ==
  ASSUME NEW g, g \in Line
  PROVE  LET f == Quoted(g)
         IN  /\ f \in Line /\ Len(f) = Len(g) + 2 /\ Len(g) \in Nat /\ f[1] = "'" /\ f[Len(g) + 2] = "'"
             /\ \A i \in 1..Len(g) : f[1 + i] = g[i]
<1> DEFINE m == <<"'">>
           a == m \o g
           f == a \o m
<1>1. m \in Line /\ Len(m) = 1 /\ m[1] = "'"
  BY DEF Line, Alphabet
<1>2. Quoted(g) = f
  BY DEF Quoted
<1> HIDE DEF m
<1>3. /\ a \in Line /\ Len(a) = Len(m) + Len(g) /\ Len(m) \in Nat /\ Len(g) \in Nat
      /\ \A i \in 1..Len(m) : a[i] = m[i]
      /\ \A i \in 1..Len(g) : a[Len(m) + i] = g[i]
  <2>1. m \in Line /\ g \in Line
    BY <1>1
  <2> QED BY <2>1, JoinedLine
<1> HIDE DEF a
<1>4. a \in Line /\ Len(a) = 1 + Len(g) /\ a[1] = "'" /\ \A i \in 1..Len(g) : a[1 + i] = g[i]
  BY <1>1, <1>3
<1>5. /\ f \in Line /\ Len(f) = Len(a) + Len(m)
      /\ \A i \in 1..Len(a) : f[i] = a[i]
      /\ \A i \in 1..Len(m) : f[Len(a) + i] = m[i]
  <2>1. a \in Line /\ m \in Line
    BY <1>1, <1>4
  <2> QED BY <2>1, JoinedLine
<1> HIDE DEF f
<1>6. Len(f) = Len(g) + 2
  BY <1>1, <1>3, <1>4, <1>5
<1>7. 1 \in 1..Len(a) /\ 1 \in 1..Len(m) /\ Len(a) + 1 = Len(g) + 2
  BY <1>1, <1>3, <1>4
<1>8. f[1] = "'"
  BY <1>4, <1>5, <1>7
<1>9. f[Len(g) + 2] = "'"
  <2>1. f[Len(a) + 1] = m[1]
    BY <1>5, <1>7
  <2> QED BY <1>1, <1>7, <2>1
<1>10. ASSUME NEW i \in 1..Len(g) PROVE f[1 + i] = g[i]
  <2>1. 1 + i \in 1..Len(a)
    BY <1>3, <1>4
  <2> QED BY <1>4, <1>5, <2>1
<1> QED BY <1>2, <1>3, <1>5, <1>6, <1>8, <1>9, <1>10

-----------------------------------------------------------------------------
(* The escape *)

\* A line in the frame of the escape {ts ''}.
IsFrame(f, g) ==
  /\ f \in Line /\ Len(g) \in Nat /\ Len(f) = Len(g) + 7
  /\ f[1] = Open /\ f[2] = "t" /\ f[3] = "s" /\ f[4] = Space /\ f[5] = "'"
  /\ \A i \in 1..Len(g) : f[5 + i] = g[i]
  /\ f[5 + (Len(g) + 1)] = "'"

LEMMA EscapeReads ==
  ASSUME NEW f, NEW g, NEW s, IsText(s), IsLong(g, s), IsFrame(f, g)
  PROVE  D!ServerText(f) = s
<1> DEFINE n == Len(g)
           m == Len(s)
           e == Tail(f)
           q == SubSeq(e, 5, Len(e))
           r == SubSeq(q, 13, Len(q))
<1>1. /\ n \in {19, 24, 26} /\ m = IF n = 19 THEN 19 ELSE 24
      /\ \A i \in 1..n : g[i] # "'" /\ (g[i] = "." <=> i = 20)
  BY LongFacts
<1>2. s \in Line /\ \A i \in 1..m : g[i] = s[i]
  BY DEF IsText, IsLong
<1>3. /\ f \in Line /\ Len(f) = n + 7 /\ f[1] = Open /\ f[2] = "t" /\ f[3] = "s" /\ f[4] = Space
      /\ f[5] = "'" /\ f[5 + (n + 1)] = "'"
      /\ \A i \in 1..n : f[5 + i] = g[i]
  BY DEF IsFrame
<1>4. e \in Line /\ Len(e) = n + 6 /\ \A i \in 1..n + 6 : e[i] = f[1 + i]
  <2>1. Len(f) > 0 /\ Len(f) - 1 = n + 6
    BY <1>1, <1>3
  <2> QED BY <1>3, <2>1, TailCut
<1> HIDE DEF n, m, e
<1>5. e[1] = "t" /\ e[2] = "s" /\ e[3] = Space /\ e[4] = "'"
  <2>1. /\ 1 \in 1..n + 6 /\ 2 \in 1..n + 6 /\ 3 \in 1..n + 6 /\ 4 \in 1..n + 6
        /\ 1 + 1 = 2 /\ 1 + 2 = 3 /\ 1 + 3 = 4 /\ 1 + 4 = 5
    BY <1>1
  <2> QED BY <1>3, <1>4, <2>1
<1>6. q \in Line /\ Len(q) = n + 2 /\ \A i \in 1..n + 2 : q[i] = e[4 + i]
  <2> DEFINE a == 5
             k == 4
  <2>1. a = k + 1 /\ k \in Nat /\ k <= Len(e) /\ Len(e) - k = n + 2
    BY <1>1, <1>4
  <2> HIDE DEF a, k
  <2>2. LET t == SubSeq(e, a, Len(e))
        IN  t \in Line /\ Len(t) = Len(e) - k /\ \A i \in 1..Len(e) - k : t[i] = e[k + i]
    <3>1. e \in Line /\ k \in Nat /\ k <= Len(e) /\ a = k + 1
      BY <1>4, <2>1
    <3> QED BY <3>1, CutIs
  <2> QED BY <2>1, <2>2 DEF a, k
<1> HIDE DEF q
<1>7. q[n + 1] = "'" /\ \A i \in 1..n : q[i] = g[i]
  <2>1. ASSUME NEW i \in 1..n + 2 PROVE q[i] = f[5 + i]
    <3>1. 4 + i \in 1..n + 6 /\ 1 + (4 + i) = 5 + i
      BY <1>1
    <3> QED BY <1>4, <1>6, <3>1
  <2>2. n + 1 \in 1..n + 2 /\ \A i \in 1..n : i \in 1..n + 2
    BY <1>1
  <2> QED BY <1>3, <2>1, <2>2
<1>8. r \in Line /\ Len(r) = n - 10 /\ \A i \in 1..n - 10 : r[i] = q[12 + i]
  <2> DEFINE a == 13
             k == 12
  <2>1. a = k + 1 /\ k \in Nat /\ k <= Len(q) /\ Len(q) - k = n - 10
    BY <1>1, <1>6
  <2> HIDE DEF a, k
  <2>2. LET t == SubSeq(q, a, Len(q))
        IN  t \in Line /\ Len(t) = Len(q) - k /\ \A i \in 1..Len(q) - k : t[i] = q[k + i]
    <3>1. q \in Line /\ k \in Nat /\ k <= Len(q) /\ a = k + 1
      BY <1>6, <2>1
    <3> QED BY <3>1, CutIs
  <2> QED BY <2>1, <2>2 DEF a, k
<1> HIDE DEF r
<1>9. r[n - 11] = "'" /\ \A i \in 1..n - 12 : r[i] # "'"
  <2>1. n - 11 \in 1..n - 10 /\ 12 + (n - 11) = n + 1
    BY <1>1
  <2>2. ASSUME NEW i \in 1..n - 12 PROVE r[i] # "'"
    <3>1. i \in 1..n - 10 /\ 12 + i \in 1..n
      BY <1>1
    <3> QED BY <1>1, <1>7, <1>8, <3>1
  <2> QED BY <1>7, <1>8, <2>1, <2>2
<1> DEFINE opening == {i \in 1..Len(e) : e[i] = "'"}
           closing == {i \in 1..Len(r) : r[i] = "'"}
<1>10. First(e, opening) = 4
  <2>1. 4 \in opening /\ opening \subseteq Int
    BY <1>1, <1>4, <1>5
  <2>2. ASSUME NEW j \in opening PROVE 4 <= j
    <3>1. e[1] # "'" /\ e[2] # "'" /\ e[3] # "'"
      BY <1>5, Distinct
    <3>2. j \in Int /\ j >= 1 /\ j # 1 /\ j # 2 /\ j # 3
      BY <1>1, <1>4, <3>1
    <3> QED BY <3>2
  <2> HIDE DEF opening
  <2> QED BY <2>1, <2>2, FirstIs
<1>11. First(r, closing) = n - 11
  <2>1. n - 11 \in closing /\ closing \subseteq Int
    BY <1>1, <1>8, <1>9
  <2>2. ASSUME NEW j \in closing PROVE n - 11 <= j
    <3>1. j \in 1..n - 10 /\ j \notin 1..n - 12
      BY <1>8, <1>9
    <3> QED BY <1>1, <3>1
  <2> HIDE DEF closing
  <2> QED BY <2>1, <2>2, FirstIs
<1> HIDE DEF opening, closing
<1> DEFINE close == 12 + First(r, closing) - 1
           cut == IF 19 > 0 /\ close > 19 /\ q[19 + 1] = "."
                    THEN IF close > 19 + 5 THEN 19 + 5 ELSE close
                    ELSE close
<1>12. close = n
  BY <1>1, <1>11
<1> HIDE DEF close
<1>13. cut = m
  <2>1. CASE n = 19
    BY <1>1, <1>12, <2>1
  <2>2. CASE n \in {24, 26}
    <3>1. q[19 + 1] = "."
      <4>1. 19 + 1 = 20 /\ 20 \in 1..n
        BY <2>2
      <4> QED BY <1>1, <1>7, <4>1
    <3> QED BY <1>1, <1>12, <2>2, <3>1
  <2> QED BY <1>1, <2>1, <2>2
<1> HIDE DEF cut
<1>14. SubSeq(q, 1, m) = s
  <2> DEFINE a == 0
  <2>1. a \in Nat /\ a + m <= Len(q) /\ a + m = m /\ a + 1 = 1
    BY <1>1, <1>6
  <2>2. \A i \in 1..m : q[a + i] = s[i]
    <3>1. ASSUME NEW i \in 1..m PROVE a + i = i /\ i \in 1..n
      BY <1>1
    <3> QED BY <1>2, <1>7, <3>1
  <2> HIDE DEF a
  <2>3. SubSeq(q, a + 1, a + m) = s
    BY <1>2, <1>6, <2>1, <2>2, SubSeqIs DEF m
  <2> QED BY <2>1, <2>3
<1>15. D!Escape(e, 12, 19) = s
  <2>1. SubSeq(e, First(e, opening) + 1, Len(e)) = q
    BY <1>10 DEF q
  <2>2. SubSeq(q, 12 + 1, Len(q)) = r
    BY DEF r
  <2>3. D!Escape(e, 12, 19) =
          LET p  == SubSeq(e, First(e, opening) + 1, Len(e))
              r1 == SubSeq(p, 12 + 1, Len(p))
              c  == 12 + First(r1, {i \in 1..Len(r1) : r1[i] = "'"}) - 1
              l  == IF 19 > 0 /\ c > 19 /\ p[19 + 1] = "."
                      THEN IF c > 19 + 5 THEN 19 + 5 ELSE c
                      ELSE c
          IN  IF p = << >> \/ c >= Len(p) THEN e ELSE SubSeq(p, 1, l)
    BY DEF D!Escape, D!Rest, D!From, First, opening
  <2>4. D!Escape(e, 12, 19) = IF q = << >> \/ close >= Len(q) THEN e ELSE SubSeq(q, 1, cut)
    BY <2>1, <2>2, <2>3 DEF close, cut, closing
  <2>5. q # << >> /\ ~(close >= Len(q))
    BY <1>1, <1>6, <1>12
  <2> QED BY <1>13, <1>14, <2>4, <2>5
<1>16. D!Trim(f) = f
  <2>1. 1 \in 1..Len(f) /\ f[1] # Space /\ \A j \in 1..1-1 : f[j] = Space
    BY <1>1, <1>3, Distinct
  <2> QED BY <1>3, <2>1, TrimIs, WholeIs
<1>17. D!Trim(e) = e
  <2>1. 1 \in 1..Len(e) /\ e[1] # Space /\ \A j \in 1..1-1 : e[j] = Space
    BY <1>1, <1>4, <1>5, Distinct
  <2> QED BY <1>4, <2>1, TrimIs, WholeIs
<1>18. D!ServerText(f) = D!Escape(e, 12, 19)
  <2>1. f # << >>
    BY <1>1, <1>3
  <2>2. f[1] = "{"
    BY <1>3, Zenon DEF Open
  <2>3. e[1] # "d" /\ e[1] = "t" /\ e[2] = "s"
    BY <1>5
  <2>4. D!Trim(Tail(f)) = e
    BY <1>17 DEF e
  <2> QED BY <1>16, <2>1, <2>2, <2>3, <2>4, Zenon DEF D!ServerText
<1> QED BY <1>15, <1>18

-----------------------------------------------------------------------------
(* The frames *)

\* The frame of the escape, as the application writes it.
LEMMA FrameIs ==
  ASSUME NEW g, g \in Line
  PROVE  IsFrame((<<Open, "t", "s", Space>> \o Quoted(g)) \o <<Close>>, g)
<1> DEFINE head == <<Open, "t", "s", Space>>
           last == <<Close>>
           q == Quoted(g)
           a == head \o q
           f == a \o last
           n == Len(g)
<1>1. /\ q \in Line /\ Len(q) = n + 2 /\ n \in Nat /\ q[1] = "'" /\ q[n + 2] = "'"
      /\ \A i \in 1..n : q[1 + i] = g[i]
  BY QuotedIs
<1>2. head \in Line /\ Len(head) = 4 /\ head[1] = Open /\ head[2] = "t" /\ head[3] = "s" /\ head[4] = Space
  BY DEF Line, Alphabet, Marks
<1>3. last \in Line /\ Len(last) = 1
  BY DEF Line, Alphabet
<1> HIDE DEF head, last, q, n
<1>4. /\ a \in Line /\ Len(a) = Len(head) + Len(q)
      /\ \A i \in 1..Len(head) : a[i] = head[i]
      /\ \A i \in 1..Len(q) : a[Len(head) + i] = q[i]
  <2>1. head \in Line /\ q \in Line
    BY <1>1, <1>2
  <2> QED BY <2>1, JoinedLine
<1> HIDE DEF a
<1>5. /\ f \in Line /\ Len(f) = Len(a) + Len(last)
      /\ \A i \in 1..Len(a) : f[i] = a[i]
  <2>1. a \in Line /\ last \in Line
    BY <1>3, <1>4
  <2> QED BY <2>1, JoinedLine
<1> HIDE DEF f
<1>6. Len(a) = n + 6 /\ Len(f) = n + 7
  BY <1>1, <1>2, <1>3, <1>4, <1>5
<1>7. f[1] = Open /\ f[2] = "t" /\ f[3] = "s" /\ f[4] = Space
  <2>1. ASSUME NEW i \in 1..4 PROVE f[i] = head[i]
    <3>1. i \in 1..Len(head) /\ i \in 1..Len(a)
      BY <1>1, <1>2, <1>6
    <3> QED BY <1>4, <1>5, <3>1
  <2>2. 1 \in 1..4 /\ 2 \in 1..4 /\ 3 \in 1..4 /\ 4 \in 1..4
    OBVIOUS
  <2> QED BY <1>2, <2>1, <2>2
<1>8. ASSUME NEW i \in 1..n + 2 PROVE f[4 + i] = q[i]
  <2>1. i \in 1..Len(q) /\ Len(head) + i = 4 + i /\ 4 + i \in 1..Len(a)
    BY <1>1, <1>2, <1>6
  <2> QED BY <1>4, <1>5, <2>1
<1>9. f[5] = "'"
  <2>1. 1 \in 1..n + 2 /\ 4 + 1 = 5
    BY <1>1
  <2> QED BY <1>1, <1>8, <2>1
<1>10. f[5 + (n + 1)] = "'"
  <2>1. n + 2 \in 1..n + 2 /\ 4 + (n + 2) = 5 + (n + 1)
    BY <1>1
  <2> QED BY <1>1, <1>8, <2>1
<1>11. ASSUME NEW i \in 1..n PROVE f[5 + i] = g[i]
  <2>1. 1 + i \in 1..n + 2 /\ 4 + (1 + i) = 5 + i
    BY <1>1
  <2> QED BY <1>1, <1>8, <2>1
<1>12. IsFrame(f, g)
  BY <1>1, <1>5, <1>6, <1>7, <1>9, <1>10, <1>11 DEF IsFrame, n
<1> QED BY <1>12 DEF f, a, q, head, last

\* The first of the elements of an array's text.
LEMMA ElementReads ==
  ASSUME NEW s, IsText(s), NEW rest, rest \in Line
  PROVE  D!FirstElement((<<Open>> \o Quoted(s)) \o rest) = s
<1> DEFINE head == <<Open>>
           q == Quoted(s)
           a == head \o q
           f == a \o rest
           n == Len(s)
           t == SubSeq(f, 2, Len(f))
           b == Tail(t)
<1>0. /\ s \in Line /\ n \in {19, 24} /\ n \in Nat
      /\ \A i \in 1..n : s[i] \notin {"'", Close, Comma}
  BY DEF IsText
<1>1. /\ q \in Line /\ Len(q) = n + 2 /\ q[1] = "'" /\ q[n + 2] = "'"
      /\ \A i \in 1..n : q[1 + i] = s[i]
  BY <1>0, QuotedIs
<1>2. head \in Line /\ Len(head) = 1 /\ head[1] = Open
  BY DEF Line, Alphabet
<1> HIDE DEF head, q, n
<1>4. /\ a \in Line /\ Len(a) = Len(head) + Len(q)
      /\ \A i \in 1..Len(head) : a[i] = head[i]
      /\ \A i \in 1..Len(q) : a[Len(head) + i] = q[i]
  <2>1. head \in Line /\ q \in Line
    BY <1>1, <1>2
  <2> QED BY <2>1, JoinedLine
<1> HIDE DEF a
<1>5. /\ f \in Line /\ Len(f) = Len(a) + Len(rest) /\ Len(rest) \in Nat
      /\ \A i \in 1..Len(a) : f[i] = a[i]
  <2>1. a \in Line /\ rest \in Line
    BY <1>4
  <2> QED BY <2>1, JoinedLine
<1> HIDE DEF f
<1>6. Len(a) = n + 3 /\ Len(f) >= n + 3 /\ Len(f) \in Nat
  BY <1>0, <1>1, <1>2, <1>4, <1>5
<1>7. f[1] = Open
  <2>1. 1 \in 1..Len(head) /\ 1 \in 1..Len(a)
    BY <1>0, <1>2, <1>6
  <2> QED BY <1>2, <1>4, <1>5, <2>1
<1>8. ASSUME NEW i \in 1..n + 2 PROVE f[1 + i] = q[i]
  <2>1. i \in 1..Len(q) /\ Len(head) + i = 1 + i /\ 1 + i \in 1..Len(a)
    BY <1>0, <1>1, <1>2, <1>6
  <2> QED BY <1>4, <1>5, <2>1
<1>9. t \in Line /\ Len(t) = Len(f) - 1 /\ \A i \in 1..Len(f) - 1 : t[i] = f[1 + i]
  <2> DEFINE c == 2
             k == 1
  <2>1. c = k + 1 /\ k \in Nat /\ k <= Len(f) /\ f \in Line
    BY <1>0, <1>5, <1>6
  <2> HIDE DEF c, k
  <2>2. LET u == SubSeq(f, c, Len(f))
        IN  u \in Line /\ Len(u) = Len(f) - k /\ \A i \in 1..Len(f) - k : u[i] = f[k + i]
    BY <2>1, CutIs
  <2> QED BY <2>2 DEF c, k
<1> HIDE DEF t
<1>10. b \in Line /\ Len(b) = Len(f) - 2 /\ \A i \in 1..Len(f) - 2 : b[i] = t[1 + i]
  <2>1. t \in Line /\ Len(t) > 0 /\ Len(t) - 1 = Len(f) - 2
    BY <1>0, <1>6, <1>9
  <2>2. Tail(t) \in Line /\ Len(Tail(t)) = Len(t) - 1 /\ \A i \in 1..Len(t) - 1 : Tail(t)[i] = t[1 + i]
    BY <2>1, TailCut
  <2> QED BY <2>1, <2>2
<1> HIDE DEF b
<1>11. t[1] = "'" /\ f[2] = "'"
  <2>1. 1 \in 1..n + 2 /\ 1 \in 1..Len(f) - 1 /\ 1 + 1 = 2
    BY <1>0, <1>6
  <2> QED BY <1>1, <1>8, <1>9, <2>1
<1>12. ASSUME NEW i \in 1..n + 1 PROVE b[i] = q[1 + i]
  <2>1. i \in 1..Len(f) - 2 /\ 1 + i \in 1..Len(f) - 1 /\ 1 + i \in 1..n + 2
    BY <1>0, <1>6
  <2>2. b[i] = t[1 + i]
    BY <1>10, <2>1
  <2>3. t[1 + i] = f[1 + (1 + i)]
    BY <1>9, <2>1
  <2>4. f[1 + (1 + i)] = q[1 + i]
    BY <1>8, <2>1
  <2> QED BY <2>2, <2>3, <2>4
<1>13. b[n + 1] = "'" /\ \A i \in 1..n : b[i] = s[i]
  <2>1. n + 1 \in 1..n + 1 /\ 1 + (n + 1) = n + 2
    BY <1>0
  <2>2. b[n + 1] = "'"
    BY <1>1, <1>12, <2>1
  <2>3. ASSUME NEW i \in 1..n PROVE b[i] = s[i]
    <3>1. i \in 1..n + 1
      BY <1>0
    <3> QED BY <1>1, <1>12, <3>1
  <2> QED BY <2>2, <2>3
<1> DEFINE begin == {i \in 1..Len(f) : f[i] \notin {Open, Space}}
           ends == {i \in 1..Len(b) : b[i] \in {Close, Comma, "'"}}
<1>14. First(f, begin) = 2
  <2>1. 2 \in begin /\ begin \subseteq Int
    BY <1>0, <1>6, <1>11, Distinct
  <2>2. ASSUME NEW j \in begin PROVE 2 <= j
    <3>1. j \in Int /\ j >= 1 /\ j # 1
      BY <1>6, <1>7
    <3> QED BY <3>1
  <2> HIDE DEF begin
  <2> QED BY <2>1, <2>2, FirstIs
<1>15. First(b, ends) = n + 1
  <2>1. n + 1 \in ends /\ ends \subseteq Int
    BY <1>0, <1>6, <1>10, <1>13
  <2>2. ASSUME NEW j \in ends PROVE n + 1 <= j
    <3>1. j \in Int /\ j >= 1 /\ j \notin 1..n
      BY <1>0, <1>6, <1>10, <1>13
    <3> QED BY <1>0, <3>1
  <2> HIDE DEF ends
  <2> QED BY <2>1, <2>2, FirstIs
<1>16. SubSeq(b, 1, n) = s
  <2> DEFINE c == 0
  <2>1. c \in Nat /\ c + n <= Len(b) /\ c + n = n /\ c + 1 = 1
    BY <1>0, <1>6, <1>10
  <2>2. \A i \in 1..n : b[c + i] = s[i]
    <3>1. ASSUME NEW i \in 1..n PROVE c + i = i
      BY <1>0
    <3> QED BY <1>13, <3>1
  <2> HIDE DEF c
  <2>3. SubSeq(b, c + 1, c + n) = s
    BY <1>0, <1>10, <2>1, <2>2, SubSeqIs DEF n
  <2> QED BY <2>1, <2>3
<1>17. D!FirstElement(f) = s
  <2> HIDE DEF begin, ends
  <2>1. SubSeq(f, First(f, begin), Len(f)) = t
    BY <1>14 DEF t
  <2>2. t # << >> /\ t[1] = "'"
    BY <1>0, <1>6, <1>9, <1>11
  <2>3. D!FirstElement(f) =
          LET u == SubSeq(f, First(f, {i \in 1..Len(f) : f[i] \notin {"{", " "}}), Len(f))
              quoted == u # << >> /\ u[1] = "'"
              w == IF quoted THEN Tail(u) ELSE u
              stop == First(w, {i \in 1..Len(w) : w[i] \in {"}", ","} \cup (IF quoted THEN {"'"} ELSE {" "})})
          IN  SubSeq(w, 1, stop - 1)
    BY DEF D!FirstElement, D!Rest, D!From, First
  <2>4. D!FirstElement(f) =
          LET u == SubSeq(f, First(f, begin), Len(f))
              quoted == u # << >> /\ u[1] = "'"
              w == IF quoted THEN Tail(u) ELSE u
              stop == First(w, {i \in 1..Len(w) : w[i] \in {Close, Comma} \cup (IF quoted THEN {"'"} ELSE {Space})})
          IN  SubSeq(w, 1, stop - 1)
    BY <2>3 DEF begin, Open, Space, Close, Comma
  <2>5. D!FirstElement(f) =
          SubSeq(b, 1, First(b, {i \in 1..Len(b) : b[i] \in {Close, Comma} \cup {"'"}}) - 1)
    BY <2>1, <2>2, <2>4 DEF b
  <2>6. {i \in 1..Len(b) : b[i] \in {Close, Comma} \cup {"'"}} = ends
    BY DEF ends
  <2>7. D!FirstElement(f) = SubSeq(b, 1, First(b, ends) - 1)
    BY <2>5, <2>6
  <2>8. First(b, ends) - 1 = n
    BY <1>0, <1>15
  <2> QED BY <1>16, <2>7, <2>8
<1> QED BY <1>17 DEF f, a, q, head

-----------------------------------------------------------------------------
(* Every form of a text *)

LEMMA PrintedWhole ==
  ASSUME NEW s, s \in Line, Len(s) < 40
  PROVE  D!Printed(s, 40).text = s
<1>1. D!Printed(s, 40).text = SubSeq(s, 1, IF Len(s) < 40 THEN Len(s) ELSE 40 - 1)
  BY DEF D!Printed
<1> QED BY <1>1, WholeIs

\* The text of a point in time is that of its date and that of its time.
LEMMA TextParts ==
  ASSUME NEW v, IsStamp(v)
  PROVE  /\ D!TimestampToString(v, 40).text = D!TimestampText(v)
         /\ D!TimestampText(v) = D!DateToString(v[1], 40).text \o <<" ">> \o D!TimeToString(v[2], 40).text
<1> DEFINE d == D!DateText(D!DecodeDate(v[1]))
           c == D!ClockText(D!DecodeTime(v[2]))
           f == D!Tail4(v[2])
           space == <<Space>>
           a == d \o space
           text == D!TimestampText(v)
<1>1. v[1] \in Int /\ v[2] \in Nat
  BY FractionIs DEF IsStamp
<1>2. D!TimestampToString(v, 40).text = text
  <2>1. IsText(text)
    BY TimestampTextIs
  <2> HIDE DEF text
  <2>2. text \in Line /\ Len(text) < 40
    <3> DEFINE n == Len(text)
    <3>1. text \in Line /\ n \in {19, 24}
      BY <2>1 DEF IsText
    <3> HIDE DEF n
    <3>2. n < 40
      BY <3>1
    <3> QED BY <3>1, <3>2 DEF n
  <2>3. D!Printed(text, 40).text = text
    BY <2>2, PrintedWhole
  <2> QED BY <2>3 DEF D!TimestampToString, text
<1>3. d \in Line /\ Len(d) = 10
  <2>1. IsPiece(d, 10)
    BY <1>1, DecodedIs, DateTextIs DEF IsStart
  <2> QED BY <2>1, MarksAre
<1>4. c \in Line /\ Len(c) = 8
  <2> DEFINE t == D!DecodeTime(v[2])
  <2>1. t.hour \in Int /\ t.minute \in Int /\ t.second \in Int
    BY <1>1, SMT DEF D!DecodeTime, D!Clock, D!Precision
  <2>2. IsPiece(c, 8)
    BY <2>1, ClockTextIs
  <2> QED BY <2>2, MarksAre
<1>5. f \in Line /\ Len(f) \in {0, 5}
  <2>1. CASE f = << >>
    BY <2>1, EmptySeq DEF Line
  <2>2. ASSUME NEW p, IsPiece(p, 4), f = <<".">> \o p
        PROVE  f \in Line /\ Len(f) \in {0, 5}
    <3> DEFINE point == <<".">>
    <3>1. point \in Line /\ Len(point) = 1 /\ p \in Line /\ Len(p) = 4
      <4>1. point \in Line /\ Len(point) = 1
        BY DEF Line, Alphabet
      <4> QED BY <2>2, <4>1, MarksAre
    <3> HIDE DEF point
    <3>2. point \o p \in Line /\ Len(point \o p) = Len(point) + Len(p)
      BY <3>1, JoinedLine
    <3>3. Len(point \o p) = 5
      BY <3>1, <3>2
    <3> QED BY <2>2, <3>2, <3>3 DEF point
  <2> QED BY <1>1, <2>1, <2>2, TailIs
<1>6. space \in Line
  BY DEF Line, Alphabet, Marks
<1>7. D!DateToString(v[1], 40).text = D!Printed(d, 40).text
  BY DEF D!DateToString
<1>8. D!TimeToString(v[2], 40).text = D!Printed(c \o f, 40).text
  BY DEF D!TimeToString
<1>9. text = (a \o c) \o f
  BY DEF D!TimestampText, Space
<1>10. D!DateToString(v[1], 40).text \o <<" ">> \o D!TimeToString(v[2], 40).text
         = (D!Printed(d, 40).text \o space) \o D!Printed(c \o f, 40).text
  BY <1>7, <1>8, Zenon DEF Space
<1> HIDE DEF d, c, f, space, text
<1>11. D!Printed(d, 40).text = d
  <2>1. d \in Line /\ Len(d) < 40
    BY <1>3
  <2> QED BY <2>1, PrintedWhole
<1>12. D!Printed(c \o f, 40).text = c \o f
  <2>1. c \o f \in Line /\ Len(c \o f) = Len(c) + Len(f)
    <3>1. c \in Line /\ f \in Line
      BY <1>4, <1>5
    <3> QED BY <3>1, JoinedLine
  <2>2. Len(c \o f) < 40
    <3> DEFINE l == Len(c \o f)
               n == Len(f)
    <3>1. l = 8 + n /\ n \in {0, 5}
      BY <1>4, <1>5, <2>1
    <3> HIDE DEF l, n
    <3>2. l < 40
      BY <3>1
    <3> QED BY <3>2 DEF l
  <2> QED BY <2>1, <2>2, PrintedWhole
<1>13. (a \o c) \o f = a \o (c \o f)
  <2>1. a \in Line
    <3>1. d \in Line /\ space \in Line
      BY <1>3, <1>6
    <3> QED BY <3>1, JoinedLine
  <2> HIDE DEF a
  <2> QED BY <1>4, <1>5, <2>1, ConcatAssociative DEF Line
<1> QED BY <1>2, <1>9, <1>10, <1>11, <1>12, <1>13 DEF text

\* What the server is sent of a text, in every frame and with more figures.
LEMMA SentReads ==
  ASSUME NEW s, IsText(s)
  PROVE  {D!ServerText(f) : f \in UNION {Frames(g) : g \in Longer(s)}} = {s}
<1>0. s \in Line /\ Len(s) \in {19, 24} /\ \A i \in 1..Len(s) : s[i] = "." <=> i = 20
  BY DEF IsText
<1>1. s \in Longer(s)
  BY DEF Longer
<1>2. ASSUME NEW g \in Longer(s) PROVE IsLong(g, s) /\ g \in Line
  <2>1. CASE g = s
    BY <1>0, <2>1 DEF IsLong
  <2>2. CASE g # s
    <3> DEFINE more == <<"0", "0">>
    <3>1. g = s \o more
      BY <1>2, <2>2 DEF Longer
    <3>2. \E i \in 1..Len(s) : s[i] = "."
      BY <1>2, <2>2 DEF Longer, Contains
    <3>3. Len(s) = 24
      BY <1>0, <3>2
    <3>4. more \in Line /\ Len(more) = 2 /\ more[1] = "0" /\ more[2] = "0"
      BY DEF Line, Alphabet, Marks, Numerals
    <3> HIDE DEF more
    <3>5. /\ g \in Line /\ Len(g) = Len(s) + Len(more)
          /\ \A i \in 1..Len(s) : g[i] = s[i]
          /\ \A i \in 1..Len(more) : g[Len(s) + i] = more[i]
      <4>1. s \in Line /\ more \in Line
        BY <1>0, <3>4
      <4> QED BY <3>1, <4>1, JoinedLine
    <3>6. Len(g) = 26 /\ 1 \in 1..Len(more) /\ 2 \in 1..Len(more) /\ Len(s) + 1 = 25 /\ Len(s) + 2 = 26
      BY <3>3, <3>4, <3>5
    <3>7. g[Len(s) + 1] = "0" /\ g[Len(s) + 2] = "0"
      BY <3>4, <3>5, <3>6
    <3> QED BY <3>3, <3>5, <3>6, <3>7 DEF IsLong, Numerals
  <2> QED BY <2>1, <2>2
<1>3. ASSUME NEW g \in Longer(s), NEW f \in Frames(g) PROVE D!ServerText(f) = s
  <2>1. f \in {g, <<Space>> \o g, (<<Open, "t", "s", Space>> \o Quoted(g)) \o <<Close>>}
    BY <1>3, Zenon DEF Frames, Open, Space, Close
  <2>2. IsLong(g, s) /\ g \in Line
    BY <1>2
  <2>3. CASE f = g \/ f = <<Space>> \o g
    BY <2>2, <2>3, ServerPlain
  <2>4. CASE f = (<<Open, "t", "s", Space>> \o Quoted(g)) \o <<Close>>
    <3>1. IsFrame(f, g)
      BY <2>2, <2>4, FrameIs
    <3> QED BY <2>2, <3>1, EscapeReads
  <2> QED BY <2>1, <2>3, <2>4
<1>4. s \in Frames(s)
  BY Zenon DEF Frames
<1> QED BY <1>1, <1>3, <1>4, Zenon

LEMMA ArrayReads ==
  ASSUME NEW s, IsText(s)
  PROVE  D!FirstElement(<<"{">> \o Quoted(s) \o <<",">> \o Quoted(s) \o <<"}">>) = s
<1> DEFINE q == Quoted(s)
           a == <<Open>> \o q
           c == <<Comma>>
           e == <<Close>>
           b == c \o q
<1>0. D!FirstElement(<<"{">> \o Quoted(s) \o <<",">> \o Quoted(s) \o <<"}">>)
        = D!FirstElement(((a \o c) \o q) \o e)
  BY DEF Open, Comma, Close
<1>1. q \in Line
  BY QuotedIs DEF IsText
<1>2. c \in Line /\ e \in Line
  BY DEF Line, Alphabet
<1>3. a \in Line
  <2> DEFINE h == <<Open>>
  <2>1. h \in Line
    BY DEF Line, Alphabet
  <2> HIDE DEF h, q
  <2>2. h \o q \in Line
    BY <1>1, <2>1, JoinedLine
  <2> QED BY <2>2 DEF h
<1>4. D!FirstElement(a \o (b \o e)) = s
  <2>1. b \in Line
    <3> HIDE DEF c, q
    <3> QED BY <1>1, <1>2, JoinedLine
  <2>2. b \o e \in Line
    <3> HIDE DEF b, e
    <3> QED BY <1>2, <2>1, JoinedLine
  <2> DEFINE rest == b \o e
  <2> HIDE DEF rest
  <2>3. rest \in Line
    BY <2>2 DEF rest
  <2>4. D!FirstElement(a \o rest) = s
    BY <2>3, ElementReads
  <2> QED BY <2>4 DEF rest
<1> HIDE DEF q, a, c, e
<1>5. (a \o c) \o q = a \o b
  BY <1>1, <1>2, <1>3, ConcatAssociative DEF Line
<1>6. b \in Line
  BY <1>1, <1>2, JoinedLine
<1> HIDE DEF b
<1>7. (a \o b) \o e = a \o (b \o e)
  BY <1>2, <1>3, <1>6, ConcatAssociative DEF Line
<1> QED BY <1>0, <1>4, <1>5, <1>7

-----------------------------------------------------------------------------
(* The invariants of dates *)

\* A point in time, with what the conversions made of it once they are done.
StampInv ==
  /\ "kind" \in DOMAIN item
  /\ item.kind = "stamp" =>
       \E i \in StampCases : item \in {i, With(i, "result", Stamped(i.value))}

LEMMA StampCasesAre ==
  ASSUME NEW i \in StampCases
  PROVE  DOMAIN i = {"kind", "value"} /\ IsStamp(i.value)
<1>1. DOMAIN i = {"kind", "value"} /\ i.value \in Stamps
  BY DEF StampCases
<1> QED BY <1>1, StampsAre

LEMMA StampInit == Init => StampInv
BY KindInit DEF StampInv

LEMMA StampNext == StampInv /\ [Next]_item => StampInv'
<1> SUFFICES ASSUME StampInv, Next PROVE StampInv'
  BY DEF StampInv
<1>0. "kind" \in DOMAIN item' /\ item'.kind = item.kind /\ (item.kind = "stamp" => ConvertStamp)
  BY KindKept DEF StampInv, KindOf
<1>1. CASE item.kind = "stamp"
  <2>1. PICK i \in StampCases : item \in {i, With(i, "result", Stamped(i.value))}
    BY <1>1 DEF StampInv
  <2>2. item = i
    <3>1. "result" \in DOMAIN With(i, "result", Stamped(i.value))
      BY DEF With
    <3> QED BY <1>0, <1>1, <2>1, <3>1 DEF ConvertStamp, Pending
  <2>3. item' = With(i, "result", Stamped(i.value))
    BY <1>0, <1>1, <2>2 DEF ConvertStamp, Result
  <2> QED BY <1>0, <1>1, <2>3 DEF StampInv
<1>2. CASE item.kind # "stamp"
  BY <1>0, <1>2 DEF StampInv
<1> QED BY <1>1, <1>2

LEMMA StampedIs ==
  ASSUME NEW v, IsStamp(v)
  PROVE  /\ Stamped(v).struct = D!TimestampToTagTimestamp(v)
         /\ Stamped(v).sent = {Stamped(v).text} /\ Stamped(v).array = Stamped(v).text
         /\ Stamped(v).text = D!DateToString(v[1], 40).text \o <<" ">> \o D!TimeToString(v[2], 40).text
<1> DEFINE text == D!TimestampToString(v, 40).text
<1>1. /\ Stamped(v).struct = D!TimestampToTagTimestamp(v) /\ Stamped(v).text = text
      /\ Stamped(v).sent = {D!ServerText(f) : f \in UNION {Frames(s) : s \in Longer(text)}}
      /\ Stamped(v).array = D!FirstElement(<<"{">> \o Quoted(text) \o <<",">> \o Quoted(text) \o <<"}">>)
  BY Zenon DEF Stamped
<1>2. text = D!TimestampText(v)
      /\ D!TimestampText(v) = D!DateToString(v[1], 40).text \o <<" ">> \o D!TimeToString(v[2], 40).text
  BY TextParts
<1>3. IsText(text)
  BY <1>2, TimestampTextIs
<1> HIDE DEF text
<1>4. {D!ServerText(f) : f \in UNION {Frames(s) : s \in Longer(text)}} = {text}
  BY <1>3, SentReads
<1>5. D!FirstElement(<<"{">> \o Quoted(text) \o <<",">> \o Quoted(text) \o <<"}">>) = text
  BY <1>3, ArrayReads
<1> QED BY <1>1, <1>2, <1>4, <1>5, Zenon

LEMMA StampImplies == StampInv => StampReadsBack
<1> SUFFICES ASSUME StampInv, Done("stamp") PROVE StampReadsBack
  BY DEF StampReadsBack
<1>1. item.kind = "stamp" /\ "result" \in DOMAIN item
  BY DEF Done
<1>2. PICK i \in StampCases : item \in {i, With(i, "result", Stamped(i.value))}
  BY <1>1 DEF StampInv
<1>3. DOMAIN i = {"kind", "value"} /\ IsStamp(i.value)
  BY StampCasesAre
<1>4. item = With(i, "result", Stamped(i.value))
  BY <1>1, <1>2, <1>3
<1>5. item.value = i.value /\ item.result = Stamped(i.value)
  <2>1. item["value"] = i["value"] /\ item["result"] = Stamped(i.value)
    BY <1>3, <1>4 DEF With
  <2> QED BY <2>1
<1> DEFINE v == item.value
           s == D!TimestampToTagTimestamp(v)
<1>6. IsStamp(v)
  BY <1>3, <1>5
<1>7. /\ item.result.struct = s /\ item.result.sent = {item.result.text}
      /\ item.result.array = item.result.text
      /\ item.result.text = D!DateToString(v[1], 40).text \o <<" ">> \o D!TimeToString(v[2], 40).text
  BY <1>3, <1>5, StampedIs, Zenon
<1>8. LET tail == v[2] % D!Precision
          dos  == D!TimestampToBinary(v, 8)
      IN  /\ D!TimestampToTimestamp(s) = v
          /\ D!TimestampToBinary(v, 16) = s
          /\ <<D!TimestampToDate(s), D!TimestampToTime(s)>> = v
          /\ D!DateToTimestamp(D!TimestampToTagDate(v)) = <<v[1], 0>>
          /\ D!DateToDate(D!DateToTagDate(v[1])) = v[1]
          /\ D!TimestampToTime(D!TimeToTagTimestamp(v[2])) = v[2]
          /\ D!TimeToTime(D!TimestampToTagTime(v)) = v[2] - tail
          /\ D!TimeToTimestamp(D!TimeToTagTime(v[2]))[2] = v[2] - tail
          /\ dos.date = D!DateToBinary(v[1], 4)
          /\ [time |-> dos.time, hsecond |-> tail \div 100] = D!TimeToBinary(v[2], 4)
  BY <1>6, StructReadsBack, Zenon
<1> QED BY <1>7, <1>8, Zenon DEF StampReadsBack

\* A date is the same by the driver's formulas and by the calendar, whatever day a
\* walk through the calendar begins at and however long it is; every point in time
\* the server knows survives the structures, the forms of DOS, the texts and every
\* frame an application may write round them (OdbcConvert.cpp 1977-2596, 4186-4435).
THEOREM DatesAreKept == Spec => []DatesKept
<1>1. DayInv /\ [Next]_item => DayInv'
  BY DayNext
<1>2. StampInv /\ [Next]_item => StampInv'
  BY StampNext
<1>3. DayInv /\ StampInv => DatesKept
  BY DayImplies, StampImplies DEF DatesKept
<1> QED BY <1>1, <1>2, <1>3, DayInit, StampInit, PTL DEF Spec

-----------------------------------------------------------------------------
(* The attributes of a cursor *)

\* The cursor's attributes, as any sequence of settings leaves them.
CursorKept(c, direct) ==
  /\ c \in [type : A!CursorTypes, scrollable : BOOLEAN, sensitivity : A!Sensitivities,
            concurrency : A!Concurrencies]
  /\ c.sensitivity = "INSENSITIVE" => c.concurrency = "READ_ONLY"
  /\ c.sensitivity = "SENSITIVE"   => c.concurrency # "READ_ONLY"
  /\ direct \/ c.scrollable = (c.type # "FORWARD_ONLY")

\* Every setting keeps them, also what SQLSetScrollOptions does in two steps.
LEMMA SettingsKeep ==
  ASSUME NEW c, NEW direct \in BOOLEAN, CursorKept(c, direct)
  PROVE  /\ \A v \in A!Concurrencies : CursorKept(A!SetConcurrency(c, v), direct)
         /\ \A v \in A!CursorTypes : CursorKept(A!SetCursorType(c, v), FALSE)
         /\ \A v \in BOOLEAN : CursorKept(A!SetScrollable(c, v), FALSE)
         /\ \A v \in A!Sensitivities : CursorKept(A!SetSensitivity(c, v), TRUE)
<1> USE DEF CursorKept, A!CursorTypes, A!Sensitivities, A!Concurrencies
<1>1. \A v \in A!Concurrencies : CursorKept(A!SetConcurrency(c, v), direct)
  BY DEF A!SetConcurrency
<1>2. \A v \in A!CursorTypes : CursorKept(A!SetCursorType(c, v), FALSE)
  BY DEF A!SetCursorType
<1>3. \A v \in BOOLEAN : CursorKept(A!SetScrollable(c, v), FALSE)
  BY DEF A!SetScrollable
<1>4. \A v \in A!Sensitivities : CursorKept(A!SetSensitivity(c, v), TRUE)
  BY DEF A!SetSensitivity
<1> QED BY <1>1, <1>2, <1>3, <1>4

LEMMA OptionsKeep ==
  ASSUME NEW c, NEW direct \in BOOLEAN, CursorKept(c, direct), NEW v \in A!Concurrencies,
         NEW k \in A!CursorTypes \X {0} \cup {<<"rows", 5>>, <<"rows", 2>>},
         A!SetScrollOptions(c, v, k, 3).ok
  PROVE  CursorKept(A!SetScrollOptions(c, v, k, 3).cursor, FALSE)
<1> DEFINE type == A!ScrollType(k, 3)
<1>1. A!SetScrollOptions(c, v, k, 3).cursor = A!SetConcurrency(A!SetCursorType(c, type), v)
  BY DEF A!SetScrollOptions
<1>2. type \in A!CursorTypes
  BY DEF A!ScrollType, A!CursorTypes
<1> HIDE DEF type
<1>3. CursorKept(A!SetCursorType(c, type), FALSE)
  BY <1>2, SettingsKeep
<1> QED BY <1>1, <1>3, SettingsKeep

\* The case of a cursor.
CursorInv ==
  /\ "kind" \in DOMAIN item
  /\ item.kind = "cursor" =>
       /\ DOMAIN item = {"kind", "cursor", "direct", "left"} /\ item.direct \in BOOLEAN
       /\ CursorKept(item.cursor, item.direct)

LEMMA CursorInit == Init => CursorInv
<1> SUFFICES ASSUME Init PROVE CursorInv
  OBVIOUS
<1>1. CASE item.kind = "cursor"
  <2>1. item = CursorCase
    BY <1>1, KindInit
  <2>2. CursorKept(A!FreshCursor, FALSE)
    BY DEF CursorKept, A!FreshCursor, A!CursorTypes, A!Sensitivities, A!Concurrencies
  <2>3. item["cursor"] = A!FreshCursor /\ item["direct"] = FALSE
        /\ DOMAIN item = {"kind", "cursor", "direct", "left"}
    BY <2>1 DEF CursorCase
  <2> QED BY <2>2, <2>3 DEF CursorInv
<1>2. CASE item.kind # "cursor"
  BY <1>2, KindInit DEF CursorInv
<1> QED BY <1>1, <1>2

LEMMA CursorNext == CursorInv /\ [Next]_item => CursorInv'
<1> SUFFICES ASSUME CursorInv, Next PROVE CursorInv'
  BY DEF CursorInv
<1>0. "kind" \in DOMAIN item' /\ item'.kind = item.kind /\ (item.kind = "cursor" => SetCursor)
  BY KindKept DEF CursorInv, KindOf
<1>1. CASE item.kind = "cursor"
  <2> DEFINE c == item.cursor
             Moved(d) == \E n : Cursor(n, d) /\ CursorKept(n, d)
  <2>0. item.direct \in BOOLEAN /\ CursorKept(c, item.direct)
    BY <1>1 DEF CursorInv
  <2>1. \E d \in BOOLEAN : Moved(d)
    <3>1. CASE \E v \in A!Concurrencies : Cursor(A!SetConcurrency(c, v), item.direct)
      BY <2>0, <3>1, SettingsKeep
    <3>2. CASE \E v \in A!CursorTypes : Cursor(A!SetCursorType(c, v), FALSE)
      BY <2>0, <3>2, SettingsKeep
    <3>3. CASE \E v \in BOOLEAN : Cursor(A!SetScrollable(c, v), FALSE)
      BY <2>0, <3>3, SettingsKeep
    <3>4. CASE \E v \in A!Sensitivities : Cursor(A!SetSensitivity(c, v), TRUE)
      BY <2>0, <3>4, SettingsKeep
    <3>5. CASE \E k \in A!CursorTypes \X {0} \cup {<<"rows", 5>>, <<"rows", 2>>}, v \in A!Concurrencies :
                 LET o == A!SetScrollOptions(c, v, k, 3) IN o.ok /\ Cursor(o.cursor, FALSE)
      BY <2>0, <3>5, OptionsKeep
    <3> QED BY <1>0, <1>1, <3>1, <3>2, <3>3, <3>4, <3>5 DEF SetCursor
  <2>a. PICK d \in BOOLEAN : Moved(d)
    BY <2>1
  <2>2. PICK n : Cursor(n, d) /\ CursorKept(n, d)
    BY <2>a
  <2>3. item' = [item EXCEPT !.cursor = n, !.direct = d, !.left = @ - 1]
    BY <2>2 DEF Cursor
  <2>4. DOMAIN item' = DOMAIN item /\ item'["cursor"] = n /\ item'["direct"] = d
    BY <1>1, <2>3 DEF CursorInv
  <2> QED BY <1>0, <1>1, <2>2, <2>4 DEF CursorInv
<1>2. CASE item.kind # "cursor"
  BY <1>0, <1>2 DEF CursorInv
<1> QED BY <1>1, <1>2

LEMMA CursorImplies ==
  ASSUME CursorInv, item.kind = "cursor"
  PROVE  LET c == item.cursor
         IN  /\ c.sensitivity = "INSENSITIVE" => c.concurrency = "READ_ONLY"
             /\ c.sensitivity = "SENSITIVE"   => c.concurrency # "READ_ONLY"
             /\ item.direct \/ A!IsStaticCursor(c) = (c.type # "FORWARD_ONLY")
BY DEF CursorInv, CursorKept, A!IsStaticCursor

-----------------------------------------------------------------------------
(* Descriptors, and what is read of them *)

AllFields    == A!HeadFields \cup A!RecordFields
Heads        == A!HeadFields \ {"COUNT"}
HeadValues   == [Heads -> Int]
RecordValues == [A!Records -> [A!RecordFields -> Int]]
RecordSets   == SUBSET Int
Descriptor ==
  [defined : BOOLEAN, count : Nat, head : HeadValues, made : RecordSets, told : RecordSets, rec : RecordValues]
Statement ==
  [desc : [A!All -> Descriptor], ard : {"ARD", "X"}, apd : {"APD", "X"}, own : [A!Own -> Int]]

\* No field is of the head and of the records.
LEMMA FieldsApart == A!HeadFields \cap A!RecordFields = {} /\ "COUNT" \notin A!RecordFields
BY DEF A!HeadFields, A!RecordFields, A!Described, A!Buffer, A!OfColumns, A!OfBoth

\* What an application reads of a field, and when.
Reading(s, d, r, f) ==
  IF f = "COUNT" THEN s.desc[d].count
  ELSE IF f \in A!HeadFields THEN s.desc[d].head[f] ELSE s.desc[d].rec[r][f]

LEMMA ReadIs ==
  ASSUME NEW s, NEW d, NEW r, NEW f
  PROVE  /\ Visible(s, d, r, f) <=>
              /\ s.desc[d].defined /\ ~(r > s.desc[d].count)
              /\ f \in A!HeadFields \/ r # 0 \/ d # "IPD"
              /\ d \in A!Readable(f)
         /\ Visible(s, d, r, f) => A!GetDescField(s, d, r, f) = A!Answer("", Reading(s, d, r, f))
<1>1. A!GetDescField(s, d, r, f) =
        IF ~s.desc[d].defined THEN A!Wrong
        ELSE IF r > s.desc[d].count THEN A!Beyond
        ELSE IF (f \notin A!HeadFields /\ r = 0 /\ d = "IPD") \/ d \notin A!Readable(f) THEN A!Wrong
        ELSE A!Answer("", Reading(s, d, r, f))
  BY Zenon DEF A!GetDescField, Reading
<1>2. A!Wrong.state # "" /\ A!Beyond.state # "" /\ A!Answer("", Reading(s, d, r, f)).state = ""
  BY DEF A!Wrong, A!Beyond, A!Answer
<1> QED BY <1>1, <1>2 DEF Visible

\* What a call has to leave of a descriptor for a field of it to read the same.
Left(G, E, r, f) ==
  /\ E.defined = G.defined /\ (r > G.count \/ ~(r > E.count))
  /\ f = "COUNT" => E.count = G.count
  /\ f \in Heads => E.head[f] = G.head[f]
  /\ f \notin A!HeadFields => E.rec[r][f] = G.rec[r][f]

LEMMA LeftReads ==
  ASSUME NEW s, NEW t, NEW d, NEW r, NEW f, Left(s.desc[d], t.desc[d], r, f), Visible(s, d, r, f)
  PROVE  Visible(t, d, r, f) /\ A!GetDescField(t, d, r, f) = A!GetDescField(s, d, r, f)
<1>1. Visible(t, d, r, f)
  BY ReadIs DEF Left
<1>2. Reading(t, d, r, f) = Reading(s, d, r, f)
  BY DEF Left, Heads, Reading, A!HeadFields
<1>3. A!GetDescField(s, d, r, f) = A!Answer("", Reading(s, d, r, f))
  BY ReadIs
<1>4. A!GetDescField(t, d, r, f) = A!Answer("", Reading(t, d, r, f))
  BY <1>1, ReadIs
<1> QED BY <1>1, <1>2, <1>3, <1>4

LEMMA DescsAre ==
  ASSUME NEW s \in Statement, NEW d \in A!All
  PROVE  s.desc[d] \in Descriptor
<1> DEFINE X == Descriptor
<1>1. s \in [desc : [A!All -> X], ard : {"ARD", "X"}, apd : {"APD", "X"}, own : [A!Own -> Int]]
  BY DEF Statement
<1> HIDE DEF X
<1>2. s.desc[d] \in X
  BY <1>1
<1> QED BY <1>2 DEF X

\* One descriptor of a statement is another.
WithDesc(s, d, G) == [s EXCEPT !.desc[d] = G]

LEMMA PutDesc ==
  ASSUME NEW s \in Statement, NEW d \in A!All, NEW G \in Descriptor
  PROVE  LET t == WithDesc(s, d, G)
         IN  /\ t \in Statement /\ t.ard = s.ard /\ t.apd = s.apd /\ t.own = s.own
             /\ t.desc[d] = G /\ \A e \in A!All \ {d} : t.desc[e] = s.desc[e]
<1> DEFINE X == Descriptor
<1>1. G \in X /\ s \in [desc : [A!All -> X], ard : {"ARD", "X"}, apd : {"APD", "X"}, own : [A!Own -> Int]]
  BY DEF Statement
<1>2. Statement = [desc : [A!All -> X], ard : {"ARD", "X"}, apd : {"APD", "X"}, own : [A!Own -> Int]]
  BY DEF Statement
<1> HIDE DEF X
<1> QED BY <1>1, <1>2 DEF WithDesc

\* A record is made: only the count may grow.
LEMMA MadeIs ==
  ASSUME NEW s \in Statement, NEW d \in A!All, NEW n \in Nat
  PROVE  LET t == A!Made(s, d, n)
         IN  /\ t \in Statement /\ t.ard = s.ard /\ t.apd = s.apd /\ t.own = s.own
             /\ \A e \in A!All \ {d} : t.desc[e] = s.desc[e]
             /\ t.desc[d].defined = s.desc[d].defined /\ t.desc[d].head = s.desc[d].head
             /\ t.desc[d].rec = s.desc[d].rec
             /\ t.desc[d].count \in {s.desc[d].count, n} /\ t.desc[d].count >= s.desc[d].count
<1> DEFINE G == s.desc[d]
           c == IF n > G.count THEN n ELSE G.count
           m == G.made \cup {n}
           E == [G EXCEPT !.count = c, !.made = m]
<1>1. G \in Descriptor
  BY DescsAre
<1>2. c \in Nat /\ c \in {G.count, n} /\ c >= G.count /\ m \in RecordSets
  <2>1. G.count \in Nat /\ G.made \in RecordSets
    BY <1>1 DEF Descriptor
  <2> QED BY <2>1 DEF RecordSets
<1>3. A!Made(s, d, n) = WithDesc(s, d, E)
  <2> DEFINE X == Descriptor
  <2>1. s \in [desc : [A!All -> X], ard : {"ARD", "X"}, apd : {"APD", "X"}, own : [A!Own -> Int]]
    BY DEF Statement
  <2> HIDE DEF X
  <2> QED BY <1>1, <2>1 DEF A!Made, WithDesc, Descriptor
<1> HIDE DEF c, m
<1>4. E \in Descriptor /\ E.defined = G.defined /\ E.head = G.head /\ E.rec = G.rec /\ E.count = c
  BY <1>1, <1>2 DEF Descriptor
<1> HIDE DEF E
<1> QED BY <1>2, <1>3, <1>4, PutDesc

\* The records are told what the metadata says.
LEMMA TellKeeps ==
  ASSUME NEW G \in Descriptor, NEW R \in RecordSets
  PROVE  A!Tell(G, R) \in Descriptor
<1> DEFINE q == [r \in A!Records |-> IF r \in R THEN [f \in A!RecordFields |-> A!Column] ELSE G.rec[r]]
           m == G.told \cup R
<1>1. G.rec \in RecordValues /\ G.told \in RecordSets
  BY DEF Descriptor
<1>2. q \in RecordValues
  BY <1>1 DEF RecordValues, A!Column
<1>3. m \in RecordSets
  BY <1>1 DEF RecordSets
<1>4. A!Tell(G, R) = [G EXCEPT !.rec = q, !.told = m]
  BY Zenon DEF A!Tell
<1> HIDE DEF q, m
<1> QED BY <1>2, <1>3, <1>4 DEF Descriptor

\* A text is prepared.
LEMMA PrepareKeeps ==
  ASSUME NEW s \in Statement, NEW n \in Nat
  PROVE  A!Prepare(s, n, 1) \in Statement
<1> DEFINE t == A!Made(s, "IPD", 1)
           G == [t.desc["IPD"] EXCEPT !.count = 1]
           P == A!Tell(G, t.desc["IPD"].made \cap (1 .. 1))
           b == s.desc["IRD"].head["BIND_TYPE"]
           h == [A!FreshHead EXCEPT !["BIND_TYPE"] = b]
           R == [A!FreshDesc("IRD") EXCEPT !.defined = n > 0, !.count = n, !.made = {n}, !.head["BIND_TYPE"] = b]
<1>0. "IPD" \in A!All /\ "IRD" \in A!All
  BY DEF A!All, A!Imp
<1>1. t \in Statement
  BY <1>0, MadeIs
<1>2. t.desc["IPD"] \in Descriptor /\ s.desc["IRD"] \in Descriptor
  BY <1>0, <1>1, DescsAre
<1>3. P \in Descriptor
  <2>1. G \in Descriptor
    BY <1>2 DEF Descriptor
  <2>2. t.desc["IPD"].made \cap (1 .. 1) \in RecordSets
    BY DEF RecordSets
  <2> HIDE DEF G
  <2> QED BY <2>1, <2>2, TellKeeps
<1>4. R \in Descriptor
  <2>1. b \in Int
    <3>1. s.desc["IRD"].head \in HeadValues
      BY <1>2 DEF Descriptor
    <3> QED BY <3>1 DEF HeadValues, Heads, A!HeadFields
  <2> HIDE DEF b
  <2>2. h \in HeadValues
    <3>1. A!FreshHead \in HeadValues
      BY DEF HeadValues, Heads, A!FreshHead
    <3> QED BY <2>1, <3>1 DEF HeadValues
  <2>3. [r \in A!Records |-> A!FreshRecord] \in RecordValues
    BY DEF RecordValues, A!FreshRecord, A!Default
  <2>4. {n} \in RecordSets /\ {} \in RecordSets
    BY DEF RecordSets
  <2> DEFINE q == [r \in A!Records |-> A!FreshRecord]
  <2>5. R = [defined |-> n > 0, count |-> n, head |-> h, made |-> {n}, told |-> {}, rec |-> q]
    <3> DEFINE g == A!FreshHead
    <3>1. A!FreshDesc("IRD") = [defined |-> FALSE, count |-> 0, head |-> g, made |-> {}, told |-> {}, rec |-> q]
      BY DEF A!FreshDesc
    <3> DEFINE p == n > 0
               F == A!FreshDesc("IRD")
    <3>2. R = [F EXCEPT !.defined = p, !.count = n, !.made = {n}, !.head["BIND_TYPE"] = b]
      BY Zenon
    <3>3. h = [g EXCEPT !["BIND_TYPE"] = b]
      BY Zenon
    <3> HIDE DEF q, b, g, p, F, h, R
    <3>4. F = [defined |-> FALSE, count |-> 0, head |-> g, made |-> {}, told |-> {}, rec |-> q]
      BY <3>1, Zenon DEF F
    <3>5. R = [F EXCEPT !.defined = p, !.count = n, !.made = {n}, !.head = h]
      <4>1. F.head = g
        BY <3>4
      <4> QED BY <3>2, <3>3, <4>1
    <3>6. R = [defined |-> p, count |-> n, head |-> h, made |-> {n}, told |-> {}, rec |-> q]
      BY <3>4, <3>5
    <3> QED BY <3>6 DEF p
  <2> HIDE DEF h, q, R
  <2> QED BY <2>2, <2>3, <2>4, <2>5 DEF Descriptor, q
<1>5. A!Prepare(s, n, 1) = WithDesc(WithDesc(t, "IPD", P), "IRD", R)
  <2>1. A!Prepare(s, n, 1) = [t EXCEPT !.desc["IPD"] = P, !.desc["IRD"] = R]
    BY Zenon DEF A!Prepare
  <2> HIDE DEF t, P, R
  <2> QED BY <2>1 DEF WithDesc
<1> HIDE DEF t, P, R
<1> QED BY <1>0, <1>1, <1>3, <1>4, <1>5, PutDesc

\* It is executed.
LEMMA ExecuteKeeps ==
  ASSUME NEW s \in Statement
  PROVE  A!Execute(s) \in Statement
<1> DEFINE G == s.desc["IRD"]
           M == (G.made \ G.told) \cap (1 .. G.count)
           E == A!Tell(G, M)
           F == [E EXCEPT !.defined = TRUE]
<1>0. "IRD" \in A!All /\ G \in Descriptor
  BY DescsAre DEF A!All, A!Imp
<1>1. M \in RecordSets
  <2>1. G.count \in Nat
    BY <1>0 DEF Descriptor
  <2> QED BY <2>1 DEF RecordSets
<1>2. E \in Descriptor
  BY <1>0, <1>1, TellKeeps
<1>3. F \in Descriptor
  <2> HIDE DEF E
  <2> QED BY <1>2 DEF Descriptor
<1>4. A!Execute(s) = WithDesc(s, "IRD", F)
  <2>1. A!Execute(s) = [s EXCEPT !.desc["IRD"] = A!Tell(@, (@.made \ @.told) \cap (1 .. @.count)),
                                 !.desc["IRD"].defined = TRUE]
    BY Zenon DEF A!Execute
  <2>2. [s EXCEPT !.desc["IRD"] = E, !.desc["IRD"].defined = TRUE] = WithDesc(s, "IRD", F)
    <3> HIDE DEF E
    <3> DEFINE X == Descriptor
    <3>1. s \in [desc : [A!All -> X], ard : {"ARD", "X"}, apd : {"APD", "X"}, own : [A!Own -> Int]]
      BY DEF Statement
    <3> HIDE DEF X
    <3> QED BY <1>0, <3>1 DEF WithDesc
  <2> QED BY <2>1, <2>2
<1> HIDE DEF F
<1> QED BY <1>0, <1>3, <1>4, PutDesc

-----------------------------------------------------------------------------
(* SQLSetDescField *)

\* A field is written together with those that go with it.
GoesWith(f, g) ==
  \/ g = f
  \/ f \in {"TYPE", "CONCISE_TYPE"} /\ g \in {"TYPE", "CONCISE_TYPE"}
  \/ f = "OCTET_LENGTH" /\ g = "LENGTH"
RecordValue == [A!RecordFields -> Int]

LEMMA WithFieldIs ==
  ASSUME NEW x \in RecordValue, NEW f \in A!RecordFields, NEW v \in Int
  PROVE  LET y == A!WithField(x, f, v)
         IN  /\ y \in RecordValue /\ y[f] = v
             /\ \A g \in A!RecordFields : ~GoesWith(f, g) => y[g] = x[g]
<1>0. {"TYPE", "CONCISE_TYPE", "OCTET_LENGTH", "LENGTH"} \subseteq A!RecordFields
  BY DEF A!RecordFields, A!Described
<1> DEFINE RF == A!RecordFields
<1>00. x \in [RF -> Int] /\ f \in RF /\ RecordValue = [RF -> Int]
       /\ {"TYPE", "CONCISE_TYPE", "OCTET_LENGTH", "LENGTH"} \subseteq RF
  BY <1>0 DEF RecordValue
<1>1. CASE f \in {"TYPE", "CONCISE_TYPE"}
  <2>1. A!WithField(x, f, v) = [x EXCEPT !["TYPE"] = v, !["CONCISE_TYPE"] = v]
    BY <1>1 DEF A!WithField, A!Both
  <2> HIDE DEF RF
  <2> QED BY <1>00, <1>1, <2>1 DEF GoesWith, RF
<1>2. CASE f = "OCTET_LENGTH"
  <2> DEFINE w == IF x["LENGTH"] = 0 THEN v ELSE x["LENGTH"]
  <2>1. A!WithField(x, f, v) = [x EXCEPT ![f] = v, !["LENGTH"] = w]
    BY <1>2, <1>0 DEF A!WithField, RecordValue
  <2>2. w \in Int
    BY <1>00
  <2> HIDE DEF RF, w
  <2>3. LET y == [x EXCEPT ![f] = v, !["LENGTH"] = w]
        IN  y \in [RF -> Int] /\ y[f] = v /\ \A g \in RF : g # f /\ g # "LENGTH" => y[g] = x[g]
    BY <1>00, <1>2, <2>2
  <2> QED BY <1>00, <1>2, <2>1, <2>3 DEF GoesWith, RF
<1>3. CASE f \notin {"TYPE", "CONCISE_TYPE", "OCTET_LENGTH"}
  <2>1. A!WithField(x, f, v) = [x EXCEPT ![f] = v]
    BY <1>3 DEF A!WithField
  <2> HIDE DEF RF
  <2>2. LET y == [x EXCEPT ![f] = v]
        IN  y \in [RF -> Int] /\ y[f] = v /\ \A g \in RF : g # f => y[g] = x[g]
    BY <1>00
  <2> QED BY <1>00, <1>3, <2>1, <2>2 DEF GoesWith, RF
<1> QED BY <1>1, <1>2, <1>3

\* One descriptor of a statement is written: what follows of the others.
Alone(s, t, d) ==
  /\ t \in Statement /\ t.ard = s.ard /\ t.apd = s.apd /\ t.own = s.own
  /\ t.desc[d].defined = s.desc[d].defined
  /\ \A e \in A!All \ {d} : t.desc[e] = s.desc[e]

\* SQLSetDescField.
FieldTouches(d, r, f, e, q, g) ==
  e = d /\ (GoesWith(f, g) \/ g = "COUNT") /\ (g \in A!HeadFields \/ q = r)

LEMMA SetIs ==
  ASSUME NEW state, NEW s
  PROVE  A!Set(state, s).state = state /\ A!Set(state, s).s = s
BY DEF A!Set

Outcome(s, d, r, f, o) ==
  /\ Alone(s, o.s, d)
  /\ o.state = "" <=> d \in A!Settable(f)
  /\ \A e \in A!All, q \in A!Records, g \in AllFields :
       (g # "COUNT" \/ o.state = "") /\ ~(o.state = "" /\ FieldTouches(d, r, f, e, q, g))
         => Left(s.desc[e], o.s.desc[e], q, g)
  /\ o.state = "" /\ (r > 0 \/ f \in A!HeadFields) /\ ~(f = "DATA_PTR" /\ d = "IPD")
       => Reading(o.s, d, r, f) = A!New

LEMMA SetFieldIs ==
  ASSUME NEW s \in Statement, NEW d \in A!All, NEW r \in A!Records, NEW f \in AllFields
  PROVE  Outcome(s, d, r, f, A!SetDescField(s, d, r, f, A!New))
<1> DEFINE m == IF r = 0 THEN s ELSE A!Made(s, d, r)
           G == s.desc[d]
           M == m.desc[d]
           o == A!SetDescField(s, d, r, f, A!New)
           Written == /\ Alone(s, o.s, d) /\ o.state = ""
                      /\ \A e \in A!All, q \in A!Records, g \in AllFields :
                           ~FieldTouches(d, r, f, e, q, g) => Left(s.desc[e], o.s.desc[e], q, g)
                      /\ (r > 0 \/ f \in A!HeadFields) /\ ~(f = "DATA_PTR" /\ d = "IPD")
                           => Reading(o.s, d, r, f) = A!New
<1>0. SUFFICES Outcome(s, d, r, f, o)
  OBVIOUS
<1>1. /\ Alone(s, m, d) /\ M.head = G.head /\ M.rec = G.rec /\ M.defined = G.defined
      /\ M.count \in Nat /\ G.count \in Nat /\ M.count >= G.count
      /\ G \in Descriptor /\ M \in Descriptor
  <2>0. r \in Nat
    BY DEF A!Records
  <2>1. m \in Statement /\ G \in Descriptor /\ M \in Descriptor
    BY <2>0, MadeIs, DescsAre
  <2>2. G.count \in Nat /\ M.count \in Nat
    BY <2>1 DEF Descriptor
  <2> QED BY <2>0, <2>1, <2>2, MadeIs DEF Alone
<1>2. M.head \in HeadValues /\ M.rec \in RecordValues /\ m \in Statement
  BY <1>1 DEF Descriptor, Alone
<1> HIDE DEF m, o
<1>a. CASE d \notin A!Settable(f)
  <2>1. o.state = "HY091" /\ o.s = m
    BY <1>a, SetIs DEF A!SetDescField, m, o
  <2>2. \A q \in A!Records, g \in AllFields : g # "COUNT" => Left(G, M, q, g)
    BY <1>1 DEF Left, A!Records
  <2>3. \A e \in A!All \ {d} : m.desc[e] = s.desc[e]
    BY <1>1 DEF Alone
  <2>4. \A e \in A!All \ {d}, q \in A!Records, g \in AllFields : Left(s.desc[e], m.desc[e], q, g)
    BY <2>3 DEF Left
  <2> QED BY <1>1, <1>a, <2>1, <2>2, <2>4 DEF Outcome
\* Otherwise the descriptor is written.
<1>b. ASSUME NEW E \in Descriptor, d \in A!Settable(f), E.defined = G.defined,
             o.state = "", o.s = WithDesc(m, d, E),
             \A q \in A!Records : q > G.count \/ ~(q > E.count),
             \A g \in Heads : g # f => E.head[g] = G.head[g],
             \A q \in A!Records, g \in A!RecordFields : (q = r /\ GoesWith(f, g)) \/ E.rec[q][g] = G.rec[q][g],
             (r > 0 \/ f \in A!HeadFields) /\ ~(f = "DATA_PTR" /\ d = "IPD") =>
               A!New = IF f = "COUNT" THEN E.count ELSE IF f \in A!HeadFields THEN E.head[f] ELSE E.rec[r][f]
      PROVE  Written
  <2> DEFINE t == o.s
  <2>1. Alone(s, t, d) /\ t.desc[d] = E
    <3>1. /\ t \in Statement /\ t.ard = m.ard /\ t.apd = m.apd /\ t.own = m.own
          /\ t.desc[d] = E /\ \A e \in A!All \ {d} : t.desc[e] = m.desc[e]
      <4>1. LET u == WithDesc(m, d, E)
            IN  /\ u \in Statement /\ u.ard = m.ard /\ u.apd = m.apd /\ u.own = m.own
                /\ u.desc[d] = E /\ \A e \in A!All \ {d} : u.desc[e] = m.desc[e]
        BY <1>2, PutDesc
      <4>2. t = WithDesc(m, d, E)
        BY <1>b
      <4> QED BY <4>1, <4>2
    <3> HIDE DEF t
    <3> QED BY <1>1, <1>b, <3>1 DEF Alone
  <2>2. ASSUME NEW e \in A!All \ {d}, NEW q \in A!Records, NEW g \in AllFields
        PROVE  Left(s.desc[e], t.desc[e], q, g)
    BY <2>1 DEF Alone, Left
  <2>3. ASSUME NEW q \in A!Records, NEW g \in AllFields, ~FieldTouches(d, r, f, d, q, g)
        PROVE  Left(G, E, q, g)
    <3>1. g # "COUNT"
      BY <2>3 DEF FieldTouches, A!HeadFields
    <3>2. g \in A!HeadFields => g # f
      <4> SUFFICES ASSUME g \in A!HeadFields, g = f PROVE FALSE
        OBVIOUS
      <4> QED BY <2>3 DEF FieldTouches, GoesWith
    <3>3. g \notin A!HeadFields => g \in A!RecordFields /\ ~(q = r /\ GoesWith(f, g))
      BY <2>3 DEF FieldTouches, AllFields
    <3> QED BY <1>b, <3>1, <3>2, <3>3 DEF Left, Heads
  <2>4. (r > 0 \/ f \in A!HeadFields) /\ ~(f = "DATA_PTR" /\ d = "IPD") => Reading(t, d, r, f) = A!New
    BY <1>b, <2>1 DEF Reading
  <2>5. \A q \in A!Records, g \in AllFields :
          ~FieldTouches(d, r, f, d, q, g) => Left(s.desc[d], t.desc[d], q, g)
    BY <2>1, <2>3
  <2>6. \A e \in A!All, q \in A!Records, g \in AllFields :
          ~FieldTouches(d, r, f, e, q, g) => Left(s.desc[e], t.desc[e], q, g)
    BY <2>2, <2>5
  <2>7. Alone(s, o.s, d) /\ o.state = ""
    BY <1>b, <2>1
  <2> QED BY <2>4, <2>6, <2>7
<1>c. ASSUME d \in A!Settable(f) /\ f = "COUNT" PROVE Written
  <2> DEFINE E == [M EXCEPT !.count = A!New]
  <2>1. o.state = "" /\ o.s = WithDesc(m, d, E)
    <3>1. o = A!Set("", [m EXCEPT !.desc[d].count = A!New])
      BY <1>c DEF A!SetDescField, m, o
    <3>2. [m EXCEPT !.desc[d].count = A!New] = WithDesc(m, d, E)
      BY Zenon DEF WithDesc
    <3> QED BY <3>1, <3>2, SetIs
  <2>2. E \in Descriptor /\ E.defined = G.defined /\ E.count = A!New /\ E.head = G.head /\ E.rec = G.rec
    BY <1>1 DEF Descriptor, A!New
  <2> HIDE DEF E
  <2>3. \A q \in A!Records : q > G.count \/ ~(q > E.count)
    BY <2>2 DEF A!Records, A!New
  <2> QED BY <1>b, <1>c, <2>1, <2>2, <2>3
<1>d. ASSUME d \in A!Settable(f) /\ f \in Heads PROVE Written
  <2> DEFINE h == [M.head EXCEPT ![f] = A!New]
             E == [M EXCEPT !.head = h]
  <2>1. o.state = "" /\ o.s = WithDesc(m, d, E)
    <3>1. o = A!Set("", [m EXCEPT !.desc[d].head[f] = A!New])
      BY <1>d DEF A!SetDescField, m, o, Heads
    <3>2. [m EXCEPT !.desc[d].head[f] = A!New] = WithDesc(m, d, E)
      BY Zenon DEF WithDesc
    <3> QED BY <3>1, <3>2, SetIs
  <2>2. h \in HeadValues /\ h[f] = A!New /\ \A g \in Heads : g # f => h[g] = G.head[g]
    BY <1>1, <1>2, <1>d DEF HeadValues, A!New
  <2> HIDE DEF h
  <2>3. E \in Descriptor /\ E.defined = G.defined /\ E.count = M.count /\ E.head = h /\ E.rec = G.rec
    BY <1>1, <2>2 DEF Descriptor
  <2> HIDE DEF E
  <2>4. \A q \in A!Records : q > G.count \/ ~(q > E.count)
    BY <1>1, <2>3 DEF A!Records
  <2>5. f # "COUNT" /\ f \in A!HeadFields
    BY <1>d DEF Heads
  <2> QED BY <1>b, <1>d, <2>1, <2>2, <2>3, <2>4, <2>5
<1>e. ASSUME d \in A!Settable(f) /\ f \notin A!HeadFields /\ (r = 0 \/ (f = "DATA_PTR" /\ d = "IPD")) PROVE Written
  <2>1. o.state = "" /\ o.s = m
    BY <1>e DEF A!SetDescField, A!Set, m, o, A!HeadFields
  <2>2. m = WithDesc(m, d, M)
    <3> DEFINE X == Descriptor
    <3>1. m \in [desc : [A!All -> X], ard : {"ARD", "X"}, apd : {"APD", "X"}, own : [A!Own -> Int]]
      BY <1>2 DEF Statement
    <3> HIDE DEF X
    <3> QED BY <3>1 DEF WithDesc
  <2>3. \A q \in A!Records : q > G.count \/ ~(q > M.count)
    BY <1>1 DEF A!Records
  <2>4. ~(r > 0 \/ f \in A!HeadFields) \/ (f = "DATA_PTR" /\ d = "IPD")
    BY <1>e
  <2> QED BY <1>1, <1>b, <1>e, <2>1, <2>2, <2>3, <2>4
<1>f. ASSUME d \in A!Settable(f) /\ f \notin A!HeadFields /\ ~(r = 0 \/ (f = "DATA_PTR" /\ d = "IPD")) PROVE Written
  <2> DEFINE x == M.rec[r]
             y == A!WithField(x, f, A!New)
             q0 == [M.rec EXCEPT ![r] = y]
             E == [M EXCEPT !.rec = q0]
  <2>0. f \in A!RecordFields /\ x \in RecordValue
    BY <1>2, <1>f DEF AllFields, RecordValues, RecordValue
  <2>1. o.state = "" /\ o.s = WithDesc(m, d, E)
    <3>1. o = A!Set("", [m EXCEPT !.desc[d].rec[r] = A!WithField(@, f, A!New)])
      BY <1>f DEF A!SetDescField, m, o, A!HeadFields
    <3>2. [m EXCEPT !.desc[d].rec[r] = A!WithField(@, f, A!New)] = WithDesc(m, d, E)
      BY Zenon DEF WithDesc
    <3> QED BY <3>1, <3>2, SetIs
  <2>2. y \in RecordValue /\ y[f] = A!New /\ \A g \in A!RecordFields : ~GoesWith(f, g) => y[g] = x[g]
    BY <2>0, WithFieldIs DEF A!New
  <2> HIDE DEF y
  <2>3. q0 \in RecordValues /\ q0[r] = y /\ \A q \in A!Records : q # r => q0[q] = M.rec[q]
    BY <1>2, <2>2 DEF RecordValues, RecordValue
  <2> HIDE DEF q0
  <2>4. E \in Descriptor /\ E.defined = G.defined /\ E.count = M.count /\ E.head = G.head /\ E.rec = q0
    BY <1>1, <2>3 DEF Descriptor
  <2> HIDE DEF E
  <2>5. \A q \in A!Records : q > G.count \/ ~(q > E.count)
    BY <1>1, <2>4 DEF A!Records
  <2>6. \A q \in A!Records, g \in A!RecordFields : (q = r /\ GoesWith(f, g)) \/ E.rec[q][g] = G.rec[q][g]
    BY <1>1, <2>2, <2>3, <2>4
  <2>7. f # "COUNT"
    BY <1>f DEF A!HeadFields
  <2> QED BY <1>b, <1>f, <2>1, <2>2, <2>3, <2>4, <2>5, <2>6, <2>7
<1>3. f \in Heads \/ f = "COUNT" \/ f \notin A!HeadFields
  BY DEF Heads
<1>4. CASE d \in A!Settable(f)
  <2>1. Written
    <3> HIDE DEF Written
    <3> QED BY <1>c, <1>d, <1>e, <1>f, <1>3, <1>4
  <2> QED BY <1>4, <2>1 DEF Outcome
<1> QED BY <1>a, <1>4

-----------------------------------------------------------------------------
(* SQLSetDescRec *)

\* A call that leaves the descriptors leaves what is read of them.
LEMMA SameReads ==
  ASSUME NEW G, NEW q, NEW g
  PROVE  Left(G, G, q, g)
BY DEF Left

LEMMA AnswerIs ==
  ASSUME NEW state, NEW v
  PROVE  A!Answer(state, v).state = state /\ A!Answer(state, v).value = v
BY DEF A!Answer

\* SQLSetDescRec.
RecTouches(d, r, e, q, g) == e = d /\ q = r /\ g \in A!RecFields \cup A!Buffer

LEMMA SetRecIs ==
  ASSUME NEW s \in Statement, NEW d \in A!All, NEW r \in A!Records
  PROVE  LET o == A!SetDescRec(s, d, r, A!New)
         IN  \A e \in A!All, q \in A!Records, g \in AllFields :
               ~(o.state = "" /\ RecTouches(d, r, e, q, g)) => Left(s.desc[e], o.s.desc[e], q, g)
<1> DEFINE o == A!SetDescRec(s, d, r, A!New)
           m == A!Made(s, d, r)
           G == s.desc[d]
           M == m.desc[d]
<1>1. CASE d = "IRD" \/ r > G.count
  <2>1. o.s = s
    BY <1>1, SetIs DEF A!SetDescRec
  <2> HIDE DEF o
  <2> QED BY <2>1, SameReads DEF o
<1>2. CASE d # "IRD" /\ ~(r > G.count)
  <2>0. /\ m \in Statement /\ \A e \in A!All \ {d} : m.desc[e] = s.desc[e]
        /\ M.defined = G.defined /\ M.head = G.head /\ M.rec = G.rec
        /\ M.count \in {G.count, r} /\ M.count >= G.count
    BY MadeIs DEF A!Records
  <2>1. M.count = G.count /\ M \in Descriptor
    <3>1. G.count \in Nat /\ M \in Descriptor
      <4>1. G \in Descriptor /\ M \in Descriptor
        BY <2>0, DescsAre
      <4> QED BY <4>1 DEF Descriptor
    <3> QED BY <1>2, <2>0, <3>1 DEF A!Records
  <2> DEFINE x == M.rec[r]
             y == [f \in A!RecordFields |-> IF f \in A!RecFields \cup A!Buffer THEN A!New ELSE x[f]]
             z == [M.rec EXCEPT ![r] = y]
             E == [M EXCEPT !.rec = z]
  <2>2. o.state = "" /\ o.s = WithDesc(m, d, E)
    <3>1. o = A!Set("", [m EXCEPT !.desc[d].rec[r] =
                           [f \in A!RecordFields |-> IF f \in A!RecFields \cup A!Buffer THEN A!New ELSE @[f]]])
      BY <1>2, Zenon DEF A!SetDescRec
    <3>2. [m EXCEPT !.desc[d].rec[r] =
             [f \in A!RecordFields |-> IF f \in A!RecFields \cup A!Buffer THEN A!New ELSE @[f]]]
          = WithDesc(m, d, E)
      BY Zenon DEF WithDesc
    <3> HIDE DEF o
    <3> QED BY <3>1, <3>2, SetIs
  <2>3. M.rec \in RecordValues
    BY <2>1 DEF Descriptor
  <2>4. y \in RecordValue /\ \A g \in A!RecordFields : g \notin A!RecFields \cup A!Buffer => y[g] = x[g]
    BY <2>3 DEF RecordValues, RecordValue, A!New
  <2> HIDE DEF y
  <2>5. z \in RecordValues /\ z[r] = y /\ \A q \in A!Records : q # r => z[q] = M.rec[q]
    BY <2>3, <2>4 DEF RecordValues, RecordValue
  <2> HIDE DEF z
  <2>6. E \in Descriptor /\ E.defined = G.defined /\ E.count = G.count /\ E.head = G.head /\ E.rec = z
    BY <2>0, <2>1, <2>5 DEF Descriptor
  <2> HIDE DEF E, o
  <2>7. o.s.desc[d] = E /\ \A e \in A!All \ {d} : o.s.desc[e] = s.desc[e]
    <3> HIDE DEF m, M
    <3>1. LET u == WithDesc(m, d, E) IN u.desc[d] = E /\ \A e \in A!All \ {d} : u.desc[e] = m.desc[e]
      BY <2>0, <2>6, PutDesc
    <3> QED BY <2>0, <2>2, <3>1
  <2>8. \A q \in A!Records, g \in AllFields : ~RecTouches(d, r, d, q, g) => Left(G, E, q, g)
    <3> SUFFICES ASSUME NEW q \in A!Records, NEW g \in AllFields, ~RecTouches(d, r, d, q, g)
                 PROVE  Left(G, E, q, g)
      OBVIOUS
    <3>1. g \notin A!HeadFields => E.rec[q][g] = G.rec[q][g]
      BY <2>0, <2>4, <2>5, <2>6 DEF AllFields, RecTouches
    <3> QED BY <2>6, <3>1 DEF Left
  <2>9. \A e \in A!All \ {d}, q \in A!Records, g \in AllFields : Left(s.desc[e], o.s.desc[e], q, g)
    BY <2>7, SameReads
  <2> QED BY <2>2, <2>7, <2>8, <2>9 DEF o
<1> QED BY <1>1, <1>2

-----------------------------------------------------------------------------
(* SQLSetStmtAttr *)

\* What the attributes of a statement are fields of.
LEMMA HeaderIs ==
  ASSUME NEW a \in A!HeaderAttributes
  PROVE  /\ A!HeaderOf[a][1] \in {"apd", "ipd", "ard", "ird"} /\ A!HeaderOf[a][2] \in Heads
         /\ a \notin A!Own /\ a # "ASYNC_ENABLE" /\ a # "QUERY_TIMEOUT"
BY DEF A!HeaderAttributes, A!HeaderOf, Heads, A!HeadFields, A!Own

LEMMA AttachedIs ==
  ASSUME NEW s \in Statement, NEW side \in {"apd", "ipd", "ard", "ird"}
  PROVE  A!Attached(s, side) \in A!All
<1>1. s.ard \in {"ARD", "X"} /\ s.apd \in {"APD", "X"}
  <2> DEFINE X == Descriptor
  <2>1. s \in [desc : [A!All -> X], ard : {"ARD", "X"}, apd : {"APD", "X"}, own : [A!Own -> Int]]
    BY DEF Statement
  <2> HIDE DEF X
  <2> QED BY <2>1
<1> QED BY <1>1 DEF A!Attached, A!All, A!App, A!Imp

\* SQLSetStmtAttr, and what SQLGetStmtAttr says then.
AttributeTouches(s, a, e, g) ==
  a \in A!HeaderAttributes /\ e = A!Attached(s, A!HeaderOf[a][1]) /\ g = A!HeaderOf[a][2]

LEMMA SetAttributeIs ==
  ASSUME NEW s \in Statement, NEW a
  PROVE  LET o == A!SetStmtAttr(s, a, A!New)
         IN  /\ o.s.ard = s.ard /\ o.s.apd = s.apd
             /\ \A e \in A!All, q \in A!Records, g \in AllFields :
                  ~AttributeTouches(s, a, e, g) => Left(s.desc[e], o.s.desc[e], q, g)
             /\ o.state = "" /\ A!GetStmtAttr(o.s, a).state = "" /\ a \notin {"ASYNC_ENABLE", "QUERY_TIMEOUT"}
                  => A!GetStmtAttr(o.s, a).value = A!New
<1> DEFINE o == A!SetStmtAttr(s, a, A!New)
<1>0. s \in [desc : [A!All -> Descriptor], ard : {"ARD", "X"}, apd : {"APD", "X"}, own : [A!Own -> Int]]
  BY DEF Statement
<1>1. CASE a \in A!HeaderAttributes
  <2> DEFINE d == A!Attached(s, A!HeaderOf[a][1])
             k == A!HeaderOf[a][2]
             G == s.desc[d]
             h == [G.head EXCEPT ![k] = A!New]
             E == [G EXCEPT !.head = h]
             t == WithDesc(s, d, E)
  <2>1. d \in A!All /\ k \in Heads
    BY <1>1, HeaderIs, AttachedIs
  <2>2. o.s = t
    <3>1. o = A!Set("", A!SetHeaderAttr(s, a, A!New))
      BY <1>1, HeaderIs DEF A!SetStmtAttr
    <3>2. A!SetHeaderAttr(s, a, A!New) = t
      BY Zenon DEF A!SetHeaderAttr, WithDesc
    <3> HIDE DEF o, t
    <3> QED BY <3>1, <3>2, SetIs
  <2> HIDE DEF d, k, o
  <2>3. G \in Descriptor /\ G.head \in HeadValues
    <3>1. G \in Descriptor
      BY <2>1, DescsAre
    <3> QED BY <3>1 DEF Descriptor
  <2>4. h \in HeadValues /\ h[k] = A!New /\ \A g \in Heads : g # k => h[g] = G.head[g]
    BY <2>1, <2>3 DEF HeadValues, A!New
  <2> HIDE DEF h
  <2>5. E \in Descriptor /\ E.defined = G.defined /\ E.count = G.count /\ E.head = h /\ E.rec = G.rec
    BY <2>3, <2>4 DEF Descriptor
  <2> HIDE DEF E
  <2>6. t.ard = s.ard /\ t.apd = s.apd /\ t.desc[d] = E /\ \A e \in A!All \ {d} : t.desc[e] = s.desc[e]
    BY <2>1, <2>5, PutDesc
  <2> HIDE DEF t
  <2>7. \A q \in A!Records, g \in AllFields : g # k => Left(G, E, q, g)
    BY <2>4, <2>5 DEF Left
  <2>8. \A e \in A!All \ {d}, q \in A!Records, g \in AllFields : Left(s.desc[e], t.desc[e], q, g)
    BY <2>6, SameReads
  <2>9. \A e \in A!All, q \in A!Records, g \in AllFields :
          ~AttributeTouches(s, a, e, g) => Left(s.desc[e], t.desc[e], q, g)
    BY <1>1, <2>6, <2>7, <2>8 DEF AttributeTouches, d, k
  <2>10. A!GetStmtAttr(t, a).state = "" => A!GetStmtAttr(t, a).value = A!New
    <3>1. CASE a \in A!Unread
      <4>1. A!GetStmtAttr(t, a) = A!Answer("HYC00", 0)
        BY <1>1, <3>1, HeaderIs DEF A!GetStmtAttr
      <4> QED BY <4>1 DEF A!Answer
    <3>2. CASE a \notin A!Unread
      <4>1. A!GetStmtAttr(t, a) = A!Answer("", t.desc[A!Attached(t, A!HeaderOf[a][1])].head[k])
        BY <1>1, <3>2, HeaderIs DEF A!GetStmtAttr, k
      <4>2. A!Attached(t, A!HeaderOf[a][1]) = d
        BY <2>6 DEF A!Attached, d
      <4>3. A!GetStmtAttr(t, a) = A!Answer("", A!New)
        BY <2>4, <2>5, <2>6, <4>1, <4>2
      <4> QED BY <4>3, AnswerIs
    <3> QED BY <3>1, <3>2
  <2> QED BY <2>2, <2>6, <2>9, <2>10 DEF o
<1>2. CASE a \in A!Own /\ a \notin A!HeaderAttributes
  <2> DEFINE t == [s EXCEPT !.own[a] = A!New]
  <2>1. o.s = t
    <3>1. o = A!Set("", t)
      BY <1>2 DEF A!SetStmtAttr, A!Own
    <3> HIDE DEF o, t
    <3> QED BY <3>1, SetIs
  <2>2. t.desc = s.desc /\ t.ard = s.ard /\ t.apd = s.apd /\ t.own[a] = A!New
    <3> DEFINE X == Descriptor
    <3>1. s \in [desc : [A!All -> X], ard : {"ARD", "X"}, apd : {"APD", "X"}, own : [A!Own -> Int]]
      BY DEF Statement
    <3> HIDE DEF X
    <3> QED BY <1>2, <3>1
  <2> HIDE DEF t
  <2>3. A!GetStmtAttr(t, a) = A!Answer("", A!New)
    BY <1>2, <2>2 DEF A!GetStmtAttr, A!Own
  <2>4. A!GetStmtAttr(t, a).value = A!New
    BY <2>3, AnswerIs
  <2> HIDE DEF o
  <2> QED BY <2>1, <2>2, <2>4, SameReads DEF o
<1>3. CASE a \notin A!Own /\ a \notin A!HeaderAttributes
  <2>1. o.s = s /\ (o.state = "" => a \in {"ASYNC_ENABLE", "QUERY_TIMEOUT"})
    <3>1. CASE a \in {"ASYNC_ENABLE", "QUERY_TIMEOUT"}
      <4>1. o = A!Set("", s)
        BY <1>3, <3>1 DEF A!SetStmtAttr
      <4> HIDE DEF o
      <4> QED BY <3>1, <4>1, SetIs
    <3>2. CASE a \notin {"ASYNC_ENABLE", "QUERY_TIMEOUT"}
      <4>1. o = A!Set("HYC00", s)
        BY <1>3, <3>2 DEF A!SetStmtAttr
      <4>2. A!Set("HYC00", s).state = "HYC00" /\ A!Set("HYC00", s).s = s
        BY SetIs
      <4> HIDE DEF o
      <4> QED BY <4>1, <4>2
    <3> QED BY <3>1, <3>2
  <2> HIDE DEF o
  <2> QED BY <2>1, SameReads DEF o
<1> QED BY <1>1, <1>2, <1>3

-----------------------------------------------------------------------------
(* SQLCopyDesc *)

\* A copied record has what is not adjusted, but for what only columns have.
LEMMA CopiedFields ==
  ASSUME NEW g \in A!RecordFields, g \notin Adjusted, g \notin A!OfColumns
  PROVE  /\ g \notin {"CONCISE_TYPE", "OCTET_LENGTH_PTR"}
         /\ g \in A!Described \cup A!Buffer \cup {"AUTO_UNIQUE_VALUE", "CASE_SENSITIVE", "DISPLAY_SIZE",
              "FIXED_PREC_SCALE", "NULLABLE", "SEARCHABLE", "UNSIGNED", "UPDATABLE", "UNNAMED"}
BY DEF A!RecordFields, A!OfBoth, Adjusted

LEMMA CopyRecordIs ==
  ASSUME NEW x \in RecordValue
  PROVE  LET y == A!CopyRecord(x, A!FreshRecord)
         IN  /\ y \in RecordValue
             /\ \A g \in A!RecordFields : g \notin Adjusted /\ g \notin A!OfColumns => y[g] = x[g]
<1> DEFINE y == A!CopyRecord(x, A!FreshRecord)
<1>1. A!FreshRecord \in RecordValue
  BY DEF A!FreshRecord, RecordValue, A!Default
<1>2. x["TYPE"] \in Int /\ x["INDICATOR_PTR"] \in Int
  BY DEF RecordValue, A!RecordFields, A!Described, A!Buffer
<1>3. y \in RecordValue
  BY <1>1, <1>2 DEF A!CopyRecord, RecordValue
<1>4. ASSUME NEW g \in A!RecordFields, g \notin Adjusted, g \notin A!OfColumns
      PROVE  y[g] = x[g]
  BY <1>4, CopiedFields, Zenon DEF A!CopyRecord
<1> QED BY <1>3, <1>4

\* Only the descriptor of a row has what only columns have.
LEMMA OfColumnsRead ==
  ASSUME NEW g \in A!OfColumns
  PROVE  A!Readable(g) = {"IRD"} /\ g \in A!RecordFields
BY DEF A!OfColumns, A!Readable, A!Described, A!Buffer, A!OfBoth, A!RecordFields

\* SQLCopyDesc.
LEMMA CopyIs ==
  ASSUME NEW s \in Statement, NEW from \in A!All, NEW to \in A!All, from # to
  PROVE  LET o == A!CopyDesc(s, from, to)
         IN  /\ o.s \in Statement /\ o.s.ard = s.ard /\ o.s.apd = s.apd
             /\ \A e \in A!All \ {to} : o.s.desc[e] = s.desc[e]
             /\ o.state # "" => o.s = s
             /\ o.state = "" => \A q \in A!Records, g \in AllFields \ Adjusted :
                  Visible(s, from, q, g) /\ Visible(o.s, to, q, g)
                    => A!GetDescField(o.s, to, q, g) = A!GetDescField(s, from, q, g)
<1> DEFINE o == A!CopyDesc(s, from, to)
           F == s.desc[from]
           G == s.desc[to]
<1>1. CASE to = "IRD" \/ (from = "IRD" /\ ~F.defined)
  <2> DEFINE state == IF to = "IRD" THEN "HY016" ELSE "HY007"
  <2>1. o = A!Set(state, s)
    BY <1>1, Zenon DEF A!CopyDesc
  <2>2. o.state = state /\ o.s = s
    <3> HIDE DEF o, state
    <3> QED BY <2>1, SetIs
  <2> HIDE DEF o
  <2> QED BY <2>2 DEF o
<1>2. CASE to # "IRD" /\ ~(from = "IRD" /\ ~F.defined)
  <2> DEFINE z == [r \in A!Records |-> IF r <= F.count THEN A!CopyRecord(F.rec[r], A!FreshRecord)
                                       ELSE A!FreshRecord]
             h == [F.head EXCEPT !["ALLOC_TYPE"] = G.head["ALLOC_TYPE"]]
             m == 0 .. F.count
             n == F.count
             E == [G EXCEPT !.count = n, !.made = m, !.head = h, !.rec = z]
             t == WithDesc(s, to, E)
  <2>1. o.state = "" /\ o.s = t
    <3>1. o = A!Set("", [s EXCEPT !.desc[to].count = n, !.desc[to].made = m, !.desc[to].head = h,
                                  !.desc[to].rec = z])
      BY <1>2, Zenon DEF A!CopyDesc
    <3>2. [s EXCEPT !.desc[to].count = n, !.desc[to].made = m, !.desc[to].head = h, !.desc[to].rec = z] = t
      <4> HIDE DEF n, m, h, z
      <4> DEFINE X == Descriptor
      <4>1. s \in [desc : [A!All -> X], ard : {"ARD", "X"}, apd : {"APD", "X"}, own : [A!Own -> Int]]
        BY DEF Statement
      <4> HIDE DEF X
      <4> QED BY <4>1 DEF WithDesc
    <3> DEFINE u == [s EXCEPT !.desc[to].count = n, !.desc[to].made = m, !.desc[to].head = h,
                              !.desc[to].rec = z]
    <3> HIDE DEF o, t, u
    <3> QED BY <3>1, <3>2, SetIs DEF u
  <2>2. F \in Descriptor /\ G \in Descriptor
    BY DescsAre
  <2>3. F.head \in HeadValues /\ G.head \in HeadValues /\ F.rec \in RecordValues /\ F.count \in Nat
    BY <2>2 DEF Descriptor
  <2>4. h \in HeadValues /\ \A g \in Heads : g \notin Adjusted => h[g] = F.head[g]
    <3>1. "ALLOC_TYPE" \in Heads /\ "ALLOC_TYPE" \in Adjusted
      BY DEF Heads, A!HeadFields, Adjusted
    <3> QED BY <2>3, <3>1 DEF HeadValues
  <2>5. /\ z \in RecordValues
        /\ \A q \in A!Records, g \in A!RecordFields :
             q <= F.count /\ g \notin Adjusted /\ g \notin A!OfColumns => z[q][g] = F.rec[q][g]
    <3>1. \A q \in A!Records : F.rec[q] \in RecordValue
      BY <2>3 DEF RecordValues, RecordValue
    <3>2. A!FreshRecord \in RecordValue
      BY DEF A!FreshRecord, RecordValue, A!Default
    <3>3. RecordValues = [A!Records -> RecordValue]
      BY DEF RecordValues, RecordValue
    <3>4. ASSUME NEW q \in A!Records
          PROVE  /\ z[q] \in RecordValue
                 /\ \A g \in A!RecordFields :
                      q <= F.count /\ g \notin Adjusted /\ g \notin A!OfColumns => z[q][g] = F.rec[q][g]
      <4> DEFINE y == A!CopyRecord(F.rec[q], A!FreshRecord)
      <4>1. y \in RecordValue
            /\ \A g \in A!RecordFields : g \notin Adjusted /\ g \notin A!OfColumns => y[g] = F.rec[q][g]
        BY <3>1, CopyRecordIs
      <4>2. z[q] = IF q <= F.count THEN y ELSE A!FreshRecord
        OBVIOUS
      <4> HIDE DEF z, y
      <4> QED BY <3>2, <4>1, <4>2
    <3>5. z = [q \in A!Records |-> z[q]]
      OBVIOUS
    <3> HIDE DEF z
    <3> QED BY <3>3, <3>4, <3>5
  <2>6. m \in RecordSets /\ n \in Nat
    BY <2>3 DEF RecordSets
  <2>7. E \in Descriptor /\ E.count = n /\ E.head = h /\ E.rec = z
    <3> HIDE DEF n, m, h, z
    <3> QED BY <2>2, <2>4, <2>5, <2>6 DEF Descriptor
  <2> HIDE DEF E
  <2>8. /\ t \in Statement /\ t.ard = s.ard /\ t.apd = s.apd /\ t.desc[to] = E
        /\ \A e \in A!All \ {to} : t.desc[e] = s.desc[e]
    BY <2>7, PutDesc
  <2> HIDE DEF t, h, z
  <2>9. ASSUME NEW q \in A!Records, NEW g \in AllFields \ Adjusted,
               Visible(s, from, q, g), Visible(t, to, q, g)
        PROVE  A!GetDescField(t, to, q, g) = A!GetDescField(s, from, q, g)
    <3>1. q <= F.count /\ to \in A!Readable(g)
      <4>1. ~(q > F.count) /\ q \in Int
        <5>1. ~(q > s.desc[from].count)
          BY <2>9, ReadIs
        <5> QED BY <5>1 DEF A!Records
      <4>2. to \in A!Readable(g)
        BY <2>9, ReadIs
      <4> QED BY <2>3, <4>1, <4>2
    <3>2. g \notin A!OfColumns
      BY <1>2, <3>1, OfColumnsRead
    <3>3. g \in Heads \/ g = "COUNT" \/ (g \in A!RecordFields /\ g \notin A!HeadFields)
      BY DEF AllFields, Heads
    <3>4. g \in Heads => g # "COUNT" /\ g \in A!HeadFields
      BY DEF Heads
    <3>5. g \in A!RecordFields => g # "COUNT"
      BY FieldsApart
    <3>6. Reading(t, to, q, g) = Reading(s, from, q, g)
      BY <2>4, <2>5, <2>7, <2>8, <3>1, <3>2, <3>3, <3>4, <3>5 DEF Reading
    <3>7. A!GetDescField(t, to, q, g) = A!Answer("", Reading(t, to, q, g))
      BY <2>9, ReadIs
    <3>8. A!GetDescField(s, from, q, g) = A!Answer("", Reading(s, from, q, g))
      BY <2>9, ReadIs
    <3> QED BY <3>6, <3>7, <3>8
  <2> HIDE DEF o
  <2> QED BY <2>1, <2>8, <2>9 DEF o
<1> QED BY <1>1, <1>2

-----------------------------------------------------------------------------
(* The steps of a statement *)

\* Every step of a statement leaves it a statement.
LEMMA StepsKeep ==
  ASSUME NEW s \in Statement, NEW c \in A!Steps
  PROVE  A!Apply(s, c).s \in Statement
<1>0. {"IRD", "IPD", "X"} \subseteq A!All /\ {0, 1, 2} \subseteq A!Records
      /\ {"OCTET_LENGTH", "NAME"} \subseteq AllFields
  BY DEF A!All, A!App, A!Imp, A!Records, AllFields, A!RecordFields, A!Described, A!OfBoth
<1>a. ASSUME NEW u \in Statement, A!Apply(s, c) = A!Set("", u)
      PROVE  A!Apply(s, c).s \in Statement
  <2>1. A!Set("", u).s = u
    BY SetIs
  <2> QED BY <1>a, <2>1
<1>1. CASE \E n \in {0, 2} : c = A!Call("prepare", "none", n, "none")
  <2>1. PICK n \in {0, 2} : c = A!Call("prepare", "none", n, "none")
    BY <1>1
  <2>2. A!Apply(s, c) = A!Set("", A!Prepare(s, n, 1))
    BY <2>1 DEF A!Apply, A!Call
  <2>3. A!Prepare(s, n, 1) \in Statement
    BY PrepareKeeps
  <2> QED BY <1>a, <2>2, <2>3
<1>2. CASE c = A!Call("execute", "none", 0, "none")
  <2>1. A!Apply(s, c) = A!Set("", IF s.desc["IRD"].defined THEN A!Execute(s) ELSE s)
    BY <1>2 DEF A!Apply, A!Call
  <2>2. (IF s.desc["IRD"].defined THEN A!Execute(s) ELSE s) \in Statement
    BY ExecuteKeeps
  <2> QED BY <1>a, <2>1, <2>2
<1>3. CASE c = A!Call("look", "IRD", 1, "none")
  <2>1. A!Apply(s, c) = A!Set("", A!Look(s, "IRD", 1))
    BY <1>3 DEF A!Apply, A!Call
  <2>2. A!Look(s, "IRD", 1) \in Statement
    BY <1>0, MadeIs DEF A!Look
  <2> QED BY <1>a, <2>1, <2>2
<1>4. CASE c \in {A!Call("row", "X", 0, "none"), A!Call("param", "X", 0, "none")}
  <2>2. [s EXCEPT !.ard = "X"] \in Statement /\ [s EXCEPT !.apd = "X"] \in Statement
    BY DEF Statement
  <2>1. CASE c = A!Call("row", "X", 0, "none")
    <3>1. A!Apply(s, c) = A!Set("", [s EXCEPT !.ard = "X"])
      <4>1. A!Apply(s, c) = A!AttachRow(s, "X")
        BY <2>1 DEF A!Apply, A!Call
      <4> QED BY <4>1 DEF A!AttachRow
    <3> QED BY <1>a, <2>2, <3>1
  <2>3. CASE c = A!Call("param", "X", 0, "none")
    <3>1. A!Apply(s, c) = A!Set("", [s EXCEPT !.apd = "X"])
      <4>1. A!Apply(s, c) = A!AttachParam(s, "X")
        BY <2>3 DEF A!Apply, A!Call
      <4> QED BY <4>1 DEF A!AttachParam
    <3> QED BY <1>a, <2>2, <3>1
  <2> QED BY <1>4, <2>1, <2>3
<1>5. CASE c \in {A!Call("field", "X", 1, "OCTET_LENGTH"), A!Call("field", "IPD", 1, "NAME")}
  <2>1. A!Apply(s, c) = A!SetDescField(s, c.d, c.r, c.f, A!New) /\ c.d \in A!All /\ c.r \in A!Records
        /\ c.f \in AllFields
    <3>1. c.op = "field" /\ c.d \in {"X", "IPD"} /\ c.r = 1 /\ c.f \in {"OCTET_LENGTH", "NAME"}
      BY <1>5 DEF A!Call
    <3>2. A!Apply(s, c) = A!SetDescField(s, c.d, c.r, c.f, A!New)
      BY <3>1 DEF A!Apply
    <3> QED BY <1>0, <3>1, <3>2
  <2> QED BY <2>1, SetFieldIs DEF Outcome, Alone
<1>6. CASE c = A!Call("copy", "IRD", 0, "X")
  <2>1. A!Apply(s, c) = A!CopyDesc(s, "IRD", "X")
    BY <1>6 DEF A!Apply, A!Call
  <2> QED BY <1>0, <2>1, CopyIs
<1> QED BY <1>1, <1>2, <1>3, <1>4, <1>5, <1>6 DEF A!Steps

-----------------------------------------------------------------------------
(* One call *)

\* What a call is, and what its outcome is.
CallIs(s, c) ==
  \/ /\ c.op = "field" /\ c.d \in A!All /\ c.r \in A!Records /\ c.f \in AllFields
     /\ A!Apply(s, c) = A!SetDescField(s, c.d, c.r, c.f, A!New)
  \/ /\ c.op = "rec" /\ c.d \in A!All /\ c.r \in A!Records
     /\ A!Apply(s, c) = A!SetDescRec(s, c.d, c.r, A!New)
  \/ /\ c.op = "attribute" /\ c.f # "QUERY_TIMEOUT"
     /\ A!Apply(s, c) = A!SetStmtAttr(s, c.f, A!New)
  \/ c.op = "row" /\ A!Apply(s, c) = A!AttachRow(s, c.d)
  \/ c.op = "param" /\ A!Apply(s, c) = A!AttachParam(s, c.d)
  \/ /\ c.op = "copy" /\ c.d \in A!All /\ c.f \in A!All
     /\ A!Apply(s, c) = IF c.d = c.f THEN A!Set("", s) ELSE A!CopyDesc(s, c.d, c.f)

LEMMA CallsAre ==
  ASSUME NEW c \in A!Calls(Fields), NEW s
  PROVE  CallIs(s, c)
<1> DEFINE Attributes == A!HeaderAttributes \cup A!Own \cup {"ASYNC_ENABLE", "ROW_NUMBER"}
<1>1. CASE c \in {A!Call("field", d, r, f) : d \in A!All, r \in A!Records, f \in Fields}
  <2>1. c.op = "field" /\ c.d \in A!All /\ c.r \in A!Records /\ c.f \in Fields
    BY <1>1 DEF A!Call
  <2> QED BY <2>1, ValueConstants DEF A!Apply, AllFields, CallIs
<1>2. CASE c \in {A!Call("rec", d, r, "none") : d \in A!All, r \in A!Records}
  <2>1. PICK d \in A!All, r \in A!Records : c = A!Call("rec", d, r, "none")
    BY <1>2
  <2>2. c.op = "rec" /\ c.d \in A!All /\ c.r \in A!Records
    BY <2>1 DEF A!Call
  <2> QED BY <2>2 DEF A!Apply, CallIs
<1>3. CASE c \in {A!Call("attribute", "none", 0, a) : a \in Attributes}
  <2>1. PICK a \in Attributes : c = A!Call("attribute", "none", 0, a)
    BY <1>3
  <2>2. c.op = "attribute" /\ c.f = a
    BY <2>1 DEF A!Call
  <2>3. a # "QUERY_TIMEOUT"
    BY HeaderIs DEF A!Own, Attributes
  <2> QED BY <2>2, <2>3 DEF A!Apply, CallIs
<1>4. CASE c \in {A!Call(op, d, 0, "none") : op \in {"row", "param"}, d \in A!All}
  <2>1. PICK op \in {"row", "param"}, d \in A!All : c = A!Call(op, d, 0, "none")
    BY <1>4
  <2>2. c.op = op
    BY <2>1 DEF A!Call
  <2> QED BY <2>1, <2>2 DEF A!Apply, CallIs
<1>5. CASE c \in {A!Call("copy", d, 0, e) : d \in A!All, e \in A!All}
  <2>1. c.op = "copy" /\ c.d \in A!All /\ c.f \in A!All
    BY <1>5 DEF A!Call
  <2> QED BY <2>1 DEF A!Apply, CallIs
<1>6. \/ c \in {A!Call("field", d, r, f) : d \in A!All, r \in A!Records, f \in Fields}
      \/ c \in {A!Call("rec", d, r, "none") : d \in A!All, r \in A!Records}
      \/ c \in {A!Call("attribute", "none", 0, a) : a \in Attributes}
      \/ c \in {A!Call(op, d, 0, "none") : op \in {"row", "param"}, d \in A!All}
      \/ c \in {A!Call("copy", d, 0, e) : d \in A!All, e \in A!All}
  BY DEF A!Calls
<1> QED BY <1>1, <1>2, <1>3, <1>4, <1>5, <1>6

\* No call disturbs a field it is not about; a refused one disturbs none.
LEMMA CallLeaves ==
  ASSUME NEW s \in Statement, NEW c \in A!Calls(Fields),
         NEW e \in A!All, NEW q \in A!Records, NEW g \in AllFields,
         LET o == A!Apply(s, c)
         IN  (g # "COUNT" \/ o.state = "") /\ ~(o.state = "" /\ Touches(c, s, e, q, g))
  PROVE  Left(s.desc[e], A!Apply(s, c).s.desc[e], q, g)
<1> DEFINE o == A!Apply(s, c)
<1>0. (g # "COUNT" \/ o.state = "") /\ ~(o.state = "" /\ Touches(c, s, e, q, g))
  OBVIOUS
<1> HIDE DEF o
<1>1. CASE /\ c.op = "field" /\ c.d \in A!All /\ c.r \in A!Records /\ c.f \in AllFields
           /\ o = A!SetDescField(s, c.d, c.r, c.f, A!New)
  <2>1. FieldTouches(c.d, c.r, c.f, e, q, g) => Touches(c, s, e, q, g)
    BY <1>1, Zenon DEF FieldTouches, GoesWith, Touches
  <2>2. Outcome(s, c.d, c.r, c.f, o)
    BY <1>1, SetFieldIs
  <2> QED BY <1>0, <2>1, <2>2 DEF Outcome, o
<1>2. CASE /\ c.op = "rec" /\ c.d \in A!All /\ c.r \in A!Records
           /\ o = A!SetDescRec(s, c.d, c.r, A!New)
  <2>1. RecTouches(c.d, c.r, e, q, g) => Touches(c, s, e, q, g)
    BY <1>2, Zenon DEF RecTouches, Touches
  <2>2. ~(o.state = "" /\ RecTouches(c.d, c.r, e, q, g)) => Left(s.desc[e], o.s.desc[e], q, g)
    BY <1>2, SetRecIs
  <2> QED BY <1>0, <2>1, <2>2 DEF o
<1>3. CASE c.op = "attribute" /\ o = A!SetStmtAttr(s, c.f, A!New)
  <2>1. AttributeTouches(s, c.f, e, g) => Touches(c, s, e, q, g)
    BY <1>3, Zenon DEF AttributeTouches, Touches
  <2>2. ~AttributeTouches(s, c.f, e, g) => Left(s.desc[e], o.s.desc[e], q, g)
    BY <1>3, SetAttributeIs
  <2>3. AttributeTouches(s, c.f, e, g) => o.state = ""
    <3>1. c.f \in A!HeaderAttributes => o = A!Set("", A!SetHeaderAttr(s, c.f, A!New))
      BY <1>3, HeaderIs DEF A!SetStmtAttr
    <3> DEFINE u == A!SetHeaderAttr(s, c.f, A!New)
    <3> HIDE DEF u
    <3>2. A!Set("", u).state = ""
      BY SetIs
    <3>3. AttributeTouches(s, c.f, e, g) => o = A!Set("", u)
      BY <3>1 DEF AttributeTouches, u
    <3> QED BY <3>2, <3>3
  <2> QED BY <1>0, <2>1, <2>2, <2>3 DEF o
<1>4. CASE o = A!AttachRow(s, c.d) \/ o = A!AttachParam(s, c.d)
  <2>1. \E state, a : o = A!Set(state, [s EXCEPT !.ard = a]) \/ o = A!Set(state, [s EXCEPT !.apd = a])
    BY <1>4 DEF A!AttachRow, A!AttachParam
  <2>2. PICK state, a : o = A!Set(state, [s EXCEPT !.ard = a]) \/ o = A!Set(state, [s EXCEPT !.apd = a])
    BY <2>1
  <2> DEFINE u == [s EXCEPT !.ard = a]
             v == [s EXCEPT !.apd = a]
  <2>3. o.s = u \/ o.s = v
    <3>1. A!Set(state, u).s = u /\ A!Set(state, v).s = v
      BY SetIs
    <3> HIDE DEF u, v
    <3> QED BY <2>2, <3>1 DEF u, v
  <2>4. u.desc = s.desc /\ v.desc = s.desc
    <3> DEFINE X == Descriptor
    <3>1. s \in [desc : [A!All -> X], ard : {"ARD", "X"}, apd : {"APD", "X"}, own : [A!Own -> Int]]
      BY DEF Statement
    <3> HIDE DEF X
    <3> QED BY <3>1
  <2>5. o.s.desc = s.desc
    BY <2>3, <2>4
  <2> QED BY <2>5, SameReads DEF o
<1>5. CASE /\ c.op = "copy" /\ c.d \in A!All /\ c.f \in A!All
           /\ o = IF c.d = c.f THEN A!Set("", s) ELSE A!CopyDesc(s, c.d, c.f)
  <2>1. CASE c.d = c.f
    <3>1. o.s = s
      BY <1>5, <2>1, SetIs
    <3> QED BY <3>1, SameReads DEF o
  <2>2. CASE c.d # c.f
    <3>1. o = A!CopyDesc(s, c.d, c.f)
      BY <1>5, <2>2
    <3>2. (\A x \in A!All \ {c.f} : o.s.desc[x] = s.desc[x]) /\ (o.state # "" => o.s = s)
      <4> DEFINE p == A!CopyDesc(s, c.d, c.f)
      <4>1. (\A x \in A!All \ {c.f} : p.s.desc[x] = s.desc[x]) /\ (p.state # "" => p.s = s)
        BY <1>5, <2>2, CopyIs
      <4> QED BY <3>1, <4>1
    <3>3. e = c.f => Touches(c, s, e, q, g)
      BY <1>5, Zenon DEF Touches
    <3>4. o.s.desc[e] = s.desc[e]
      BY <1>0, <3>2, <3>3
    <3> QED BY <3>4, SameReads DEF o
  <2> QED BY <2>1, <2>2
<1> QED BY <1>1, <1>2, <1>3, <1>4, <1>5, CallsAre DEF o, CallIs

-----------------------------------------------------------------------------
(* The invariant of the fields *)

\* The case of a statement: after its steps, and after the call that is looked at.
FieldInv ==
  /\ "kind" \in DOMAIN item
  /\ item.kind = "fields" =>
       /\ {"s", "left"} \subseteq DOMAIN item /\ item.s \in Statement
       /\ "result" \in DOMAIN item =>
            item.call \in A!Calls(Fields) /\ item.result = A!Apply(item.s, item.call)

LEMMA FieldInit == Init => FieldInv
<1> SUFFICES ASSUME Init PROVE FieldInv
  OBVIOUS
<1>1. CASE item.kind = "fields"
  <2>1. item = FieldCase
    BY <1>1, KindInit
  <2>2. \A d \in A!All : A!FreshDesc(d) \in Descriptor
    <3> TAKE d \in A!All
    <3> DEFINE z == [r \in A!Records |-> A!FreshRecord]
               h == A!FreshHead
               p == d # "IRD"
    <3>1. A!FreshDesc(d) = [defined |-> p, count |-> 0, head |-> h, made |-> {}, told |-> {}, rec |-> z]
      BY Zenon DEF A!FreshDesc
    <3>2. z \in RecordValues
      BY DEF RecordValues, A!FreshRecord, A!Default
    <3>3. h \in HeadValues
      BY DEF HeadValues, Heads, A!FreshHead
    <3>4. {} \in RecordSets /\ p \in BOOLEAN
      BY DEF RecordSets
    <3> HIDE DEF z, h, p
    <3> QED BY <3>1, <3>2, <3>3, <3>4 DEF Descriptor
  <2>3. A!FreshStatement \in Statement
    BY <2>2 DEF A!FreshStatement, Statement
  <2>4. DOMAIN item = {"kind", "s", "left"} /\ item["s"] = A!FreshStatement
    BY <2>1 DEF FieldCase
  <2> QED BY <2>3, <2>4 DEF FieldInv
<1>2. CASE item.kind # "fields"
  BY <1>2, KindInit DEF FieldInv
<1> QED BY <1>1, <1>2

LEMMA FieldNext == FieldInv /\ [Next]_item => FieldInv'
<1> SUFFICES ASSUME FieldInv, Next PROVE FieldInv'
  BY DEF FieldInv
<1>0. "kind" \in DOMAIN item' /\ item'.kind = item.kind /\ (item.kind = "fields" => SetUp \/ SetField)
  BY KindKept DEF FieldInv, KindOf
<1>1. CASE item.kind = "fields" /\ SetUp
  <2>1. PICK c \in A!Steps : item' = [item EXCEPT !.s = A!Apply(@, c).s, !.left = @ - 1]
    BY <1>1 DEF SetUp
  <2>2. "result" \notin DOMAIN item /\ {"s", "left"} \subseteq DOMAIN item /\ item.s \in Statement
    BY <1>1 DEF SetUp, Pending, FieldInv
  <2>3. DOMAIN item' = DOMAIN item /\ item'["s"] = A!Apply(item.s, c).s
    BY <2>1, <2>2
  <2>4. A!Apply(item.s, c).s \in Statement
    BY <2>2, StepsKeep
  <2> QED BY <1>0, <2>2, <2>3, <2>4 DEF FieldInv
<1>2. CASE item.kind = "fields" /\ SetField
  <2>1. PICK c \in A!Calls(Fields) : item' = With(With(item, "call", c), "result", A!Apply(item.s, c))
    BY <1>2 DEF SetField
  <2>2. {"s", "left"} \subseteq DOMAIN item /\ item.s \in Statement
    BY <1>2 DEF FieldInv
  <2> DEFINE R == A!Apply(item.s, c)
  <2> HIDE DEF R
  <2>3. /\ DOMAIN item' = DOMAIN item \cup {"call", "result"} /\ item'["s"] = item["s"]
        /\ item'["call"] = c /\ item'["result"] = R
    BY <2>1, <2>2 DEF With, R
  <2> QED BY <1>0, <2>2, <2>3 DEF FieldInv, R
<1>3. CASE item.kind # "fields"
  BY <1>0, <1>3 DEF FieldInv
<1> QED BY <1>0, <1>1, <1>2, <1>3

LEMMA FieldImplies ==
  ASSUME FieldInv, Done("fields")
  PROVE  LET c == item.call
             b == item.s
             a == item.result.s
             ok == item.result.state = ""
             Was(d, r, f) == A!GetDescField(b, d, r, f)
             Is(d, r, f)  == A!GetDescField(a, d, r, f)
         IN  /\ \A d \in A!All, r \in A!Records, f \in Fields :
                  Visible(b, d, r, f) /\ (f # "COUNT" \/ ok) /\ ~(ok /\ Touches(c, b, d, r, f))
                    => Is(d, r, f) = Was(d, r, f)
             /\ c.op = "field" /\ ok /\ Visible(a, c.d, c.r, c.f) /\ (c.r > 0 \/ c.f \in A!HeadFields)
                  => Is(c.d, c.r, c.f).value = A!New
             /\ c.op = "attribute" /\ ok /\ A!GetStmtAttr(a, c.f).state = "" /\ c.f # "ASYNC_ENABLE"
                  => A!GetStmtAttr(a, c.f).value = A!New
             /\ \A h \in A!HeaderAttributes \ A!Unread :
                  LET at == A!HeaderOf[h]
                      d  == A!Attached(a, at[1])
                  IN  Visible(a, d, 0, at[2]) => A!GetStmtAttr(a, h) = Is(d, 0, at[2])
             /\ c.op = "copy" /\ ok =>
                  \A r \in A!Records, f \in Fields \ Adjusted :
                    Visible(b, c.d, r, f) /\ Visible(a, c.f, r, f) => Is(c.f, r, f) = Was(c.d, r, f)
<1> DEFINE c == item.call
           b == item.s
           o == item.result
           a == o.s
           ok == o.state = ""
<1>0. b \in Statement /\ c \in A!Calls(Fields) /\ o = A!Apply(b, c)
  BY DEF FieldInv, Done
<1> HIDE DEF c, b, o
<1>1. ASSUME NEW d \in A!All, NEW r \in A!Records, NEW f \in Fields, Visible(b, d, r, f),
             f # "COUNT" \/ ok, ~(ok /\ Touches(c, b, d, r, f))
      PROVE  A!GetDescField(a, d, r, f) = A!GetDescField(b, d, r, f)
  <2>1. f \in AllFields
    BY ValueConstants DEF AllFields
  <2>2. Left(b.desc[d], a.desc[d], r, f)
    BY <1>0, <1>1, <2>1, CallLeaves
  <2>3. Visible(b, d, r, f)
    BY <1>1
  <2> HIDE DEF a
  <2> QED BY <2>2, <2>3, LeftReads
<1>2. ASSUME c.op = "field", ok, Visible(a, c.d, c.r, c.f), c.r > 0 \/ c.f \in A!HeadFields
      PROVE  A!GetDescField(a, c.d, c.r, c.f).value = A!New
  <2>1. c.d \in A!All /\ c.r \in A!Records /\ c.f \in AllFields
        /\ o = A!SetDescField(b, c.d, c.r, c.f, A!New)
    BY <1>0, <1>2, CallsAre DEF CallIs
  <2>2. ~(c.f = "DATA_PTR" /\ c.d = "IPD")
    <3>1. c.d \in A!Readable(c.f)
      BY <1>2, ReadIs
    <3>2. "IPD" \notin A!Readable("DATA_PTR")
      <4>1. A!Readable("DATA_PTR") = A!App
        BY DEF A!Readable, A!Described, A!Buffer, A!OfColumns, A!OfBoth
      <4> QED BY <4>1 DEF A!App
    <3> QED BY <3>1, <3>2
  <2>3. Reading(a, c.d, c.r, c.f) = A!New
    <3>1. Outcome(b, c.d, c.r, c.f, o)
      BY <1>0, <2>1, SetFieldIs
    <3> QED BY <1>2, <2>2, <3>1 DEF Outcome
  <2>4. A!GetDescField(a, c.d, c.r, c.f) = A!Answer("", Reading(a, c.d, c.r, c.f))
    <3> DEFINE d == c.d
               r == c.r
               f == c.f
    <3>1. Visible(a, d, r, f)
      BY <1>2
    <3> HIDE DEF a, d, r, f
    <3>2. A!GetDescField(a, d, r, f) = A!Answer("", Reading(a, d, r, f))
      BY <3>1, ReadIs
    <3> QED BY <3>2 DEF d, r, f
  <2> QED BY <2>3, <2>4, AnswerIs
<1>3. ASSUME c.op = "attribute", ok, A!GetStmtAttr(a, c.f).state = "", c.f # "ASYNC_ENABLE"
      PROVE  A!GetStmtAttr(a, c.f).value = A!New
  <2>1. c.f # "QUERY_TIMEOUT" /\ o = A!SetStmtAttr(b, c.f, A!New)
    BY <1>0, <1>3, CallsAre DEF CallIs
  <2>2. c.f \notin {"ASYNC_ENABLE", "QUERY_TIMEOUT"}
    BY <1>3, <2>1
  <2> DEFINE p == A!SetStmtAttr(b, c.f, A!New)
  <2>3. p.state = "" /\ A!GetStmtAttr(p.s, c.f).state = "" => A!GetStmtAttr(p.s, c.f).value = A!New
    BY <1>0, <2>2, SetAttributeIs
  <2> QED BY <1>3, <2>1, <2>3
<1>4. ASSUME NEW h \in A!HeaderAttributes \ A!Unread,
             Visible(a, A!Attached(a, A!HeaderOf[h][1]), 0, A!HeaderOf[h][2])
      PROVE  A!GetStmtAttr(a, h) = A!GetDescField(a, A!Attached(a, A!HeaderOf[h][1]), 0, A!HeaderOf[h][2])
  <2> DEFINE d == A!Attached(a, A!HeaderOf[h][1])
             k == A!HeaderOf[h][2]
  <2>1. k \in A!HeadFields /\ k # "COUNT"
    BY HeaderIs DEF Heads
  <2>2. A!GetStmtAttr(a, h) = A!Answer("", a.desc[d].head[k])
    BY HeaderIs DEF A!GetStmtAttr
  <2> HIDE DEF d, k
  <2>3. Reading(a, d, 0, k) = a.desc[d].head[k]
    BY <2>1 DEF Reading
  <2>4. A!GetDescField(a, d, 0, k) = A!Answer("", Reading(a, d, 0, k))
    BY <1>4, ReadIs DEF d, k
  <2> QED BY <2>2, <2>3, <2>4 DEF d, k
<1>5. ASSUME c.op = "copy", ok, NEW r \in A!Records, NEW f \in Fields \ Adjusted,
             Visible(b, c.d, r, f), Visible(a, c.f, r, f)
      PROVE  A!GetDescField(a, c.f, r, f) = A!GetDescField(b, c.d, r, f)
  <2>1. c.d \in A!All /\ c.f \in A!All
        /\ o = IF c.d = c.f THEN A!Set("", b) ELSE A!CopyDesc(b, c.d, c.f)
    BY <1>0, <1>5, CallsAre DEF CallIs
  <2>2. f \in AllFields \ Adjusted
    BY ValueConstants DEF AllFields
  <2>3. CASE c.d = c.f
    <3>1. a = b
      BY <2>1, <2>3, SetIs
    <3> QED BY <2>3, <3>1
  <2>4. CASE c.d # c.f
    <3> DEFINE p == A!CopyDesc(b, c.d, c.f)
    <3>1. o = p
      BY <2>1, <2>4
    <3>2. p.state = "" => \A q \in A!Records, g \in AllFields \ Adjusted :
            Visible(b, c.d, q, g) /\ Visible(p.s, c.f, q, g)
              => A!GetDescField(p.s, c.f, q, g) = A!GetDescField(b, c.d, q, g)
      BY <1>0, <2>1, <2>4, CopyIs
    <3> HIDE DEF p
    <3> QED BY <1>5, <2>2, <3>1, <3>2
  <2> QED BY <2>3, <2>4
<1> QED BY <1>1, <1>2, <1>3, <1>4, <1>5 DEF c, b, o

\* The attributes of a cursor, the fields of descriptors and the attributes of the
\* statement that are such fields are read as they were set, after any settings and
\* steps whatever their number, and a call changes nothing else an application can
\* read (OdbcStatement.cpp 1464-1541, 2521-2673, 3389-3605, OdbcDesc.cpp 331-1285).
THEOREM AttributesAreKept == Spec => []AttributesKept
<1>1. CursorInv /\ [Next]_item => CursorInv'
  BY CursorNext
<1>2. FieldInv /\ [Next]_item => FieldInv'
  BY FieldNext
<1>3. CursorInv /\ FieldInv => AttributesKept
  BY CursorImplies, FieldImplies, Zenon DEF AttributesKept
<1> QED BY <1>1, <1>2, <1>3, CursorInit, FieldInit, PTL DEF Spec
=============================================================================
