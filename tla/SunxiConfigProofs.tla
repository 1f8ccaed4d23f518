------------------------- MODULE SunxiConfigProofs -------------------------
(***************************************************************************)
(* Machine-checked proofs about SunxiConfig: what sunxi_pwm_config writes, *)
(* for every period and every duty, not only those that a run tries.       *)
(***************************************************************************)
EXTENDS SunxiConfig, TLAPS

-----------------------------------------------------------------------------
(* Division.                                                               *)

LEMMA Division ==
  ASSUME NEW n \in Int, NEW d \in Nat, d > 0
  PROVE  /\ n \div d \in Int /\ n % d \in Int
         /\ n = d * (n \div d) + (n % d)
         /\ 0 <= n % d /\ n % d < d
BY SMT

LEMMA Quotient ==
  ASSUME NEW n \in Int, NEW d \in Nat, NEW q \in Int, NEW r \in Int,
         d > 0, n = d * q + r, 0 <= r, r < d
  PROVE  n \div d = q /\ n % d = r
BY SMT

LEMMA QuotientMonotone ==
  ASSUME NEW m \in Int, NEW n \in Int, NEW d \in Nat, d > 0, m <= n
  PROVE  m \div d <= n \div d
BY SMT

LEMMA LongDivision ==
  ASSUME NEW a \in Nat, NEW b \in Nat, NEW d \in Nat, d > 0,
         NEW n \in Nat, n = a * 256 + b, NEW m \in Nat, m = (a % d) * 256 + b
  PROVE  n \div d = (a \div d) * 256 + (m \div d) /\ n % d = m % d
<1> DEFINE q == (a \div d) * 256 + (m \div d)
<1>1. a = d * (a \div d) + (a % d) /\ a \div d \in Int /\ a % d \in Nat BY Division
<1>2. a * 256 = d * ((a \div d) * 256) + (a % d) * 256 BY <1>1, SMT
<1>3. m = d * (m \div d) + (m % d) /\ m \div d \in Int /\ m % d \in Int /\ 0 <= m % d /\ m % d < d
  BY Division
<1>4. n = d * q + (m % d) /\ q \in Int BY <1>1, <1>2, <1>3, SMT
<1> HIDE DEF q
<1>5. n \div d = q /\ n % d = m % d BY <1>3, <1>4, Quotient
<1> QED BY <1>5 DEF q

(* What is below d is all remainder.                                       *)
LEMMA NoQuotient ==
  ASSUME NEW n \in Nat, NEW d \in Nat, n < d
  PROVE  n \div d = 0 /\ n % d = n
BY Quotient, SMT

LEMMA QuotientBelow ==
  ASSUME NEW n \in Nat, NEW d \in Nat, NEW b \in Nat, d > 0, n < d * b
  PROVE  n \div d \in Nat /\ n \div d < b
<1>1. n = d * (n \div d) + (n % d) /\ n \div d \in Int /\ n % d \in Int /\ 0 <= n % d /\ n % d < d
  BY Division
<1> QED BY <1>1, SMT

-----------------------------------------------------------------------------
(* Words: as long as nothing overflows they are the numbers they stand for.*)

Word(n) == <<n \div Half, n % Half>>

LEMMA HalfIs == Half \in Nat /\ Half > 0 /\ Half = 256 * 256
BY SMT DEF Half

LEMMA HalfWidth == Half \in Nat /\ Half >= 65536
BY SMT DEF Half

LEMMA HalfQuotient ==
  ASSUME NEW n \in Int, NEW q \in Int, NEW r \in Int,
         n = Half * q + r, 0 <= r, r < Half
  PROVE  Word(n) = <<q, r>>
BY HalfIs, Quotient DEF Word

LEMMA MulIs ==
  ASSUME NEW a \in Nat, NEW b \in Nat, a * b < Half * Half
  PROVE  MulU32(a, b) = Word(a * b)
<1> DEFINE upper == a * (b \div 256)
           lower == (upper % 256) * 256 + a * (b % 256)
           q == upper \div 256 + lower \div Half
<1>1. b = 256 * (b \div 256) + (b % 256) /\ b \div 256 \in Nat /\ b % 256 \in Nat BY SMT
<1>2. upper \in Nat BY <1>1, SMT
<1>3. a * b = 256 * upper + a * (b % 256) BY <1>1, SMT
<1> HIDE DEF upper
<1>4. /\ upper = 256 * (upper \div 256) + (upper % 256)
      /\ upper \div 256 \in Nat /\ upper % 256 \in Nat
  BY <1>2, SMT
<1>5. a * b = Half * (upper \div 256) + lower BY <1>3, <1>4, HalfIs, SMT
<1>6. lower \in Nat BY <1>1, <1>4, SMT
<1> HIDE DEF lower
<1>7. /\ lower \div Half \in Int /\ lower % Half \in Int
      /\ lower = Half * (lower \div Half) + (lower % Half)
      /\ 0 <= lower % Half /\ lower % Half < Half
  BY <1>6, HalfIs, Division
<1>8. q \in Int BY <1>4, <1>7, SMT
<1>9. a * b = Half * q + (lower % Half) /\ a * b \in Nat BY <1>4, <1>5, <1>7, HalfIs, SMT
<1> HIDE DEF q
<1>10. Word(a * b) = <<q, lower % Half>>
  <2> DEFINE n == a * b
             r == lower % Half
  <2>1. n \in Int /\ q \in Int /\ r \in Int /\ n = Half * q + r /\ 0 <= r /\ r < Half
    BY <1>7, <1>8, <1>9
  <2> HIDE DEF n, r
  <2>2. Word(n) = <<q, r>> BY <2>1, HalfQuotient
  <2> QED BY <2>2 DEF n, r
<1>11. q \in Nat /\ q < Half
  BY <1>7, <1>8, <1>9, HalfIs, SMT
<1>12. q % Half = q BY <1>11, HalfIs, NoQuotient
<1>13. MulU32(a, b) = <<q % Half, lower % Half>> BY DEF MulU32, q, lower, upper
<1> QED BY <1>10, <1>12, <1>13

LEMMA AddIs ==
  ASSUME NEW n \in Nat, NEW m \in Nat, n + m < Half * Half
  PROVE  AddU32(Word(n), m) = Word(n + m)
<1> DEFINE low == (n % Half) + m
           q == n \div Half + low \div Half
<1>1. /\ n \div Half \in Int /\ n % Half \in Int
      /\ n = Half * (n \div Half) + (n % Half) /\ 0 <= n % Half
  BY HalfIs, Division
<1>2. low \in Nat BY <1>1, SMT
<1>3. n + m = Half * (n \div Half) + low BY <1>1, HalfIs, SMT
<1> HIDE DEF low
<1>4. /\ low \div Half \in Int /\ low % Half \in Int
      /\ low = Half * (low \div Half) + (low % Half)
      /\ 0 <= low % Half /\ low % Half < Half
  BY <1>2, HalfIs, Division
<1>5. q \in Int BY <1>1, <1>4, SMT
<1>6. n + m = Half * q + (low % Half) /\ n + m \in Nat BY <1>1, <1>3, <1>4, HalfIs, SMT
<1> HIDE DEF q
<1>7. Word(n + m) = <<q, low % Half>>
  <2> DEFINE s == n + m
             r == low % Half
  <2>1. s \in Int /\ q \in Int /\ r \in Int /\ s = Half * q + r /\ 0 <= r /\ r < Half
    BY <1>4, <1>5, <1>6
  <2> HIDE DEF s, r
  <2>2. Word(s) = <<q, r>> BY <2>1, HalfQuotient
  <2> QED BY <2>2 DEF s, r
<1>8. q \in Nat /\ q < Half BY <1>4, <1>5, <1>6, HalfIs, SMT
<1>9. q % Half = q BY <1>8, HalfIs, NoQuotient
<1>10. AddU32(Word(n), m) = <<q % Half, low % Half>> BY DEF AddU32, Word, q, low
<1> QED BY <1>7, <1>9, <1>10

LEMMA DivIs ==
  ASSUME NEW n \in Nat, NEW d \in Nat, d > 0
  PROVE  DivU32(Word(n), d) = n \div d
<1> DEFINE hi == n \div Half
           lo == n % Half
           b1 == hi \div 256
           b2 == hi % 256
           b3 == lo \div 256
           b4 == lo % 256
           n2 == (b1 % d) * 256 + b2
           n3 == (n2 % d) * 256 + b3
           n4 == (n3 % d) * 256 + b4
           m2 == b1 * 256 + b2
           m3 == m2 * 256 + b3
           m4 == m3 * 256 + b4
<1>1. DivU32(Word(n), d)
        = (((b1 \div d) * 256 + (n2 \div d)) * 256 + (n3 \div d)) * 256 + (n4 \div d)
  BY DEF DivU32, Word
<1>2. hi \in Nat /\ lo \in Nat /\ n = Half * hi + lo
  <2>1. hi \in Int /\ lo \in Int /\ n = Half * hi + lo /\ 0 <= lo /\ lo < Half
    BY HalfIs, Division
  <2> HIDE DEF hi, lo
  <2> QED BY <2>1, HalfIs, SMT
<1> HIDE DEF hi, lo
<1>3. b1 \in Nat /\ b2 \in Nat /\ hi = 256 * b1 + b2 BY <1>2, SMT
<1>4. b3 \in Nat /\ b4 \in Nat /\ lo = 256 * b3 + b4 BY <1>2, SMT
<1> HIDE DEF b1, b2, b3, b4
<1>5. m2 \in Nat /\ m3 \in Nat /\ m4 \in Nat /\ m4 = n BY <1>2, <1>3, <1>4, HalfIs, SMT
<1>6. \A i \in Nat : i % d \in Nat BY Division
<1>7. n2 \in Nat BY <1>3, <1>6
<1> HIDE DEF n2
<1>8. n3 \in Nat BY <1>4, <1>6, <1>7
<1> HIDE DEF n3
<1>9. n4 \in Nat BY <1>4, <1>6, <1>8
<1> HIDE DEF n4, m2, m3, m4
<1>10. m2 \div d = (b1 \div d) * 256 + (n2 \div d) /\ m2 % d = n2 % d
  <2>1. m2 = b1 * 256 + b2 /\ n2 = (b1 % d) * 256 + b2 BY DEF m2, n2
  <2> QED BY <1>3, <1>5, <1>7, <2>1, LongDivision
<1>11. m3 \div d = (m2 \div d) * 256 + (n3 \div d) /\ m3 % d = n3 % d
  <2>1. m3 = m2 * 256 + b3 /\ n3 = (m2 % d) * 256 + b3 BY <1>10 DEF m3, n3
  <2> QED BY <1>4, <1>5, <1>8, <2>1, LongDivision
<1>12. m4 \div d = (m3 \div d) * 256 + (n4 \div d)
  <2>1. m4 = m3 * 256 + b4 /\ n4 = (m3 % d) * 256 + b4 BY <1>11 DEF m4, n4
  <2> QED BY <1>4, <1>5, <1>9, <2>1, LongDivision
<1> QED BY <1>1, <1>5, <1>10, <1>11, <1>12

-----------------------------------------------------------------------------
(* The prescaler: the frequency decides it.                                *)

Clock == 24000000
Second == 1000000000

LEMMA Dividers ==
  /\ Divider(0) = 1 /\ Divider(1) = 120 /\ Divider(2) = 180
  /\ Divider(3) = 240 /\ Divider(4) = 360 /\ Divider(5) = 480
BY DEF Divider, pre_scal

LEMMA FreqIs ==
  ASSUME NEW p \in Int, 42 <= p
  PROVE  /\ freq(p) \in Nat /\ 1 <= freq(p) /\ freq(p) <= 93747
         /\ 10667 <= p /\ p <= Second => freq(p) = Second \div p
         /\ p < 10667 => freq(p) = 93747
BY SMT DEF freq, Second

LEMMA ClocksOf ==
  ASSUME NEW f \in Nat, 1 <= f, f <= 93747
  PROVE  /\ Clock \div f \in Nat /\ 256 <= Clock \div f
         /\ f >= 367 => Clock \div f <= 65395
         /\ 4 <= f /\ f <= 366 => 65573 <= Clock \div f /\ Clock \div f <= 6000000
         /\ f = 3 => Clock \div f = 8000000
         /\ f = 2 => Clock \div f = 12000000
         /\ f = 1 => Clock \div f = Clock
BY SMT DEF Clock

(* The loop stops at the first entry that fits.                            *)
LEMMA FirstFit ==
  ASSUME NEW p, NEW i \in 0 .. 10, Fits(EntireCycles(i, p)),
         \A j \in 0 .. 10 : j < i => ~Fits(EntireCycles(j, p))
  PROVE  pre_scal_id(p) = i
<1> DEFINE fit == {j \in 0 .. 10 : Fits(EntireCycles(j, p))}
<1>1. i \in fit /\ \A j \in fit : i <= j BY SMT
<1>2. \A j \in fit : (\A l \in fit : j <= l) => j = i BY <1>1, SMT
<1> HIDE DEF fit
<1>3. (CHOOSE j \in fit : \A l \in fit : j <= l) = i BY <1>1, <1>2
<1> QED BY <1>1, <1>3 DEF pre_scal_id, fit

LEMMA EntireIs ==
  ASSUME NEW i, NEW p
  PROVE  EntireCycles(i, p) = (Clock \div freq(p)) \div Divider(i)
BY DEF EntireCycles, Clock

(* Which entry that is.                                                    *)
LEMMA PrescalerIs ==
  ASSUME NEW p \in Int, 42 <= p
  PROVE  /\ freq(p) >= 367 =>
              /\ pre_scal_id(p) = 0 /\ entire_cycles(p) = Clock \div freq(p)
              /\ 256 <= entire_cycles(p) /\ entire_cycles(p) <= 65395
         /\ 4 <= freq(p) /\ freq(p) <= 366 =>
              /\ pre_scal_id(p) = 1 /\ entire_cycles(p) = (Clock \div freq(p)) \div 120
              /\ 546 <= entire_cycles(p) /\ entire_cycles(p) <= 50000
         /\ freq(p) = 3 => pre_scal_id(p) = 2 /\ entire_cycles(p) = 44444
         /\ freq(p) = 2 => pre_scal_id(p) = 3 /\ entire_cycles(p) = 50000
         /\ freq(p) = 1 => pre_scal_id(p) = 5 /\ entire_cycles(p) = 50000
<1> DEFINE f == freq(p)
           c == Clock \div f
<1>1. f \in Nat /\ 1 <= f /\ f <= 93747 BY FreqIs
<1>2. \A i : EntireCycles(i, p) = c \div Divider(i) BY EntireIs
<1>3. entire_cycles(p) = c \div Divider(pre_scal_id(p)) BY <1>2 DEF entire_cycles
<1> HIDE DEF f
<1>4. c \in Nat /\ 256 <= c BY <1>1, ClocksOf
<1>5. ASSUME f >= 367 PROVE c <= 65395 BY <1>1, <1>5, ClocksOf
<1>6. ASSUME 4 <= f, f <= 366 PROVE 65573 <= c /\ c <= 6000000 BY <1>1, <1>6, ClocksOf
<1>7. ASSUME f = 3 PROVE c = 8000000 BY <1>1, <1>7, ClocksOf
<1>8. ASSUME f = 2 PROVE c = 12000000 BY <1>1, <1>8, ClocksOf
<1>9. ASSUME f = 1 PROVE c = 24000000 BY <1>1, <1>9, ClocksOf DEF Clock
<1> HIDE DEF c
<1>10. \A i \in 0 .. 10 :
         c \div Divider(i) <= 65536 /\ (\A j \in 0 .. 10 : j < i => ~(c \div Divider(j) <= 65536))
           => pre_scal_id(p) = i
  BY <1>2, FirstFit DEF Fits
<1>11. c \div 1 = c BY <1>4, SMT
<1>12. ASSUME f >= 367
       PROVE  pre_scal_id(p) = 0 /\ entire_cycles(p) = c
  <2>1. c \div Divider(0) <= 65536 BY <1>4, <1>5, <1>11, <1>12, Dividers, SMT
  <2>2. pre_scal_id(p) = 0 BY <1>10, <2>1, SMT
  <2> QED BY <1>3, <1>11, <2>2, Dividers
<1>13. ASSUME 4 <= f, f <= 366
       PROVE  pre_scal_id(p) = 1 /\ entire_cycles(p) = c \div 120
  <2>1. c \div Divider(1) <= 65536 /\ c \div Divider(0) > 65536
    BY <1>4, <1>6, <1>11, <1>13, Dividers, SMT
  <2>2. \A j \in 0 .. 10 : j < 1 => j = 0 BY SMT
  <2>3. pre_scal_id(p) = 1 BY <1>4, <1>10, <1>11, <2>1, <2>2, Dividers, SMT
  <2> QED BY <1>3, <2>3, Dividers
<1>14. ASSUME f = 3
       PROVE  pre_scal_id(p) = 2 /\ entire_cycles(p) = 44444
  <2>1. c \div Divider(2) = 44444 /\ c \div Divider(1) > 65536 /\ c \div Divider(0) > 65536
    BY <1>7, <1>11, <1>14, Dividers, SMT
  <2>2. \A j \in 0 .. 10 : j < 2 => j \in {0, 1} BY SMT
  <2>3. pre_scal_id(p) = 2 BY <1>7, <1>14, <1>10, <2>1, <2>2, Dividers, SMT
  <2> QED BY <1>3, <2>1, <2>3
<1>15. ASSUME f = 2
       PROVE  pre_scal_id(p) = 3 /\ entire_cycles(p) = 50000
  <2>1. /\ c \div Divider(3) = 50000 /\ c \div Divider(2) > 65536
        /\ c \div Divider(1) > 65536 /\ c \div Divider(0) > 65536
    BY <1>8, <1>11, <1>15, Dividers, SMT
  <2>2. \A j \in 0 .. 10 : j < 3 => j \in {0, 1, 2} BY SMT
  <2>3. pre_scal_id(p) = 3 BY <1>8, <1>15, <1>10, <2>1, <2>2, Dividers, SMT
  <2> QED BY <1>3, <2>1, <2>3
<1>16. ASSUME f = 1
       PROVE  pre_scal_id(p) = 5 /\ entire_cycles(p) = 50000
  <2>1. /\ c \div Divider(5) = 50000 /\ c \div Divider(4) > 65536 /\ c \div Divider(3) > 65536
        /\ c \div Divider(2) > 65536 /\ c \div Divider(1) > 65536 /\ c \div Divider(0) > 65536
    BY <1>9, <1>11, <1>16, Dividers, SMT
  <2>2. \A j \in 0 .. 10 : j < 5 => j \in {0, 1, 2, 3, 4} BY SMT
  <2>3. pre_scal_id(p) = 5 BY <1>9, <1>16, <1>10, <2>1, <2>2, Dividers, SMT
  <2> QED BY <1>3, <2>1, <2>3
<1>17. ASSUME 4 <= f, f <= 366 PROVE 546 <= c \div 120 /\ c \div 120 <= 50000
  BY <1>4, <1>6, <1>17, SMT
<1> QED
  BY <1>4, <1>5, <1>12, <1>13, <1>14, <1>15, <1>16, <1>17 DEF f, c

-----------------------------------------------------------------------------
(* The active cycles, where the product of duty and cycle is 32 bits long. *)

(* Up to 423 microseconds it is; from 500 microseconds duty and period are *)
(* scaled down before they are multiplied, which is enough up to 859 ms.   *)
InWord(p) == (42 <= p /\ p <= 423011) \/ (500000 <= p /\ p <= 858989999)

Share(d, p) == (d \div Scale(p)) * entire_cycles(p) + (p \div 2) \div Scale(p)

LEMMA ScaleIs ==
  ASSUME NEW p \in Int, InWord(p)
  PROVE  /\ p <= 423011 => Scale(p) = 1
         /\ 423011 < p /\ p < 6553500 => Scale(p) = 100 /\ 500000 <= p
         /\ 6553500 <= p => Scale(p) = 10000
BY SMT DEF Scale, InWord

LEMMA EntireBounds ==
  ASSUME NEW p \in Int, 42 <= p
  PROVE  /\ entire_cycles(p) \in Nat /\ 256 <= entire_cycles(p) /\ entire_cycles(p) <= 65395
         /\ p <= 423011 => entire_cycles(p) <= 10152
         /\ 6553500 <= p => entire_cycles(p) <= 50000
         /\ pre_scal_id(p) \in 0 .. 10
<1> DEFINE f == freq(p)
           e == entire_cycles(p)
<1>1. /\ f \in Nat /\ 1 <= f /\ f <= 93747
      /\ 10667 <= p /\ p <= Second => f = Second \div p
      /\ p < 10667 => f = 93747
  BY FreqIs
<1>2. /\ f >= 367 => e = Clock \div f /\ 256 <= e /\ e <= 65395 /\ pre_scal_id(p) = 0
      /\ 4 <= f /\ f <= 366 =>
           e = (Clock \div f) \div 120 /\ 546 <= e /\ e <= 50000 /\ pre_scal_id(p) = 1
      /\ f = 3 => e = 44444 /\ pre_scal_id(p) = 2
      /\ f = 2 => e = 50000 /\ pre_scal_id(p) = 3
      /\ f = 1 => e = 50000 /\ pre_scal_id(p) = 5
  BY PrescalerIs
<1> HIDE DEF f, e
<1>3. f >= 367 \/ (4 <= f /\ f <= 366) \/ f = 3 \/ f = 2 \/ f = 1 BY <1>1, SMT
<1>4. Clock \div f \in Nat BY <1>1, ClocksOf
<1>5. e \in Nat /\ 256 <= e /\ e <= 65395 /\ pre_scal_id(p) \in 0 .. 10
  BY <1>2, <1>3, <1>4, SMT
<1>6. ASSUME p <= 423011 PROVE e <= 10152
  <2>1. f >= 2364
    <3>1. CASE p < 10667 BY <1>1, <3>1, SMT
    <3>2. CASE 10667 <= p
      <4>1. p <= Second BY <1>6, SMT DEF Second
      <4>2. f = Second \div p BY <1>1, <3>2, <4>1
      <4>3. f = 1000000000 \div p BY <4>2 DEF Second
      <4> QED BY <1>6, <3>2, <4>3, SMT
    <3> QED BY <3>1, <3>2, SMT
  <2>2. e = Clock \div f BY <1>1, <1>2, <2>1, SMT
  <2>3. e = 24000000 \div f BY <2>2 DEF Clock
  <2> QED BY <1>1, <2>1, <2>3, SMT
<1>7. ASSUME 6553500 <= p PROVE e <= 50000
  <2>1. f <= 366
    <3>1. CASE p <= Second
      <4>1. f = Second \div p BY <1>1, <1>7, <3>1, SMT
      <4>2. f = 1000000000 \div p BY <4>1 DEF Second
      <4> QED BY <1>7, <4>2, SMT
    <3>2. CASE ~(p <= Second) BY <3>2, SMT DEF f, freq, Second
    <3> QED BY <3>1, <3>2
  <2> QED BY <1>1, <1>2, <1>3, <2>1, SMT
<1> QED BY <1>5, <1>6, <1>7 DEF e

(* Duty and period as the code scales them.                                *)
LEMMA ScaleCases ==
  ASSUME NEW p \in Int, InWord(p)
  PROVE  /\ p \in Nat /\ p >= 42
         /\ \/ p <= 423011 /\ Scale(p) = 1
            \/ 423011 < p /\ p < 6553500 /\ Scale(p) = 100 /\ 500000 <= p
            \/ 6553500 <= p /\ p <= 858989999 /\ Scale(p) = 10000
BY ScaleIs, SMT DEF InWord

LEMMA Scaled ==
  ASSUME NEW p \in Int, InWord(p), NEW d \in Nat, d <= p
  PROVE  /\ d \div Scale(p) \in Nat /\ d \div Scale(p) <= p \div Scale(p)
         /\ p \div Scale(p) \in Nat /\ p \div Scale(p) >= 1
         /\ (p \div 2) \div Scale(p) \in Nat
         /\ (p \div 2) \div Scale(p) < p \div Scale(p)
<1>1. CASE p <= 423011
  <2>1. Scale(p) = 1 /\ p \in Nat /\ p >= 42 BY <1>1, ScaleCases, SMT
  <2>2. \A x \in Int : x \div 1 = x BY SMT
  <2> QED BY <1>1, <2>1, <2>2, SMT
<1>2. CASE 423011 < p /\ p < 6553500
  <2>1. Scale(p) = 100 /\ p >= 500000 BY <1>2, ScaleCases, SMT
  <2> QED BY <2>1, SMT
<1>3. CASE 6553500 <= p
  <2>1. Scale(p) = 10000 BY <1>3, ScaleCases, SMT
  <2> QED BY <1>3, <2>1, SMT
<1> QED BY <1>1, <1>2, <1>3, SMT

LEMMA ScaledBounds ==
  ASSUME NEW p \in Int, InWord(p), NEW d \in Nat, d <= p
  PROVE  /\ p <= 423011 => d \div Scale(p) <= 423011 /\ (p \div 2) \div Scale(p) <= 211505
         /\ 423011 < p /\ p < 6553500 =>
              d \div Scale(p) <= 65534 /\ (p \div 2) \div Scale(p) <= 32767
         /\ 6553500 <= p => d \div Scale(p) <= 85898 /\ (p \div 2) \div Scale(p) <= 42949
<1>1. CASE p <= 423011
  <2>1. Scale(p) = 1 /\ p \in Nat BY <1>1, ScaleCases, SMT
  <2>2. \A x \in Int : x \div 1 = x BY SMT
  <2> QED BY <1>1, <2>1, <2>2, SMT
<1>2. CASE 423011 < p /\ p < 6553500
  <2>1. Scale(p) = 100 BY <1>2, ScaleCases, SMT
  <2> QED BY <1>2, <2>1, SMT
<1>3. CASE 6553500 <= p
  <2>1. Scale(p) = 10000 /\ p <= 858989999 BY <1>3, ScaleCases, SMT
  <2> QED BY <1>3, <2>1, SMT
<1> QED BY <1>1, <1>2, <1>3, SMT

LEMMA ShareFits ==
  ASSUME NEW p \in Int, InWord(p), NEW d \in Nat, d <= p
  PROVE  /\ (d \div Scale(p)) * entire_cycles(p) \in Nat /\ Share(d, p) \in Nat
         /\ Share(d, p) < Half * Half
<1> DEFINE x == d \div Scale(p)
           h == (p \div 2) \div Scale(p)
           e == entire_cycles(p)
<1>0. x \in Nat /\ h \in Nat BY Scaled
<1>1. /\ p <= 423011 => x <= 423011 /\ h <= 211505
      /\ 423011 < p /\ p < 6553500 => x <= 65534 /\ h <= 32767
      /\ 6553500 <= p => x <= 85898 /\ h <= 42949
  BY ScaledBounds, SMT
<1>2. /\ p <= 423011 => e <= 10152
      /\ 6553500 <= p => e <= 50000
  BY EntireBounds, SMT DEF InWord
<1>3. e \in Nat /\ e <= 65395
  BY EntireBounds, SMT DEF InWord
<1>4. Share(d, p) = x * e + h BY DEF Share
<1> HIDE DEF x, h, e
<1>5. Half * Half = 4294967296 BY SMT DEF Half
<1>6. \A m \in Nat : x <= m => x * e <= m * e BY <1>0, <1>1, <1>3, SMT
<1>7. x * e + h < 4294967296
  <2>1. CASE p <= 423011
    <3>1. x * e <= 423011 * e /\ h <= 211505 BY <1>0, <1>1, <1>6, <2>1, SMT
    <3>2. e <= 10152 BY <1>2, <1>3, <2>1, SMT
    <3> QED BY <1>0, <1>1, <1>3, <3>1, <3>2, SMT
  <2>2. CASE 423011 < p /\ p < 6553500
    <3>1. x * e <= 65534 * e /\ h <= 32767 BY <1>0, <1>1, <1>6, <2>2, SMT
    <3> QED BY <1>0, <1>1, <1>3, <3>1, SMT
  <2>3. CASE 6553500 <= p
    <3>1. x * e <= 85898 * e /\ h <= 42949 BY <1>0, <1>1, <1>6, <2>3, SMT
    <3>2. e <= 50000 BY <1>2, <2>3
    <3> QED BY <1>0, <1>1, <1>3, <3>1, <3>2, SMT
  <2> QED BY <2>1, <2>2, <2>3, SMT
<1>8. x * e \in Nat /\ x * e + h \in Nat BY <1>0, <1>1, <1>3, SMT
<1> QED BY <1>4, <1>5, <1>7, <1>8 DEF x, e

(* Then the active cycles are what they would be in longer words.          *)
LEMMA ActiveIs ==
  ASSUME NEW p \in Int, InWord(p), NEW d \in Nat, d <= p
  PROVE  active_cycles(d, p) = Share(d, p) \div (p \div Scale(p))
<1> DEFINE x == d \div Scale(p)
           h == (p \div 2) \div Scale(p)
           y == p \div Scale(p)
           e == entire_cycles(p)
<1>1. x \in Nat /\ h \in Nat /\ y \in Nat /\ y >= 1
  BY Scaled
<1>2. e \in Nat BY EntireBounds, SMT DEF InWord
<1>3. x * e \in Nat /\ Share(d, p) = x * e + h /\ x * e + h < Half * Half
  BY ShareFits DEF Share
<1>4. active_cycles(d, p) = DivU32(AddU32(MulU32(x, e), h), y) BY DEF active_cycles
<1> HIDE DEF x, h, y, e
<1>5. x * e < Half * Half BY <1>1, <1>3, HalfIs, SMT
<1>6. MulU32(x, e) = Word(x * e) BY <1>1, <1>2, <1>5, MulIs
<1> DEFINE n == x * e
<1>7. n \in Nat /\ n + h < Half * Half BY <1>3
<1> HIDE DEF n
<1>8. AddU32(Word(n), h) = Word(n + h) BY <1>1, <1>7, AddIs
<1>9. n + h \in Nat BY <1>1, <1>7, SMT
<1>10. DivU32(Word(n + h), y) = (n + h) \div y BY <1>1, <1>9, DivIs
<1>11. active_cycles(d, p) = (n + h) \div y BY <1>4, <1>6, <1>8, <1>10 DEF n
<1>12. Share(d, p) = n + h BY <1>3 DEF n
<1> QED BY <1>11, <1>12 DEF y

(* The active cycles never exceed the cycle, and grow with the duty.       *)
LEMMA ActiveBounds ==
  ASSUME NEW p \in Int, InWord(p), NEW d \in Nat, d <= p
  PROVE  active_cycles(d, p) \in Nat /\ active_cycles(d, p) <= entire_cycles(p)
<1> DEFINE x == d \div Scale(p)
           h == (p \div 2) \div Scale(p)
           y == p \div Scale(p)
           e == entire_cycles(p)
           n == Share(d, p)
           m == y * e + h
<1>1. x \in Nat /\ h \in Nat /\ y \in Nat /\ y >= 1 /\ x <= y /\ h < y BY Scaled
<1>2. e \in Nat BY EntireBounds, SMT DEF InWord
<1>3. n = x * e + h /\ n \in Nat BY ShareFits DEF Share
<1>4. active_cycles(d, p) = n \div y BY ActiveIs
<1> HIDE DEF x, h, y, e, n
<1>5. n <= m /\ m \in Int BY <1>1, <1>2, <1>3, SMT
<1>6. m \div y = e BY <1>1, <1>2, Quotient
<1> HIDE DEF m
<1>7. n \div y <= e BY <1>1, <1>3, <1>5, <1>6, QuotientMonotone
<1>8. n \div y \in Nat BY <1>1, <1>3, SMT
<1> QED BY <1>4, <1>7, <1>8 DEF e

LEMMA ActiveMonotone ==
  ASSUME NEW p \in Int, InWord(p), NEW c \in Nat, NEW d \in Nat, c <= d, d <= p
  PROVE  active_cycles(c, p) <= active_cycles(d, p)
<1> DEFINE s == Scale(p)
           e == entire_cycles(p)
           h == (p \div 2) \div Scale(p)
<1>1. c <= p BY SMT
<1>2. s \in Nat /\ s >= 1 BY ScaleCases, SMT
<1>3. e \in Nat BY EntireBounds, SMT DEF InWord
<1>4. c \div s \in Nat /\ d \div s \in Nat /\ h \in Nat /\ p \div s \in Nat /\ p \div s >= 1
  BY <1>1, Scaled
<1>5. Share(c, p) = (c \div s) * e + h /\ Share(d, p) = (d \div s) * e + h BY DEF Share
<1>6. active_cycles(c, p) = Share(c, p) \div (p \div s) BY <1>1, ActiveIs
<1>7. active_cycles(d, p) = Share(d, p) \div (p \div s) BY ActiveIs
<1>8. Share(c, p) \in Nat /\ Share(d, p) \in Nat BY <1>1, ShareFits
<1> HIDE DEF s, e, h
<1>9. c \div s <= d \div s BY <1>2, QuotientMonotone
<1> DEFINE x == c \div s
           y == d \div s
<1>10. x \in Nat /\ y \in Nat /\ x <= y BY <1>4, <1>9
<1> HIDE DEF x, y
<1>11. x * e + h <= y * e + h BY <1>3, <1>4, <1>10, SMT
<1>12. Share(c, p) <= Share(d, p) BY <1>5, <1>11 DEF x, y
<1> DEFINE m == Share(c, p)
           n == Share(d, p)
           z == p \div s
<1>13. m \in Nat /\ n \in Nat /\ m <= n /\ z \in Nat /\ z > 0 BY <1>4, <1>8, <1>12, SMT
<1> HIDE DEF m, n, z
<1>14. m \div z <= n \div z BY <1>13, QuotientMonotone
<1> QED BY <1>6, <1>7, <1>14 DEF m, n, z

(* A full duty is the whole cycle, a zero duty no pulse.                   *)
LEMMA ActiveEnds ==
  ASSUME NEW p \in Int, InWord(p)
  PROVE  active_cycles(p, p) = entire_cycles(p) /\ active_cycles(0, p) = 0
<1> DEFINE h == (p \div 2) \div Scale(p)
           y == p \div Scale(p)
           e == entire_cycles(p)
<1>1. p \in Nat /\ 0 \in Nat /\ 0 <= p /\ p <= p BY ScaleCases, SMT
<1>2. Scale(p) \in Nat /\ Scale(p) >= 1 BY ScaleCases, SMT
<1>3. h \in Nat /\ y \in Nat /\ y >= 1 /\ h < y BY <1>1, Scaled
<1>4. e \in Nat BY EntireBounds, SMT DEF InWord
<1>5. 0 \div Scale(p) = 0 BY <1>2, SMT
<1>6. Share(p, p) = y * e + h /\ Share(0, p) = 0 * e + h BY <1>5 DEF Share
<1>7. active_cycles(p, p) = Share(p, p) \div y /\ active_cycles(0, p) = Share(0, p) \div y
  BY <1>1, ActiveIs
<1> HIDE DEF h, y, e
<1>8. Share(0, p) = h BY <1>3, <1>4, <1>6, SMT
<1>9. h \div y = 0 BY <1>3, NoQuotient
<1>10. Share(p, p) \in Int BY <1>3, <1>4, <1>6, SMT
<1>11. Share(p, p) \div y = e BY <1>3, <1>4, <1>6, <1>10, Quotient
<1> QED BY <1>7, <1>8, <1>9, <1>11 DEF e

-----------------------------------------------------------------------------
(* The inputs of a behaviour.                                              *)

Tried == at \in 1 .. Len(Periods) /\ k \in 0 .. DutySteps

LEMMA PeriodsTyped ==
  /\ DutySteps \in Nat /\ DutySteps > 0 /\ Len(Periods) \in Nat /\ Len(Periods) >= 1
  /\ \A i \in 1 .. Len(Periods) : Periods[i] \in Int /\ 42 <= Periods[i]
<1> DEFINE S == 42 .. MaxInt
<1>1. Len(Periods) \in Nat /\ Len(Periods) >= 1 /\ DOMAIN Periods = 1 .. Len(Periods)
  BY ConfigAssumption
<1>2. DutySteps \in Nat /\ DutySteps > 0 BY ConfigAssumption
<1>3. \A x \in S : x \in Int /\ 42 <= x BY SMT
<1>4. Periods \in Seq(S) BY ConfigAssumption
<1> HIDE DEF S
<1>5. \A i \in 1 .. Len(Periods) : Periods[i] \in S BY <1>4
<1> QED BY <1>1, <1>2, <1>3, <1>5

LEMMA TriedAlways == Spec => []Tried
<1>1. Init => Tried BY PeriodsTyped DEF Init, Tried
<1>2. Tried /\ [Next]_vars => Tried'
  BY PeriodsTyped DEF Tried, Next, MoreDuty, NextPeriod, vars
<1> QED BY <1>1, <1>2, PTL DEF Spec

LEMMA PeriodTyped == ASSUME Tried PROVE period \in Int /\ 42 <= period
BY PeriodsTyped DEF Tried, period

LEMMA DutyFacts ==
  ASSUME Tried
  PROVE  /\ \A j \in 0 .. DutySteps : duty(j) \in Nat /\ duty(j) <= period
         /\ duty(0) = 0 /\ duty(DutySteps) = period
         /\ k > 0 => duty(k - 1) <= duty(k)
<1> DEFINE p == period
           n == DutySteps
           part == p \div n
<1>1. n \in Nat /\ n > 0 /\ p \in Nat BY PeriodTyped, PeriodsTyped
<1>2. p = n * part + (p % n) /\ part \in Int /\ p % n \in Int /\ 0 <= p % n BY <1>1, Division
<1>3. \A j : duty(j) = IF j = n THEN p ELSE part * j BY DEF duty
<1>4. k \in 0 .. n BY DEF Tried
<1> HIDE DEF p, n
<1>5. part \in Nat BY <1>1, SMT
<1> HIDE DEF part
<1>6. \A j \in 0 .. n : part * j \in Nat /\ part * j <= part * n BY <1>1, <1>5, SMT
<1>7. part * n <= p BY <1>1, <1>2, <1>5, SMT
<1>8. ASSUME NEW j \in 0 .. n PROVE duty(j) \in Nat /\ duty(j) <= p
  BY <1>1, <1>3, <1>6, <1>7, SMT
<1>9. duty(0) = 0 /\ duty(n) = p
  <2>1. part * 0 = 0 /\ 0 # n BY <1>1, <1>5, SMT
  <2> QED BY <1>3, <2>1
<1>10. ASSUME k > 0 PROVE duty(k - 1) <= duty(k)
  <2>1. k - 1 \in 0 .. n /\ k - 1 # n BY <1>1, <1>4, <1>10, SMT
  <2>2. CASE k = n BY <1>8, <1>9, <2>1, <2>2
  <2>3. CASE k # n
    <3>1. duty(k - 1) = part * (k - 1) /\ duty(k) = part * k BY <1>3, <2>1, <2>3
    <3>2. part * (k - 1) <= part * k BY <1>1, <1>4, <1>5, SMT
    <3> QED BY <3>1, <3>2
  <2> QED BY <2>2, <2>3
<1> QED BY <1>8, <1>9, <1>10 DEF p, n

-----------------------------------------------------------------------------
(* The results.                                                            *)

(* The prescaler loop of sunxi_pwm_config never runs off its table, and    *)
(* the cycle it chooses fits the register field, for every period that is  *)
(* not bypassed (pwm-sunxi.c:122-138).                                     *)
CycleFits == pre_scal_id(period) \in 0 .. 10 /\ entire_cycles(period) \in 1 .. Half

THEOREM CycleAlwaysFits == Spec => []CycleFits
<1>1. Tried => CycleFits
  <2> SUFFICES ASSUME Tried PROVE CycleFits OBVIOUS
  <2>1. period \in Int /\ 42 <= period BY PeriodTyped
  <2> DEFINE p == period
             e == entire_cycles(p)
  <2>2. e \in Nat /\ 256 <= e /\ e <= 65395 BY <2>1, EntireBounds, SMT
  <2>3. pre_scal_id(p) \in 0 .. 10 BY <2>1, EntireBounds
  <2> HIDE DEF e
  <2>4. e \in 1 .. Half BY <2>2, HalfWidth, SMT
  <2> QED BY <2>3, <2>4 DEF e, CycleFits
<1> QED BY <1>1, TriedAlways, PTL

(* The periods whose product with the cycle fits 32 bits; what the code    *)
(* does with the others is the finding of the README.                      *)
PeriodsFit == \A i \in 1 .. Len(Periods) : InWord(Periods[i])

LEMMA PeriodFits == ASSUME PeriodsFit, Tried PROVE InWord(period) /\ period \in Int
BY PeriodTyped DEF PeriodsFit, Tried, period

(* Then both halves of the period register hold what is shifted into them  *)
(* (pwm-sunxi.c:154): the active part is no longer than the cycle.         *)
THEOREM FieldsAlwaysFit == ASSUME PeriodsFit PROVE Spec => []FieldsFit
<1>1. Tried /\ CycleFits => FieldsFit
  <2> SUFFICES ASSUME Tried, CycleFits PROVE active_cycles(duty(k), period) \in 0 .. Half - 1
    BY DEF CycleFits, FieldsFit
  <2> DEFINE a == active_cycles(duty(k), period)
             e == entire_cycles(period)
  <2>1. InWord(period) /\ period \in Int /\ 42 <= period BY PeriodFits, PeriodTyped, PeriodsFit
  <2>2. duty(k) \in Nat /\ duty(k) <= period BY DutyFacts DEF Tried
  <2>3. a \in Nat /\ a <= e BY <2>1, <2>2, ActiveBounds
  <2>4. e \in Nat /\ e <= 65395 BY <2>1, EntireBounds, SMT
  <2> HIDE DEF a, e
  <2>5. a \in 0 .. Half - 1 BY <2>3, <2>4, HalfWidth, SMT
  <2> QED BY <2>5 DEF a
<1> QED BY <1>1, CycleAlwaysFits, TriedAlways, PTL

(* More duty never gives a shorter pulse, however duty and period are      *)
(* rounded when they are scaled (pwm-sunxi.c:140-145).                     *)
THEOREM MoreDutyNeverShorter == ASSUME PeriodsFit PROVE Spec => []DutyMonotone
<1>1. Tried => DutyMonotone
  <2> SUFFICES ASSUME Tried, k > 0
               PROVE  active_cycles(duty(k - 1), period) <= active_cycles(duty(k), period)
    BY DEF DutyMonotone
  <2>1. InWord(period) /\ period \in Int BY PeriodFits, PeriodsFit
  <2>2. k \in 0 .. DutySteps /\ k - 1 \in 0 .. DutySteps BY PeriodsTyped DEF Tried
  <2>3. /\ duty(k - 1) \in Nat /\ duty(k) \in Nat
        /\ duty(k - 1) <= duty(k) /\ duty(k) <= period
    BY <2>2, DutyFacts
  <2> QED BY <2>1, <2>3, ActiveMonotone
<1> QED BY <1>1, TriedAlways, PTL

-----------------------------------------------------------------------------
(* The duty and the cycle that come out, against those asked for.          *)

LEMMA ProductIs ==
  ASSUME NEW a \in Nat, NEW b \in Nat
  PROVE  Product(a, b) = Word(a * b)
<1> DEFINE hi == a \div Half
           lo == a % Half
           middle == lo * (b \div 256)
           lower == lo * (b % 256) + (middle % 256) * 256
           q == hi * b + middle \div 256 + lower \div Half
           r == lower % Half
           n == a * b
<1>1. Product(a, b) = <<q, r>> BY DEF Product
<1>2. hi \in Int /\ lo \in Int /\ a = Half * hi + lo /\ 0 <= lo BY HalfIs, Division
<1> HIDE DEF hi, lo
<1>3. b = 256 * (b \div 256) + (b % 256) /\ b \div 256 \in Nat /\ b % 256 \in Nat BY SMT
<1>4. middle \in Nat /\ lo \in Nat BY <1>2, <1>3, SMT
<1>5. lo * b = 256 * middle + lo * (b % 256)
  <2>1. lo * b = lo * (256 * (b \div 256) + (b % 256)) BY <1>3
  <2> QED BY <1>3, <1>4, <2>1, SMT
<1> HIDE DEF middle
<1>6. /\ middle = 256 * (middle \div 256) + (middle % 256)
      /\ middle \div 256 \in Nat /\ middle % 256 \in Nat
  BY <1>4, SMT
<1>7. lo * b = Half * (middle \div 256) + lower
  <2> DEFINE x == lo * b
             y == lo * (b % 256)
  <2>1. x = 256 * middle + y /\ lower = y + (middle % 256) * 256 /\ y \in Int
    BY <1>3, <1>4, <1>5
  <2> HIDE DEF x, y, lower
  <2>2. x = 256 * (256 * (middle \div 256) + (middle % 256)) + y BY <1>6, <2>1
  <2> QED BY <1>6, <2>1, <2>2, SMT DEF Half, x
<1>8. lower \in Nat BY <1>3, <1>4, <1>6, SMT
<1> HIDE DEF lower
<1>9. /\ lower \div Half \in Int /\ r \in Int /\ 0 <= r /\ r < Half
      /\ lower = Half * (lower \div Half) + r
  BY <1>8, HalfIs, Division
<1> HIDE DEF r
<1>10. n = Half * (hi * b) + lo * b BY <1>2, HalfIs, SMT
<1>11. hi * b \in Int /\ n \in Int BY <1>2, SMT
<1>12. q \in Int /\ n = Half * q + r
  <2> DEFINE x == hi * b
             y == lo * b
  <2>1. x \in Int /\ n = Half * x + y /\ y = Half * (middle \div 256) + lower
    BY <1>7, <1>10, <1>11
  <2>2. q = x + middle \div 256 + lower \div Half OBVIOUS
  <2> HIDE DEF x, y, n, q
  <2> QED BY <1>6, <1>8, <1>9, <2>1, <2>2, HalfIs, SMT
<1> HIDE DEF q, n
<1>13. Word(n) = <<q, r>> BY <1>9, <1>11, <1>12, HalfQuotient
<1> QED BY <1>1, <1>13 DEF n

LEMMA AtMostIs ==
  ASSUME NEW m \in Nat, NEW n \in Nat, m <= n
  PROVE  AtMost(Word(m), Word(n))
<1> DEFINE p == m \div Half
           q == m % Half
           r == n \div Half
           t == n % Half
<1>1. p \in Int /\ q \in Int /\ m = Half * p + q /\ 0 <= q /\ q < Half BY HalfIs, Division
<1>2. r \in Int /\ t \in Int /\ n = Half * r + t /\ 0 <= t /\ t < Half BY HalfIs, Division
<1>3. AtMost(Word(m), Word(n)) <=> p < r \/ (p = r /\ q <= t) BY DEF AtMost, Word
<1>4. p <= r BY HalfIs, QuotientMonotone
<1> HIDE DEF p, q, r, t
<1>5. p = r => q <= t BY <1>1, <1>2, HalfIs, SMT
<1> QED BY <1>1, <1>2, <1>3, <1>4, <1>5, SMT

(* What is lost by scaling the duty down is within one percent.            *)
LEMMA ScalingLoss ==
  ASSUME NEW p \in Int, InWord(p)
  PROVE  /\ entire_cycles(p) \div 100 \in Nat
         /\ (Scale(p) - 1) * entire_cycles(p) <= p * (entire_cycles(p) \div 100)
<1> DEFINE e == entire_cycles(p)
           s == Scale(p)
           g == e \div 100
<1>1. e \in Nat /\ 256 <= e BY EntireBounds, SMT DEF InWord
<1>2. s \in Nat /\ s >= 1 /\ p \in Nat /\ (s - 1) * 150 <= p
  <2>1. CASE p <= 423011
    <3>1. s = 1 /\ p \in Nat BY <2>1, ScaleCases, SMT
    <3> QED BY <3>1, SMT
  <2>2. CASE 423011 < p /\ p < 6553500
    <3>1. s = 100 /\ p >= 500000 BY <2>2, ScaleCases, SMT
    <3> QED BY <3>1, SMT
  <2>3. CASE 6553500 <= p
    <3>1. s = 10000 BY <2>3, ScaleCases, SMT
    <3> QED BY <2>3, <3>1, SMT
  <2> QED BY <2>1, <2>2, <2>3, SMT
<1> HIDE DEF e, s
<1>3. g \in Nat /\ e <= 150 * g BY <1>1, SMT
<1> HIDE DEF g
<1>4. (s - 1) * e <= (s - 1) * (150 * g) BY <1>1, <1>2, <1>3, SMT
<1>5. ((s - 1) * 150) * g <= p * g BY <1>2, <1>3, SMT
<1>6. (s - 1) * (150 * g) = ((s - 1) * 150) * g BY <1>2, <1>3, SMT
<1>7. (s - 1) * e \in Int /\ (s - 1) * (150 * g) \in Int /\ p * g \in Int BY <1>1, <1>2, <1>3, SMT
<1>8. (s - 1) * e <= p * g BY <1>4, <1>5, <1>6, <1>7
<1> QED BY <1>3, <1>8 DEF g, e, s

LEMMA DutyClose ==
  ASSUME NEW p \in Int, InWord(p), NEW d \in Nat, d <= p
  PROVE  LET a == active_cycles(d, p)
             e == entire_cycles(p)
             slack == 1 + e \div 100
         IN  d * e <= p * (a + slack) /\ (a >= slack => p * (a - slack) <= d * e)
<1> DEFINE a == active_cycles(d, p)
           e == entire_cycles(p)
           g == e \div 100
           s == Scale(p)
           x == d \div s
           y == p \div s
           h == (p \div 2) \div s
           n == Share(d, p)
           r == n % y
<1>1. x \in Nat /\ y \in Nat /\ y >= 1 /\ h \in Nat BY Scaled
<1>2. s \in Nat /\ s >= 1 /\ p \in Nat /\ p \div 2 \in Nat /\ 2 * (p \div 2) <= p BY ScaleCases, SMT
<1>3. e \in Nat BY EntireBounds, SMT DEF InWord
<1>4. n \in Nat /\ n = x * e + h BY ShareFits DEF Share
<1>5. a = n \div y BY ActiveIs
<1>6. a \in Nat /\ a <= e BY ActiveBounds
<1>7. g \in Nat /\ (s - 1) * e <= p * g BY ScalingLoss
<1>8. /\ p = s * y + (p % s) /\ p % s \in Int /\ 0 <= p % s /\ p % s < s
      /\ d = s * x + (d % s) /\ d % s \in Int /\ 0 <= d % s /\ d % s < s
  <2>1. s \in Nat /\ s > 0 /\ p \in Int /\ d \in Int BY <1>2
  <2> HIDE DEF s
  <2>2. p = s * (p \div s) + (p % s) /\ p % s \in Int /\ 0 <= p % s /\ p % s < s
    BY <2>1, Division
  <2>3. d = s * (d \div s) + (d % s) /\ d % s \in Int /\ 0 <= d % s /\ d % s < s
    BY <2>1, Division
  <2> QED BY <2>2, <2>3
<1>9. 2 * (s * h) <= p
  <2>1. /\ (p \div 2) % s \in Int /\ 0 <= (p \div 2) % s
        /\ p \div 2 = s * h + ((p \div 2) % s)
    BY <1>2, Division
  <2> DEFINE t == s * h
             u == (p \div 2) % s
  <2>2. t \in Int /\ u \in Int /\ 0 <= u /\ p \div 2 = t + u BY <1>1, <1>2, <2>1, SMT
  <2> HIDE DEF t, u
  <2>3. 2 * t <= p BY <1>2, <2>2, SMT
  <2> QED BY <2>3 DEF t
<1> HIDE DEF x, y, h, n, s, g, e
<1>10. n = y * a + r /\ r \in Int /\ 0 <= r /\ r < y
  <2>1. n \in Int /\ y \in Nat /\ y > 0 BY <1>1, <1>4, SMT
  <2>2. n = y * (n \div y) + (n % y) /\ n % y \in Int /\ 0 <= n % y /\ n % y < y
    BY <2>1, Division
  <2> QED BY <1>5, <2>2
<1> HIDE DEF a, r
<1> DEFINE u == p % s
           v == d % s
<1>11. /\ p = s * y + u /\ u \in Int /\ 0 <= u /\ u <= s - 1
       /\ d = s * x + v /\ v \in Int /\ 0 <= v /\ v <= s - 1
  BY <1>2, <1>8
<1> HIDE DEF u, v
<1>12. d * e <= p * (a + (1 + g))
  <2>1. d * e = (s * x) * e + v * e BY <1>1, <1>2, <1>3, <1>11, SMT
  <2>2. v * e <= (s - 1) * e BY <1>2, <1>3, <1>11, SMT
  <2>3. (s * x) * e <= s * n
    <3>1. s * (x * e) <= s * (x * e + h) BY <1>1, <1>2, <1>3, SMT
    <3>2. s * (x * e) = (s * x) * e BY <1>1, <1>2, <1>3, SMT
    <3> QED BY <1>4, <3>1, <3>2
  <2>4. n <= y * (a + 1) BY <1>1, <1>6, <1>10, SMT
  <2>5. s * n <= s * (y * (a + 1)) BY <1>1, <1>2, <1>4, <1>6, <2>4, SMT
  <2>6. s * (y * (a + 1)) = (s * y) * (a + 1) BY <1>1, <1>2, <1>6, SMT
  <2>7. (s * y) * (a + 1) <= p * (a + 1) BY <1>1, <1>2, <1>6, <1>11, SMT
  <2>8. p * (a + (1 + g)) = p * (a + 1) + p * g BY <1>2, <1>6, <1>7, SMT
  <2> DEFINE i1 == d * e
             i2 == (s * x) * e
             i3 == v * e
             i4 == (s - 1) * e
             i5 == s * n
             i6 == (s * y) * (a + 1)
             i7 == p * (a + 1)
             i8 == p * g
  <2>9. /\ i1 \in Int /\ i2 \in Int /\ i3 \in Int /\ i4 \in Int
        /\ i5 \in Int /\ i6 \in Int /\ i7 \in Int /\ i8 \in Int
    BY <1>1, <1>2, <1>3, <1>4, <1>6, <1>7, <1>11, SMT
  <2>10. /\ i1 = i2 + i3 /\ i3 <= i4 /\ i4 <= i8 /\ i2 <= i5 /\ i5 <= i6 /\ i6 <= i7
    BY <1>7, <2>1, <2>2, <2>3, <2>5, <2>6, <2>7
  <2>11. p * (a + (1 + g)) = i7 + i8 BY <2>8
  <2> HIDE DEF i1, i2, i3, i4, i5, i6, i7, i8
  <2>12. i1 <= i7 + i8 BY <2>9, <2>10, SMT
  <2> QED BY <2>11, <2>12 DEF i1
<1>13. p * (a - (1 + g)) <= d * e
  <2>1. p * a = (s * y) * a + u * a BY <1>1, <1>2, <1>6, <1>11, SMT
  <2>2. u * a <= (s - 1) * a BY <1>2, <1>6, <1>11, SMT
  <2>3. (s - 1) * a <= (s - 1) * e BY <1>2, <1>3, <1>6, SMT
  <2>4. y * a <= n BY <1>1, <1>6, <1>10, SMT
  <2>5. (s * y) * a <= s * n
    <3>1. s * (y * a) <= s * n BY <1>1, <1>2, <1>4, <1>6, <2>4, SMT
    <3>2. s * (y * a) = (s * y) * a BY <1>1, <1>2, <1>6, SMT
    <3> QED BY <3>1, <3>2
  <2>6. s * n = (s * x) * e + s * h
    <3>1. s * (x * e + h) = (s * x) * e + s * h BY <1>1, <1>2, <1>3, SMT
    <3> QED BY <1>4, <3>1
  <2>7. (s * x) * e <= d * e BY <1>1, <1>2, <1>3, <1>11, SMT
  <2>8. p * (a - (1 + g)) = p * a - p - p * g BY <1>2, <1>6, <1>7, SMT
  <2> DEFINE i1 == p * a
             i2 == (s * y) * a
             i3 == u * a
             i4 == (s - 1) * a
             i5 == (s - 1) * e
             i6 == p * g
             i7 == s * n
             i8 == (s * x) * e
             i9 == s * h
             i0 == d * e
  <2>9. /\ i1 \in Int /\ i2 \in Int /\ i3 \in Int /\ i4 \in Int /\ i5 \in Int
        /\ i6 \in Int /\ i7 \in Int /\ i8 \in Int /\ i9 \in Int /\ i0 \in Int /\ i9 >= 0
    BY <1>1, <1>2, <1>3, <1>4, <1>6, <1>7, <1>11, SMT
  <2>10. /\ i1 = i2 + i3 /\ i3 <= i4 /\ i4 <= i5 /\ i5 <= i6
         /\ i2 <= i7 /\ i7 = i8 + i9 /\ i8 <= i0 /\ 2 * i9 <= p
    BY <1>7, <1>9, <2>1, <2>2, <2>3, <2>5, <2>6, <2>7
  <2>11. p * (a - (1 + g)) = i1 - p - i6 BY <2>8
  <2> HIDE DEF i1, i2, i3, i4, i5, i6, i7, i8, i9, i0
  <2>12. i1 - p - i6 <= i0 BY <1>2, <2>9, <2>10, SMT
  <2> QED BY <2>11, <2>12 DEF i0
<1> QED BY <1>12, <1>13 DEF a, e, g

(* The "on" time is the share of the cycle that was asked for, to one      *)
(* clock and one percent of the cycle, for every such period and every     *)
(* duty, and exact at both ends (core.c:398, pwm-sunxi.c:140-145).         *)
THEOREM DutyComesOut == ASSUME PeriodsFit PROVE Spec => []DutyAsAsked
<1>1. Tried => DutyAsAsked
  <2> SUFFICES ASSUME Tried PROVE DutyAsAsked OBVIOUS
  <2> DEFINE p == period
             d == duty(k)
             a == active_cycles(d, p)
             e == entire_cycles(p)
             c == 1 + e \div 100
  <2>1. InWord(p) /\ p \in Int BY PeriodFits, PeriodsFit
  <2>2. d \in Nat /\ d <= p BY DutyFacts DEF Tried
  <2>3. e \in Nat /\ c \in Nat
    <3>1. e \in Nat BY <2>1, EntireBounds, SMT DEF InWord
    <3>2. e \div 100 \in Nat BY <2>1, ScalingLoss
    <3> QED BY <3>1, <3>2
  <2>4. a \in Nat BY <2>1, <2>2, ActiveBounds
  <2>5. d * e <= p * (a + c) /\ (a >= c => p * (a - c) <= d * e) BY <2>1, <2>2, DutyClose
  <2>6. EndsExact
    <3>1. duty(0) = 0 /\ duty(DutySteps) = p BY DutyFacts
    <3>2. active_cycles(p, p) = e /\ active_cycles(0, p) = 0 BY <2>1, ActiveEnds
    <3> QED BY <3>1, <3>2 DEF EndsExact
  <2>7. DutyAsAsked <=>
          /\ AtMost(Product(d, e), Product(p, a + c))
          /\ a >= c => AtMost(Product(p, a - c), Product(d, e))
          /\ EndsExact
    BY DEF DutyAsAsked
  <2> HIDE DEF p, d, a, e, c
  <2>8. p \in Nat /\ a + c \in Nat BY <2>1, <2>2, <2>3, <2>4, SMT
  <2>9. AtMost(Product(d, e), Product(p, a + c))
    <3> DEFINE m == d * e
               n == p * (a + c)
    <3>1. m \in Nat /\ n \in Nat /\ m <= n BY <2>2, <2>3, <2>5, <2>8, SMT
    <3>2. Product(d, e) = Word(m) /\ Product(p, a + c) = Word(n)
      BY <2>2, <2>3, <2>8, ProductIs
    <3> HIDE DEF m, n
    <3> QED BY <3>1, <3>2, AtMostIs
  <2>10. ASSUME a >= c PROVE AtMost(Product(p, a - c), Product(d, e))
    <3> DEFINE m == p * (a - c)
               n == d * e
    <3>1. a - c \in Nat BY <2>3, <2>4, <2>10, SMT
    <3>2. m \in Nat /\ n \in Nat /\ m <= n BY <2>2, <2>3, <2>5, <2>8, <2>10, <3>1, SMT
    <3>3. Product(p, a - c) = Word(m) /\ Product(d, e) = Word(n)
      BY <2>2, <2>3, <2>8, <3>1, ProductIs
    <3> HIDE DEF m, n
    <3> QED BY <3>2, <3>3, AtMostIs
  <2> QED BY <2>6, <2>7, <2>9, <2>10
<1> QED BY <1>1, TriedAlways, PTL

(* Between 10.667 microseconds and 20 ms the cycle is the period asked for *)
(* to two percent, although the frequency is a whole number of hertz and   *)
(* the cycle a whole number of prescaled clocks (core.c:399,               *)
(* pwm-sunxi.c:122-138).                                                   *)
LEMMA CycleClose ==
  ASSUME NEW p \in Int, 10667 <= p, p <= 20000000
  PROVE  LET clocks == entire_cycles(p) * Divider(pre_scal_id(p))
             actual == (clocks \div 24) * 1000 + ((clocks % 24) * 1000) \div 24
         IN  actual \in Int /\ p - p \div 50 <= actual /\ actual <= p + p \div 50
<1> DEFINE f == freq(p)
           c == Clock \div f
           n == entire_cycles(p) * Divider(pre_scal_id(p))
           actual == (n \div 24) * 1000 + ((n % 24) * 1000) \div 24
<1>1. f = Second \div p BY FreqIs, SMT DEF Second
<1>2. f \in Nat /\ 1 <= f /\ f <= 93747 BY FreqIs, SMT
<1>3. f = 1000000000 \div p BY <1>1 DEF Second
<1>4. c = 24000000 \div f BY DEF Clock
<1>5. /\ f >= 367 => pre_scal_id(p) = 0 /\ entire_cycles(p) = c
      /\ 4 <= f /\ f <= 366 => pre_scal_id(p) = 1 /\ entire_cycles(p) = c \div 120
  BY PrescalerIs, SMT
<1> HIDE DEF f, c
<1>6. f * p <= 1000000000 /\ 1000000000 < (f + 1) * p BY <1>3, SMT
<1>7. c \in Nat /\ f * c <= 24000000 /\ 24000000 < f * (c + 1) BY <1>2, <1>4, SMT
<1>8. 50 <= f BY <1>3, SMT
<1>9. n \in Nat /\ n <= c /\ (f >= 367 => n = c) /\ (f <= 366 => c <= n + 119)
  <2>1. CASE f >= 367
    <3>1. n = c * 1 BY <1>5, <2>1, Dividers
    <3> QED BY <1>7, <2>1, <3>1, SMT
  <2>2. CASE f <= 366
    <3>1. n = (c \div 120) * 120 BY <1>2, <1>5, <1>8, <2>2, Dividers, SMT
    <3>2. c \in Nat BY <1>7
    <3> HIDE DEF n
    <3>3. n \in Nat /\ n <= c /\ c <= n + 119 BY <3>1, <3>2, SMT
    <3> QED BY <1>2, <2>2, <3>3, SMT
  <2> QED BY <1>2, <2>1, <2>2, SMT
<1> HIDE DEF n
<1>10. actual \in Int /\ 24 * actual <= 1000 * n /\ 1000 * n < 24 * actual + 24 BY <1>9, SMT
<1> HIDE DEF actual
<1>11. f * actual <= 1000000000
  <2>1. 24 * actual <= 1000 * c BY <1>7, <1>9, <1>10, SMT
  <2>2. f * (24 * actual) <= f * (1000 * c) BY <1>2, <1>7, <1>10, <2>1, SMT
  <2>3. f * (24 * actual) = 24 * (f * actual) /\ f * (1000 * c) = 1000 * (f * c)
    BY <1>2, <1>7, <1>10, SMT
  <2> DEFINE x == f * actual
             y == f * c
  <2>4. x \in Int /\ y \in Int /\ 24 * x <= 1000 * y /\ y <= 24000000
    BY <1>2, <1>7, <1>10, <2>2, <2>3
  <2> HIDE DEF x, y
  <2>5. x <= 1000000000 BY <2>4, SMT
  <2> QED BY <2>5 DEF x
<1>12. actual <= p + p \div 50
  <2>1. f * actual < (f + 1) * p BY <1>2, <1>6, <1>10, <1>11, SMT
  <2>2. f * actual < f * p + p BY <1>2, <2>1, SMT
  <2>3. f * (actual - p) < p BY <1>2, <1>10, <2>2, SMT
  <2>4. actual - p >= 0 => 50 * (actual - p) <= f * (actual - p) BY <1>2, <1>8, <1>10, SMT
  <2> DEFINE x == f * (actual - p)
             y == actual - p
  <2>5. x \in Int /\ y \in Int /\ x < p /\ (y >= 0 => 50 * y <= x) BY <1>2, <1>10, <2>3, <2>4
  <2> HIDE DEF x, y
  <2>6. y <= p \div 50 BY <2>5, SMT
  <2> QED BY <1>10, <2>6, SMT DEF y
<1>13. p - p \div 50 <= actual
  <2> DEFINE w == p - actual
  <2>1. w \in Int /\ f * w <= 1000000000 - f * actual
    <3>1. f * (p - actual) = f * p - f * actual BY <1>2, <1>10, SMT
    <3> QED BY <1>2, <1>6, <1>10, <3>1, SMT
  <2>2. CASE f >= 367
    <3>1. f * (24 * actual + 24) >= f * (1000 * c) BY <1>2, <1>7, <1>9, <1>10, <2>2, SMT
    <3>2. /\ f * (24 * actual + 24) = 24 * (f * actual) + 24 * f
          /\ f * (1000 * c) = 1000 * (f * c) /\ f * (c + 1) = f * c + f
      BY <1>2, <1>7, <1>10, SMT
    <3> DEFINE x == f * actual
               y == f * c
               z == f * w
    <3>3. /\ x \in Int /\ y \in Int /\ z \in Int /\ 24 * x + 24 * f >= 1000 * y
          /\ y + f > 24000000 /\ z <= 1000000000 - x
      BY <1>2, <1>7, <1>10, <2>1, <3>1, <3>2
    <3> HIDE DEF x, y, w, z
    <3>4. z < 43 * f BY <1>2, <3>3, SMT
    <3>5. w < 43 BY <1>2, <2>1, <3>4, SMT DEF z
    <3>6. p - actual < 43 BY <3>5 DEF w
    <3> QED BY <1>10, <3>6, SMT
  <2>3. CASE f <= 366
    <3>1. f * (24 * actual + 24) >= f * (1000 * (c - 119)) BY <1>2, <1>7, <1>9, <1>10, <2>3, SMT
    <3>2. /\ f * (24 * actual + 24) = 24 * (f * actual) + 24 * f
          /\ f * (1000 * (c - 119)) = 1000 * (f * c) - 119000 * f /\ f * (c + 1) = f * c + f
      BY <1>2, <1>7, <1>10, SMT
    <3> DEFINE x == f * actual
               y == f * c
               z == f * w
    <3>3. /\ x \in Int /\ y \in Int /\ z \in Int /\ 24 * x + 24 * f >= 1000 * y - 119000 * f
          /\ y + f > 24000000 /\ z <= 1000000000 - x
      BY <1>2, <1>7, <1>10, <2>1, <3>1, <3>2
    <3> HIDE DEF x, y, w, z
    <3>4. z < 5002 * f BY <1>2, <3>3, SMT
    <3>5. w < 5002 BY <1>2, <2>1, <3>4, SMT DEF z
    <3>6. p - actual < 5002 BY <3>5 DEF w
    <3>7. 367 * p > 1000000000 BY <1>2, <1>6, <2>3, SMT
    <3> QED BY <1>10, <3>6, <3>7, SMT
  <2> QED BY <1>2, <2>2, <2>3, SMT
<1> QED BY <1>10, <1>12, <1>13 DEF actual, n

THEOREM CycleComesOut == Spec => []CycleAsAsked
<1>1. Tried => CycleAsAsked
  <2> SUFFICES ASSUME Tried, 10667 <= period, period <= 20000000
               PROVE  CycleAsAsked
    BY PeriodTyped, SMT DEF CycleAsAsked
  <2>1. period \in Int BY PeriodTyped
  <2> QED BY <2>1, CycleClose, SMT DEF CycleAsAsked
<1> QED BY <1>1, TriedAlways, PTL
=============================================================================
