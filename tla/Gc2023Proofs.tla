---------------------------- MODULE Gc2023Proofs ----------------------------
(***************************************************************************)
(* Machine-checked proofs about the image sensor driver of Gc2023, for     *)
(* every number of writers to /dev/exp, every exposure and gain that an    *)
(* int holds and every frame rate, and any number of calls and failed      *)
(* attempts at a transfer.                                                 *)
(***************************************************************************)
EXTENDS Gc2023, TLAPS

-----------------------------------------------------------------------------
(* The steps of the calls.                                                 *)

Writes == [op : {"write"}, reg : Nat, val : Bytes]
Notes ==
  [op : {"note"}, reg : {"exp"}, val : Noted] \union
  [op : {"note"}, reg : {"gain"}, val : GainRange]
Steps == Writes \union Notes

(* A step that can neither reset the sensor nor leave page 0.              *)
Mild == {s \in Steps : s.op = "write" /\ s.reg = 254 => s.val = 0}

(* The steps that only a call for an exposure, or for a gain, takes.       *)
OfExp == {s \in Mild : /\ s.op = "write" => s.reg \in {254, 3, 4}
                       /\ s.op = "note" => s.reg = "exp"}
OfGain == {s \in Mild : /\ s.op = "write" => s.reg \in {182, 177, 178}
                        /\ s.op = "note" => s.reg = "gain"}

(* q is what is left of s after its first n steps.                         *)
Rest(q, s, n) ==
  /\ n \in 0 .. Len(s) /\ Len(q) = Len(s) - n
  /\ \A i \in 1 .. Len(q) : q[i] = s[n + i]

-----------------------------------------------------------------------------
(* The invariants.                                                         *)

Kind(t, kinds) == call[t] # NULL /\ call[t].kind \in kinds

(* What is left of a call is of its kind; only the framework asks for more *)
(* than an exposure.                                                       *)
Todo ==
  /\ todo \in [Tasks -> Seq(Steps)]
  /\ \A t \in Tasks :
    /\ call[t] = NULL => todo[t] = <<>>
    /\ Kind(t, {"exp", "gain", "exp_gain"}) => todo[t] \in Seq(Mild)
    /\ Kind(t, {"exp"}) => todo[t] \in Seq(OfExp)
    /\ Kind(t, {"gain"}) => todo[t] \in Seq(OfGain)
    /\ t # V4l2 => ~Kind(t, {"gain", "exp_gain", "fmt"})

(* sensor_power holds the adapter, and the framework is in no other call.  *)
Locked == switching # NULL => bus = "locked" /\ call[V4l2] = NULL

(* Two calls under way have met.                                           *)
Met ==
  \A t, u \in Tasks : t # u /\ call[t] # NULL /\ call[u] # NULL => mixed

(* A call under way has withdrawn what it is about to change.              *)
Withdrawn ==
  \A t \in Tasks :
    /\ Kind(t, {"fmt"}) => sure = {}
    /\ Kind(t, {"exp", "exp_gain"}) => "exp" \notin sure
    /\ Kind(t, {"gain", "exp_gain"}) => "gain" \notin sure

PageSelected == "page" \in sure => page = 0

(* What a call has done after its first n steps.  Nobody else selects      *)
(* another page than 0, so what a table selects last stays selected; what  *)
(* the others write counts only if they were never met.                    *)
TableDone(n) ==
  /\ n = 15 => page = 0
  /\ ~mixed =>
    /\ n \in 8 .. 9 => page = 1
    /\ n >= 9 => regs[<<1, 3>>] = 2
    /\ n >= 10 => regs[<<1, 4>>] = 3
    /\ n = 13 => page = 3
    /\ n >= 14 => regs[<<3, 3>>] = 154

Load(t) ==
  Kind(t, {"fmt"}) /\ ~call[t].lost =>
    \E w \in Windows, n \in 0 .. 15 : Rest(todo[t], Table(w), n) /\ TableDone(n)

Loading == \A t \in Tasks : Load(t)

Reported(x, e) ==
  LET lasting == 16 * (256 * ((e \div 4096) % 256) + ((e \div 16) % 256))
  IN  IF x >= 0 THEN x - lasting \in 0 .. 15 ELSE lasting = ExpMax - 15

ExpDone(e, n) ==
  /\ n >= 1 => page = 0
  /\ n >= 2 => regs[<<0, 3>>] = (e \div 4096) % 256
  /\ n >= 3 => regs[<<0, 4>>] = (e \div 16) % 256
  /\ n >= 4 => Reported(info.exp, e)

(* The steps of a call that is about an exposure: c is what it writes, and *)
(* the steps after the first four are about the gain, but for a second     *)
(* report of the exposure.                                                 *)
ExpPlan(s, c) ==
  /\ s \in Seq(Mild) /\ Len(s) >= 4 /\ c \in 4 .. ExpMax
  /\ s[1] = Write(254, 0) /\ s[2] = Write(3, c \div 4096) /\ s[3] = Write(4, c \div 16)
  /\ s[4] = Note("exp", c)
  /\ \A i \in 5 .. Len(s) : \/ s[i] \in OfGain
                            \/ \E x \in Noted : s[i] = Note("exp", x) /\ Reported(x, c)

Expose(t) ==
  Kind(t, {"exp", "exp_gain"}) /\ ~call[t].lost =>
    \E s \in Seq(Mild), c \in 4 .. ExpMax, n \in Nat :
      ExpPlan(s, c) /\ Rest(todo[t], s, n) /\ (~mixed => ExpDone(c, n))

Exposing == \A t \in Tasks : Expose(t)

GainDone(g, k) ==
  /\ k >= 1 => regs[<<0, 182>>] = Analog_Index(g)
  /\ k >= 2 => regs[<<0, 177>>] = (Decimal(g) \div 64) % 256
  /\ k >= 3 => regs[<<0, 178>>] = (4 * Decimal(g)) % 256
  /\ k >= 4 => info.gain = g

(* The steps of a call that is about a gain: the gain comes after the      *)
(* first b steps, and the last steps do not change it.                     *)
GainPlan(s, g, b) ==
  /\ s \in Seq(Mild) /\ Len(s) >= b + 4
  /\ s[b + 1] = Write(182, Analog_Index(g)) /\ s[b + 2] = Write(177, Decimal(g) \div 64)
  /\ s[b + 3] = Write(178, 4 * Decimal(g)) /\ s[b + 4] = Note("gain", g)
  /\ \A i \in (b + 5) .. Len(s) : s[i] = Note("gain", g) \/ s[i] \in OfExp

(* q is what is left of such steps, and what went before is done.          *)
GainLeft(q) ==
  \E s \in Seq(Mild), g \in GainRange, b \in Nat, n \in Nat :
    GainPlan(s, g, b) /\ Rest(q, s, n) /\ GainDone(g, n - b)

Gaining ==
  Kind(V4l2, {"gain", "exp_gain"}) /\ ~call[V4l2].lost /\ "page" \in sure =>
    GainLeft(todo[V4l2])

SensorInv == TypeOK /\ Todo /\ Locked /\ Met /\ Withdrawn /\ PageSelected

FormatInv == SensorInv /\ Loading /\ FormatKept

ExposureInv == FormatInv /\ Exposing /\ ExposureAsAsked

GainInv == FormatInv /\ Gaining /\ GainAsAsked

-----------------------------------------------------------------------------
(* Sequences of steps.                                                     *)

LEMMA RestStart ==
  ASSUME NEW S, NEW s \in Seq(S)
  PROVE  Rest(s, s, 0)
BY DEF Rest

LEMMA RestNext ==
  ASSUME NEW S, NEW q \in Seq(S), NEW s \in Seq(S), NEW n, Rest(q, s, n), q # <<>>
  PROVE  Head(q) = s[n + 1] /\ Rest(Tail(q), s, n + 1)
<1>1. Len(q) \in Nat \ {0} /\ n \in Nat /\ Len(s) \in Nat BY DEF Rest
<1>2. Head(q) = q[1] /\ Len(Tail(q)) = Len(q) - 1 BY <1>1
<1>3. \A i \in 1 .. Len(q) - 1 : Tail(q)[i] = q[i + 1] BY <1>1
<1>4. \A i \in 1 .. Len(q) - 1 : Tail(q)[i] = s[n + 1 + i]
  <2> SUFFICES ASSUME NEW i \in 1 .. Len(q) - 1 PROVE Tail(q)[i] = s[n + 1 + i] OBVIOUS
  <2>1. q[i + 1] = s[n + (i + 1)] BY <1>1 DEF Rest
  <2>2. n + (i + 1) = n + 1 + i BY <1>1
  <2> QED BY <1>3, <2>1, <2>2
<1> QED BY <1>1, <1>2, <1>4 DEF Rest

LEMMA RestEnd ==
  ASSUME NEW S, NEW s \in Seq(S), NEW n, Rest(<<>>, s, n)
  PROVE  n = Len(s)
BY DEF Rest

(* A register takes a byte.                                                *)
LEMMA Byte == \A x \in Int : x % 256 \in Bytes
BY DEF Bytes

LEMMA ExpMaxNat == ExpMax \in Nat /\ ExpMax > 1000
BY SMTT(60) DEF ExpMax

LEMMA ClampedRange == \A e \in Int : Clamped(e) \in 4 .. ExpMax /\ Clamped(e) \in Noted
BY ExpMaxNat DEF Clamped, Noted

LEMMA WriteTyped ==
  ASSUME NEW r \in Nat, NEW x \in Int
  PROVE  Write(r, x) \in Writes
BY Byte DEF Write, Writes

LEMMA ExpSteps ==
  ASSUME NEW e \in Int
  PROVE  /\ sensor_s_exp(e) \in Seq(OfExp) /\ Len(sensor_s_exp(e)) = 4
         /\ sensor_s_exp(e)[1] = Write(254, 0)
         /\ sensor_s_exp(e)[2] = Write(3, Clamped(e) \div 4096)
         /\ sensor_s_exp(e)[3] = Write(4, Clamped(e) \div 16)
         /\ sensor_s_exp(e)[4] = Note("exp", Clamped(e))
<1>1. Clamped(e) \in 4 .. ExpMax /\ Clamped(e) \in Noted BY ClampedRange
<1>2. Clamped(e) \div 4096 \in Int /\ Clamped(e) \div 16 \in Int BY <1>1, ExpMaxNat
<1>3. Write(254, 0) \in OfExp
  BY WriteTyped DEF Write, OfExp, Mild, Steps
<1>4. Write(3, Clamped(e) \div 4096) \in OfExp /\ Write(4, Clamped(e) \div 16) \in OfExp
  <2>1. /\ Write(3, Clamped(e) \div 4096) \in Writes /\ Write(4, Clamped(e) \div 16) \in Writes
    BY <1>2, WriteTyped
  <2>2. Write(3, Clamped(e) \div 4096).reg = 3 /\ Write(4, Clamped(e) \div 16).reg = 4
    BY DEF Write
  <2>3. \A w \in Writes : w.op = "write" BY DEF Writes
  <2> QED BY <2>1, <2>2, <2>3 DEF OfExp, Mild, Steps
<1>5. Note("exp", Clamped(e)) \in OfExp
  BY <1>1, ExpMaxNat DEF Note, OfExp, Mild, Steps, Notes
<1> QED BY <1>3, <1>4, <1>5 DEF sensor_s_exp

LEMMA Stages ==
  /\ Analog_Multiple[1] = 1000 /\ Analog_Multiple[2] = 1400 /\ Analog_Multiple[3] = 2000
  /\ Analog_Multiple[4] = 2840 /\ Analog_Multiple[5] = 4080 /\ Analog_Multiple[6] = 5980
  /\ Analog_Multiple[7] = 8660 /\ Analog_Multiple[8] = 12600 /\ Analog_Multiple[9] = 17600
BY DEF Analog_Multiple

(* Is i the highest stage that does not exceed all?                        *)
IsStage(all, i) ==
  all >= Analog_Multiple[i] /\ \A j \in (i + 1) .. 9 : all < Analog_Multiple[j]

LEMMA StageExists ==
  ASSUME NEW all \in Nat, all >= 1000
  PROVE  \E i \in 1 .. 9 : IsStage(all, i)
<1>1. CASE all >= 17600 BY <1>1, Stages DEF IsStage
<1>2. CASE all < 17600 /\ all >= 12600
  <2>1. \A j \in 9 .. 9 : all < Analog_Multiple[j] BY <1>2, Stages
  <2> QED BY <1>2, <2>1, Stages DEF IsStage
<1>3. CASE all < 12600 /\ all >= 8660
  <2>1. \A j \in 8 .. 9 : j \in {8, 9} OBVIOUS
  <2>2. \A j \in 8 .. 9 : all < Analog_Multiple[j] BY <1>3, <2>1, Stages
  <2> QED BY <1>3, <2>2, Stages DEF IsStage
<1>4. CASE all < 8660 /\ all >= 5980
  <2>1. \A j \in 7 .. 9 : j \in {7, 8, 9} OBVIOUS
  <2>2. \A j \in 7 .. 9 : all < Analog_Multiple[j] BY <1>4, <2>1, Stages
  <2> QED BY <1>4, <2>2, Stages DEF IsStage
<1>5. CASE all < 5980 /\ all >= 4080
  <2>1. \A j \in 6 .. 9 : j \in {6, 7, 8, 9} OBVIOUS
  <2>2. \A j \in 6 .. 9 : all < Analog_Multiple[j] BY <1>5, <2>1, Stages
  <2> QED BY <1>5, <2>2, Stages DEF IsStage
<1>6. CASE all < 4080 /\ all >= 2840
  <2>1. \A j \in 5 .. 9 : j \in {5, 6, 7, 8, 9} OBVIOUS
  <2>2. \A j \in 5 .. 9 : all < Analog_Multiple[j] BY <1>6, <2>1, Stages
  <2> QED BY <1>6, <2>2, Stages DEF IsStage
<1>7. CASE all < 2840 /\ all >= 2000
  <2>1. \A j \in 4 .. 9 : j \in {4, 5, 6, 7, 8, 9} OBVIOUS
  <2>2. \A j \in 4 .. 9 : all < Analog_Multiple[j] BY <1>7, <2>1, Stages
  <2> QED BY <1>7, <2>2, Stages DEF IsStage
<1>8. CASE all < 2000 /\ all >= 1400
  <2>1. \A j \in 3 .. 9 : j \in {3, 4, 5, 6, 7, 8, 9} OBVIOUS
  <2>2. \A j \in 3 .. 9 : all < Analog_Multiple[j] BY <1>8, <2>1, Stages
  <2> QED BY <1>8, <2>2, Stages DEF IsStage
<1>9. CASE all < 1400
  <2>1. \A j \in 2 .. 9 : j \in {2, 3, 4, 5, 6, 7, 8, 9} OBVIOUS
  <2>2. \A j \in 2 .. 9 : all < Analog_Multiple[j] BY <1>9, <2>1, Stages
  <2> QED BY <1>9, <2>2, Stages DEF IsStage
<1> QED BY <1>1, <1>2, <1>3, <1>4, <1>5, <1>6, <1>7, <1>8, <1>9

Multiples == {1000, 1400, 2000, 2840, 4080, 5980, 8660, 12600, 17600}

LEMMA StageChosen ==
  ASSUME NEW g \in Nat, g >= 16
  PROVE  /\ All_gain(g) \in Nat /\ All_gain(g) >= 1000
         /\ Analog_Index(g) \in 0 .. 8
         /\ All_gain(g) >= Analog_Multiple[Analog_Index(g) + 1]
         /\ Analog_Multiple[Analog_Index(g) + 1] \in Multiples
<1>1. All_gain(g) \in Nat /\ All_gain(g) >= 1000 BY DEF All_gain
<1> DEFINE i == CHOOSE i \in 1 .. 9 : IsStage(All_gain(g), i)
<1>2. i \in 1 .. 9 /\ IsStage(All_gain(g), i) BY <1>1, StageExists
<1>3. Analog_Index(g) = i - 1 BY DEF Analog_Index, IsStage
<1> HIDE DEF i
<1>4. Analog_Index(g) + 1 = i BY <1>2, <1>3
<1>5. i \in {1, 2, 3, 4, 5, 6, 7, 8, 9} BY <1>2
<1> QED BY <1>1, <1>2, <1>3, <1>4, <1>5, Stages DEF IsStage, Multiples

LEMMA DecimalInt ==
  ASSUME NEW g \in Nat, g >= 16
  PROVE  Decimal(g) \in Int
<1> DEFINE A == Analog_Multiple[Analog_Index(g) + 1]
<1>1. A \in Nat /\ A > 0 /\ All_gain(g) \in Nat BY StageChosen DEF Multiples
<1> HIDE DEF A
<1>2. (All_gain(g) * 1000) \div A \in Int BY <1>1
<1>3. ((All_gain(g) * 1000) \div A) * 64 \in Int BY <1>2
<1>4. (((All_gain(g) * 1000) \div A) * 64) \div 1000 \in Int BY <1>3
<1> QED BY <1>4 DEF Decimal, A

LEMMA GainSteps ==
  ASSUME NEW g \in GainRange
  PROVE  /\ sensor_s_gain(g) \in Seq(OfGain) /\ Len(sensor_s_gain(g)) = 4
         /\ sensor_s_gain(g)[1] = Write(182, Analog_Index(g))
         /\ sensor_s_gain(g)[2] = Write(177, Decimal(g) \div 64)
         /\ sensor_s_gain(g)[3] = Write(178, 4 * Decimal(g))
         /\ sensor_s_gain(g)[4] = Note("gain", g)
<1>1. /\ Analog_Index(g) \in Int /\ Decimal(g) \div 64 \in Int /\ 4 * Decimal(g) \in Int
  BY StageChosen, DecimalInt DEF GainRange
<1>2. ASSUME NEW x \in Int, NEW r \in {182, 177, 178} PROVE Write(r, x) \in OfGain
  <2>1. Write(r, x) \in Writes BY WriteTyped
  <2>2. Write(r, x).reg = r /\ Write(r, x).op = "write" BY DEF Write
  <2> QED BY <2>1, <2>2 DEF OfGain, Mild, Steps
<1>3. Note("gain", g) \in OfGain
  BY ExpMaxNat DEF Note, OfGain, Mild, Steps, Notes
<1> QED BY <1>1, <1>2, <1>3 DEF sensor_s_gain

LEMMA Widen ==
  /\ \A q \in Seq(OfExp) : q \in Seq(Mild)
  /\ \A q \in Seq(OfGain) : q \in Seq(Mild)
  /\ \A q \in Seq(Mild) : q \in Seq(Steps)
<1>1. OfExp \subseteq Mild /\ OfGain \subseteq Mild /\ Mild \subseteq Steps
  BY DEF OfExp, OfGain, Mild
<1>2. \A A, B : A \subseteq B => \A q \in Seq(A) : q \in Seq(B) OBVIOUS
<1> QED BY <1>1, <1>2

LEMMA Joined ==
  ASSUME NEW S, NEW a \in Seq(S), NEW b \in Seq(S)
  PROVE  /\ a \o b \in Seq(S) /\ Len(a \o b) = Len(a) + Len(b)
         /\ \A i \in 1 .. Len(a) + Len(b) :
              (a \o b)[i] = IF i <= Len(a) THEN a[i] ELSE b[i - Len(a)]
OBVIOUS

LEMMA ThreeParts ==
  ASSUME NEW S, NEW a \in Seq(S), NEW b \in Seq(S), NEW c \in Seq(S),
         Len(a) = 4, Len(b) = 4, Len(c) = 2
  PROVE  LET s == (a \o b) \o c IN
         /\ s \in Seq(S) /\ Len(s) = 10
         /\ \A i \in 1 .. 4 : s[i] = a[i]
         /\ \A i \in 1 .. 4 : s[4 + i] = b[i]
         /\ s[9] = c[1] /\ s[10] = c[2]
<1> DEFINE d == a \o b
<1>1. d \in Seq(S) /\ Len(d) = 8
  <2>1. d \in Seq(S) /\ Len(d) = Len(a) + Len(b) BY Joined
  <2> QED BY <2>1
<1>2. ASSUME NEW i \in 1 .. 4 PROVE d[i] = a[i] /\ d[4 + i] = b[i]
  <2>1. \A j \in 1 .. Len(a) + Len(b) : d[j] = IF j <= Len(a) THEN a[j] ELSE b[j - Len(a)]
    BY Joined
  <2> HIDE DEF d
  <2>2. /\ i \in 1 .. Len(a) + Len(b) /\ i <= Len(a)
        /\ 4 + i \in 1 .. Len(a) + Len(b) /\ ~(4 + i <= Len(a)) /\ (4 + i) - Len(a) = i
    OBVIOUS
  <2> QED BY <2>1, <2>2
<1> HIDE DEF d
<1>3. d \o c \in Seq(S) /\ Len(d \o c) = 10
  <2>1. d \o c \in Seq(S) /\ Len(d \o c) = Len(d) + Len(c) BY <1>1, Joined
  <2> QED BY <1>1, <2>1
<1> DEFINE q == d \o c
<1>4. \A j \in 1 .. Len(d) + Len(c) : q[j] = IF j <= Len(d) THEN d[j] ELSE c[j - Len(d)]
  BY <1>1, Joined
<1> HIDE DEF q
<1>5. \A j \in 1 .. 10 : q[j] = IF j <= 8 THEN d[j] ELSE c[j - 8]
  <2>1. Len(d) + Len(c) = 10 BY <1>1
  <2> QED BY <1>1, <1>4, <2>1
<1>6. (\A i \in 1 .. 8 : q[i] = d[i]) /\ q[9] = c[1] /\ q[10] = c[2] BY <1>5
<1>7. ASSUME NEW i \in 1 .. 4 PROVE i \in 1 .. 8 /\ 4 + i \in 1 .. 8 OBVIOUS
<1>8. \A i \in 1 .. 4 : q[i] = a[i] /\ q[4 + i] = b[i] BY <1>2, <1>6, <1>7
<1> QED BY <1>3, <1>6, <1>8 DEF q, d

Topped(e) == IF e > ExpMax THEN ExpMax ELSE e

LEMMA ExpGainSteps ==
  ASSUME NEW e \in Int, NEW g \in Int
  PROVE  LET s == sensor_s_exp_gain(e, g) IN
         /\ s \in Seq(Mild) /\ Len(s) = 10
         /\ \A i \in 1 .. 4 : s[i] = sensor_s_exp(Topped(e))[i]
         /\ \A i \in 1 .. 4 : s[4 + i] = sensor_s_gain(GainInRange(g))[i]
         /\ s[9] = Note("exp", Topped(e)) /\ s[10] = Note("gain", GainInRange(g))
<1> DEFINE E == sensor_s_exp(Topped(e))
           G == sensor_s_gain(GainInRange(g))
           N == <<Note("exp", Topped(e)), Note("gain", GainInRange(g))>>
<1>1. Topped(e) \in Noted /\ Topped(e) \in Int BY ExpMaxNat DEF Topped, Noted
<1>2. GainInRange(g) \in GainRange BY DEF GainInRange, GainRange
<1>3. E \in Seq(Mild) /\ Len(E) = 4 BY <1>1, ExpSteps, Widen
<1>4. G \in Seq(Mild) /\ Len(G) = 4 BY <1>2, GainSteps, Widen
<1>5. N \in Seq(Mild) /\ Len(N) = 2 /\ N[1] = Note("exp", Topped(e))
      /\ N[2] = Note("gain", GainInRange(g))
  <2>1. Note("exp", Topped(e)) \in Mild /\ Note("gain", GainInRange(g)) \in Mild
    BY <1>1, <1>2 DEF Note, Mild, Steps, Notes
  <2> QED BY <2>1
<1>6. sensor_s_exp_gain(e, g) = (E \o G) \o N BY DEF sensor_s_exp_gain, Topped
<1> HIDE DEF E, G, N
<1>7. Len(E) = 4 /\ E \in Seq(Mild) /\ Len(G) = 4 /\ G \in Seq(Mild) /\ Len(N) = 2 /\ N \in Seq(Mild)
  BY <1>3, <1>4, <1>5
<1>8. /\ (E \o G) \o N \in Seq(Mild) /\ Len((E \o G) \o N) = 10
      /\ \A i \in 1 .. 4 : ((E \o G) \o N)[i] = E[i]
      /\ \A i \in 1 .. 4 : ((E \o G) \o N)[4 + i] = G[i]
      /\ ((E \o G) \o N)[9] = N[1] /\ ((E \o G) \o N)[10] = N[2]
  <2>1. /\ E \in Seq(Mild) /\ G \in Seq(Mild) /\ N \in Seq(Mild)
        /\ Len(E) = 4 /\ Len(G) = 4 /\ Len(N) = 2
    BY <1>7
  <2> QED BY <2>1, ThreeParts, SMTT(30)
<1> QED BY <1>5, <1>6, <1>8 DEF E, G

LEMMA WriteFields == \A r, x : Write(r, x).op = "write" /\ Write(r, x).reg = r /\ Write(r, x).val = x % 256
BY DEF Write

LEMMA NoteFields == \A r, x : Note(r, x).op = "note" /\ Note(r, x).reg = r /\ Note(r, x).val = x
BY DEF Note

(* What matters here of the tables: they end with the pages 1 and 3.       *)
LEMMA TableSteps ==
  ASSUME NEW w \in Windows
  PROVE  /\ Table(w) \in Seq(Writes) /\ Len(Table(w)) = 15
         /\ Table(w)[8] = Write(254, 1) /\ Table(w)[9] = Write(3, 2)
         /\ Table(w)[10] = Write(4, 3) /\ Table(w)[11] = Write(254, 2)
         /\ Table(w)[12] = Write(254, 1) /\ Table(w)[13] = Write(254, 3)
         /\ Table(w)[14] = Write(3, 154) /\ Table(w)[15] = Write(254, 0)
<1>1. \A r \in {3, 4, 177, 178, 182, 254}, x \in Int : Write(r, x) \in Writes
  BY WriteTyped
<1>2. (IF w = 30 THEN 3 ELSE 2) \in Int /\ (IF w = 30 THEN 246 ELSE 165) \in Int OBVIOUS
<1> DEFINE a == IF w = 30 THEN 3 ELSE 2
           b == IF w = 30 THEN 246 ELSE 165
<1>3. a \in Int /\ b \in Int BY <1>2
<1>4. Table(w) = << Write(254, 128), Write(254, 0), Write(3, a), Write(4, b),
                    Write(177, 1), Write(178, 0), Write(182, 0),
                    Write(254, 1), Write(3, 2), Write(4, 3), Write(254, 2), Write(254, 1),
                    Write(254, 3), Write(3, 154), Write(254, 0) >>
  BY DEF Table
<1> HIDE DEF a, b
<1> QED BY <1>1, <1>3, <1>4

-----------------------------------------------------------------------------
(* What the actions do.                                                    *)

(* What there is to ensure: the values of sure.                            *)
Facts == {"fmt", "page", "exp", "gain"}

(* The steps of a call, and what it is about to change.                    *)
Planned(t, kind, steps, changes) ==
  \/ /\ kind = "exp" /\ changes = {"exp"}
     /\ \E e \in Int : steps = sensor_s_exp(e)
  \/ /\ t = V4l2 /\ kind = "gain" /\ changes = {"gain"}
     /\ \E g \in GainRange : steps = sensor_s_gain(g)
  \/ /\ t = V4l2 /\ kind = "exp_gain" /\ changes = {"exp", "gain"}
     /\ \E e \in Int, g \in Int : steps = sensor_s_exp_gain(e, g)
  \/ /\ t = V4l2 /\ kind = "fmt" /\ changes = {"fmt", "page", "exp", "gain"}
     /\ \E w \in Windows : steps = Table(w)

Opening ==
  sensor_s_ctrl \/ sensor_ioctl \/ sensor_s_fmt \/ \E t \in Misc : matata_exposure_write(t)

LEMMA Tasking == V4l2 \in Tasks /\ Misc \subseteq Tasks
BY DEF Tasks

LEMMA PlannedTyped ==
  ASSUME NEW t, NEW kind, NEW steps, NEW changes, Planned(t, kind, steps, changes)
  PROVE  /\ steps \in Seq(Steps) /\ kind \in Kinds /\ changes \in SUBSET Facts
         /\ kind # "fmt" => steps \in Seq(Mild)
         /\ kind = "exp" => steps \in Seq(OfExp)
         /\ kind = "gain" => steps \in Seq(OfGain)
         /\ kind # "exp" => t = V4l2
<1>0. changes \in SUBSET Facts BY DEF Planned, Facts
<1>1. CASE kind = "exp" BY <1>0, <1>1, ExpSteps, Widen DEF Planned, Kinds
<1>2. CASE kind = "gain"
  <2>1. t = V4l2 /\ \E g \in GainRange : steps = sensor_s_gain(g) BY <1>2 DEF Planned
  <2>2. steps \in Seq(OfGain)
    <3>1. PICK g \in GainRange : steps = sensor_s_gain(g) BY <2>1
    <3>2. sensor_s_gain(g) \in Seq(OfGain) BY GainSteps
    <3> QED BY <3>1, <3>2
  <2>3. steps \in Seq(Mild) BY <2>2, Widen
  <2> QED BY <1>0, <1>2, <2>1, <2>2, <2>3, Widen DEF Kinds
<1>3. CASE kind = "exp_gain" BY <1>0, <1>3, ExpGainSteps, Widen DEF Planned, Kinds
<1>4. CASE kind = "fmt"
  <2>1. t = V4l2 /\ \E w \in Windows : steps = Table(w) BY <1>4 DEF Planned
  <2>2. steps \in Seq(Writes) BY <2>1, TableSteps
  <2>3. \A q \in Seq(Writes) : q \in Seq(Steps) BY DEF Steps
  <2> QED BY <1>0, <1>4, <2>1, <2>2, <2>3 DEF Kinds
<1> QED BY <1>1, <1>2, <1>3, <1>4 DEF Planned

LEMMA Opens ==
  ASSUME Opening
  PROVE  \E t \in Tasks, kind \in Kinds, steps \in Seq(Steps), changes \in SUBSET Facts :
           /\ Begin(t, kind, steps, changes) /\ Planned(t, kind, steps, changes)
           /\ t = V4l2 => switching = NULL
           /\ \/ info' = info
              \/ kind = "fmt" /\ \E w \in Windows : info' = [info EXCEPT !.current_wins = w]
<1>0. Exps \subseteq Int /\ Gains \subseteq Int BY SensorAssumption
<1>1. CASE sensor_s_ctrl
  <2>1. CASE \E e \in Exps : Begin(V4l2, "exp", sensor_s_exp(e), {"exp"})
    <3>1. PICK e \in Exps : Begin(V4l2, "exp", sensor_s_exp(e), {"exp"}) BY <2>1
    <3>2. Planned(V4l2, "exp", sensor_s_exp(e), {"exp"}) BY <1>0 DEF Planned
    <3> QED BY <1>1, <3>1, <3>2, Tasking, PlannedTyped DEF sensor_s_ctrl
  <2>2. CASE \E g \in Gains : g \in 16 .. 512 /\ Begin(V4l2, "gain", sensor_s_gain(g), {"gain"})
    <3>1. PICK g \in 16 .. 512 : Begin(V4l2, "gain", sensor_s_gain(g), {"gain"}) BY <2>2
    <3>2. Planned(V4l2, "gain", sensor_s_gain(g), {"gain"}) BY DEF Planned, GainRange
    <3> QED BY <1>1, <3>1, <3>2, Tasking, PlannedTyped DEF sensor_s_ctrl
  <2> QED BY <1>1, <2>1, <2>2 DEF sensor_s_ctrl
<1>2. CASE sensor_ioctl
  <2>1. PICK e \in Exps, g \in Gains :
          Begin(V4l2, "exp_gain", sensor_s_exp_gain(e, g), {"exp", "gain"})
    BY <1>2 DEF sensor_ioctl
  <2>2. Planned(V4l2, "exp_gain", sensor_s_exp_gain(e, g), {"exp", "gain"})
    BY <1>0 DEF Planned
  <2> QED BY <1>2, <2>1, <2>2, Tasking, PlannedTyped DEF sensor_ioctl
<1>3. CASE sensor_s_fmt
  <2>1. PICK large \in BOOLEAN :
          /\ info' = [info EXCEPT !.current_wins = WindowFor(large)]
          /\ Begin(V4l2, "fmt", Table(WindowFor(large)), {"fmt", "page", "exp", "gain"})
    BY <1>3 DEF sensor_s_fmt
  <2>2. WindowFor(large) \in Windows BY DEF WindowFor, Windows
  <2>3. Planned(V4l2, "fmt", Table(WindowFor(large)), {"fmt", "page", "exp", "gain"})
    BY <2>2 DEF Planned
  <2> QED BY <1>3, <2>1, <2>2, <2>3, Tasking, PlannedTyped DEF sensor_s_fmt
<1>4. CASE \E t \in Misc : matata_exposure_write(t)
  <2>1. PICK t \in Misc : matata_exposure_write(t) BY <1>4
  <2>2. PICK e \in Exps : Begin(t, "exp", sensor_s_exp(e), {"exp"})
    BY <2>1 DEF matata_exposure_write
  <2>3. Planned(t, "exp", sensor_s_exp(e), {"exp"}) BY <1>0 DEF Planned
  <2>4. t \in Tasks /\ t # V4l2 BY SensorAssumption, Tasking
  <2> QED BY <2>1, <2>2, <2>3, <2>4, PlannedTyped DEF matata_exposure_write
<1> QED BY <1>1, <1>2, <1>3, <1>4 DEF Opening

(* A transfer: what is left of its call, and what the sensor makes of it.  *)
LEMMA Transfers ==
  ASSUME TypeOK, Todo, NEW t \in Tasks, sensor_write(t)
  PROVE  LET w == Head(todo[t]) IN
         /\ todo[t] # <<>> /\ w \in Writes /\ call[t] \in Calls /\ bus = "free"
         /\ call' \in [Tasks -> Calls \union {NULL}]
         /\ call'[t] \in Calls /\ call'[t].kind = call[t].kind
         /\ call[t].lost => call'[t].lost
         /\ todo' \in [Tasks -> Seq(Steps)]
         /\ \/ todo'[t] = Tail(todo[t]) \/ todo'[t] = todo[t]
            \/ call'[t].lost /\ call[t].kind = "fmt" /\ todo'[t] = <<>>
         /\ \A u \in Tasks \ {t} : call'[u] = call[u] /\ todo'[u] = todo[u]
         /\ \/ Take(w)
            \/ (call'[t].lost \/ todo'[t] = todo[t]) /\ page' = page /\ regs' = regs
         /\ UNCHANGED <<power, switching, held, bus, info, left, sure, mixed>>
         /\ losses' \in 0 .. MaxLost
<1>1. todo[t] \in Seq(Steps) /\ todo[t] # <<>> /\ call[t] \in Calls
  BY DEF TypeOK, Todo, sensor_write, Next_is
<1>2. Head(todo[t]) \in Steps /\ Tail(todo[t]) \in Seq(Steps) BY <1>1
<1>3. Head(todo[t]) \in Writes BY <1>2 DEF sensor_write, Next_is, Steps, Notes
<1>4. After(t) \in {Tail(todo[t]), <<>>} /\ (After(t) # Tail(todo[t]) => call[t].kind = "fmt")
  BY DEF After
<1>a. /\ call[t].kind \in Kinds /\ call[t].lost \in BOOLEAN /\ call[t].tries \in 0 .. 2
      /\ call \in [Tasks -> Calls \union {NULL}] /\ todo \in [Tasks -> Seq(Steps)]
  BY <1>1 DEF Calls, TypeOK, Todo
<1>b. AttemptFails(t) =>
        /\ Take(Head(todo[t])) \/ UNCHANGED <<page, regs>>
        /\ losses' = losses \/ (losses < MaxLost /\ losses' = losses + 1)
  BY DEF AttemptFails
<1>5. \/ /\ Take(Head(todo[t])) /\ losses' = losses
         /\ todo' = [todo EXCEPT ![t] = Tail(@)] /\ call' = [call EXCEPT ![t].tries = 0]
      \/ /\ call[t].tries < 2 /\ AttemptFails(t)
         /\ todo' = todo /\ call' = [call EXCEPT ![t].tries = @ + 1]
      \/ /\ AttemptFails(t) /\ todo' = [todo EXCEPT ![t] = After(t)]
         /\ call' = [call EXCEPT ![t].lost = TRUE, ![t].tries = 0]
  BY DEF sensor_write
<1>6. bus = "free" /\ UNCHANGED <<power, switching, held, bus, info, left, sure, mixed>>
  BY DEF sensor_write
<1>7. losses' \in 0 .. MaxLost BY <1>5, <1>b, SensorAssumption DEF TypeOK
<1>8. CASE /\ todo' = [todo EXCEPT ![t] = Tail(@)] /\ call' = [call EXCEPT ![t].tries = 0]
           /\ Take(Head(todo[t]))
  <2>1. call'[t] = [call[t] EXCEPT !.tries = 0] BY <1>8, <1>a
  <2>2. call'[t] \in Calls /\ call'[t].kind = call[t].kind /\ call'[t].lost = call[t].lost
    BY <1>1, <1>a, <2>1 DEF Calls
  <2>3. call' \in [Tasks -> Calls \union {NULL}] /\ \A u \in Tasks \ {t} : call'[u] = call[u]
    BY <1>8, <1>a, <2>1, <2>2
  <2>4. /\ todo' \in [Tasks -> Seq(Steps)] /\ todo'[t] = Tail(todo[t])
        /\ \A u \in Tasks \ {t} : todo'[u] = todo[u]
    BY <1>2, <1>8, <1>a
  <2> QED BY <1>1, <1>3, <1>6, <1>7, <1>8, <2>2, <2>3, <2>4
<1>9. CASE /\ call[t].tries < 2 /\ todo' = todo /\ call' = [call EXCEPT ![t].tries = @ + 1]
           /\ Take(Head(todo[t])) \/ UNCHANGED <<page, regs>>
  <2>1. call'[t] = [call[t] EXCEPT !.tries = call[t].tries + 1] BY <1>9, <1>a
  <2>2. call'[t] \in Calls /\ call'[t].kind = call[t].kind /\ call'[t].lost = call[t].lost
    <3>1. call[t].tries + 1 \in 0 .. 2 BY <1>9, <1>a
    <3> QED BY <1>1, <1>a, <2>1, <3>1 DEF Calls
  <2>3. call' \in [Tasks -> Calls \union {NULL}] /\ \A u \in Tasks \ {t} : call'[u] = call[u]
    BY <1>9, <1>a, <2>1, <2>2
  <2> QED BY <1>1, <1>3, <1>6, <1>7, <1>9, <1>a, <2>2, <2>3
<1>10. CASE /\ todo' = [todo EXCEPT ![t] = After(t)]
            /\ call' = [call EXCEPT ![t].lost = TRUE, ![t].tries = 0]
            /\ Take(Head(todo[t])) \/ UNCHANGED <<page, regs>>
  <2>1. call'[t] = [call[t] EXCEPT !.lost = TRUE, !.tries = 0] BY <1>10, <1>a
  <2>2. call'[t] \in Calls /\ call'[t].kind = call[t].kind /\ call'[t].lost
    <3> DEFINE d == [call[t] EXCEPT !.lost = TRUE]
    <3>1. d \in Calls /\ d.kind = call[t].kind /\ d.lost BY <1>1, <1>a DEF Calls
    <3>2. call'[t] = [d EXCEPT !.tries = 0] BY <2>1
    <3> HIDE DEF d
    <3> QED BY <3>1, <3>2 DEF Calls
  <2>3. call' \in [Tasks -> Calls \union {NULL}] /\ \A u \in Tasks \ {t} : call'[u] = call[u]
    BY <1>10, <1>a, <2>1, <2>2
  <2>4. todo' \in [Tasks -> Seq(Steps)] /\ todo'[t] = After(t)
        /\ \A u \in Tasks \ {t} : todo'[u] = todo[u]
    <3>1. After(t) \in Seq(Steps)
      <4>1. <<>> \in Seq(Steps) OBVIOUS
      <4> QED BY <1>2, <1>4, <4>1
    <3>2. todo' = [todo EXCEPT ![t] = After(t)] BY <1>10
    <3> QED BY <3>1, <3>2 DEF Todo
  <2>5. todo'[t] = Tail(todo[t])
          \/ (call'[t].lost /\ call[t].kind = "fmt" /\ todo'[t] = <<>>)
    BY <1>4, <2>2, <2>4
  <2>6. Take(Head(todo[t])) \/ (call'[t].lost /\ page' = page /\ regs' = regs)
    BY <1>10, <2>2
  <2> QED BY <1>1, <1>3, <1>6, <1>7, <2>2, <2>3, <2>4, <2>5, <2>6
<1> QED BY <1>5, <1>b, <1>8, <1>9, <1>10

LEMMA Assigns ==
  ASSUME TypeOK, Todo, NEW t \in Tasks, Assign(t)
  PROVE  LET n == Head(todo[t]) IN
         /\ todo[t] # <<>> /\ n \in Notes /\ call[t] \in Calls
         /\ todo' \in [Tasks -> Seq(Steps)] /\ todo'[t] = Tail(todo[t])
         /\ \A u \in Tasks \ {t} : todo'[u] = todo[u]
         /\ info' = [info EXCEPT ![n.reg] = n.val]
         /\ UNCHANGED <<hw, call, losses, left, sure, mixed>>
<1>1. todo[t] \in Seq(Steps) /\ todo[t] # <<>> /\ call[t] \in Calls
  BY DEF TypeOK, Todo, Assign, Next_is
<1>2. Head(todo[t]) \in Steps /\ Tail(todo[t]) \in Seq(Steps) BY <1>1
<1>3. Head(todo[t]) \in Notes BY <1>2 DEF Assign, Next_is, Steps, Writes
<1> QED BY <1>1, <1>2, <1>3 DEF Assign, Todo

-----------------------------------------------------------------------------
(* The invariant holds at first, and every step keeps it.                  *)

InfoRange ==
  [exp : Noted, gain : {0} \union GainRange, fps : Nat,
   current_wins : Windows \union {NULL}]

LEMMA InfoTyped ==
  ASSUME TypeOK
  PROVE  /\ info \in InfoRange
         /\ \A w \in Windows : [info EXCEPT !.current_wins = w] \in InfoRange
         /\ \A r \in Nat : [info EXCEPT !.fps = r] \in InfoRange
         /\ [info EXCEPT !.gain = 0, !.fps = 30] \in InfoRange
         /\ \A n \in Notes : [info EXCEPT ![n.reg] = n.val] \in InfoRange
<1>1. info \in InfoRange BY DEF TypeOK, InfoRange
<1>2. \A w \in Windows : [info EXCEPT !.current_wins = w] \in InfoRange BY <1>1 DEF InfoRange
<1>3. \A r \in Nat : [info EXCEPT !.fps = r] \in InfoRange BY <1>1 DEF InfoRange
<1>4. [info EXCEPT !.gain = 0, !.fps = 30] \in InfoRange
  <2> DEFINE i == [info EXCEPT !.gain = 0]
  <2>1. i \in InfoRange BY <1>1 DEF InfoRange
  <2>2. [info EXCEPT !.gain = 0, !.fps = 30] = [i EXCEPT !.fps = 30] OBVIOUS
  <2> HIDE DEF i
  <2>3. [i EXCEPT !.fps = 30] \in InfoRange BY <2>1 DEF InfoRange
  <2> QED BY <2>2, <2>3
<1>5. ASSUME NEW n \in Notes PROVE [info EXCEPT ![n.reg] = n.val] \in InfoRange
  <2>1. CASE n.reg = "exp" /\ n.val \in Noted
    <3>1. [info EXCEPT !.exp = n.val] \in InfoRange BY <1>1, <2>1 DEF InfoRange
    <3> QED BY <2>1, <3>1
  <2>2. CASE n.reg = "gain" /\ n.val \in GainRange
    <3>1. [info EXCEPT !.gain = n.val] \in InfoRange BY <1>1, <2>2 DEF InfoRange
    <3> QED BY <2>2, <3>1
  <2> QED BY <2>1, <2>2 DEF Notes
<1> QED BY <1>1, <1>2, <1>3, <1>4, <1>5

Hardware ==
  /\ power \in {"off", "standby", "on"} /\ switching \in {"off", "standby", "on", NULL}
  /\ held \in BOOLEAN /\ bus \in {"free", "locked"}
  /\ page \in 0 .. 3 /\ regs \in [Slots -> Bytes]

LEMMA Typed ==
  ASSUME Hardware', info' \in InfoRange, call' \in [Tasks -> Calls \union {NULL}],
         \A t \in Tasks : call'[t] = NULL => todo'[t] = <<>>,
         losses' \in 0 .. MaxLost, left' \in 0 .. MaxCalls,
         sure' \subseteq {"fmt", "page", "exp", "gain"}, mixed' \in BOOLEAN
  PROVE  TypeOK'
<1>1. /\ power' \in {"off", "standby", "on"} /\ switching' \in {"off", "standby", "on", NULL}
      /\ held' \in BOOLEAN /\ bus' \in {"free", "locked"}
      /\ page' \in 0 .. 3 /\ regs' \in [Slots -> Bytes]
  BY Zenon DEF Hardware
<1> QED BY <1>1, Zenon DEF TypeOK, InfoRange

LEMMA Hard == TypeOK => Hardware
<1> SUFFICES ASSUME TypeOK PROVE Hardware OBVIOUS
<1> QED BY Zenon DEF TypeOK, Hardware

LEMMA HardwareStays == ASSUME Hardware, UNCHANGED hw PROVE Hardware'
<1>1. /\ power' = power /\ switching' = switching /\ held' = held /\ bus' = bus
      /\ page' = page /\ regs' = regs
  BY DEF hw
<1> QED BY <1>1, Zenon DEF Hardware

LEMMA InvInit ==
  ASSUME Init
  PROVE  SensorInv
<1>1. 0 \in Noted BY ExpMaxNat DEF Noted
<1>2. <<>> \in Seq(Steps) OBVIOUS
<1>3. TypeOK
  <2>1. regs \in [Slots -> Bytes] BY DEF Init, Cleared, Bytes
  <2>2. info \in InfoRange BY <1>1 DEF Init, InfoRange
  <2>3. call \in [Tasks -> Calls \union {NULL}] /\ \A t \in Tasks : todo[t] = <<>>
    BY DEF Init
  <2>4. losses \in 0 .. MaxLost /\ left \in 0 .. MaxCalls BY SensorAssumption DEF Init
  <2>5. /\ power \in {"off", "standby", "on"} /\ switching \in {"off", "standby", "on", NULL}
        /\ bus \in {"free", "locked"} /\ page \in 0 .. 3
        /\ sure \subseteq {"fmt", "page", "exp", "gain"}
    BY DEF Init
  <2>6. held \in BOOLEAN /\ mixed \in BOOLEAN BY Zenon DEF Init
  <2> QED BY <2>1, <2>2, <2>3, <2>4, <2>5, <2>6 DEF TypeOK, InfoRange
<1>4. Todo BY <1>2 DEF Init, Todo, Kind
<1> QED BY <1>3, <1>4 DEF Init, SensorInv, Locked, Met, Withdrawn, Kind, PageSelected

(* The sensor takes a value of a call.                                     *)
LEMMA Taken ==
  ASSUME TypeOK, NEW w \in Writes, Take(w)
  PROVE  /\ page' \in 0 .. 3 /\ regs' \in [Slots -> Bytes]
         /\ w \in Mild => /\ page = 0 => page' = 0
                          /\ \A s \in Slots : s[1] # page \/ s[2] # w.reg => regs'[s] = regs[s]
<1>1. w.val \in Bytes /\ w.reg \in Nat /\ w.op = "write" BY DEF Writes
<1>2. CASE w.reg = 254
  <2>1. page' = w.val % 4 /\ regs' = IF w.val >= 128 THEN Cleared ELSE regs BY <1>2 DEF Take
  <2>2. page' \in 0 .. 3 BY <1>1, <2>1 DEF Bytes
  <2>3. regs' \in [Slots -> Bytes] BY <2>1 DEF TypeOK, Cleared, Bytes
  <2>4. w \in Mild => page' = 0 /\ regs' = regs BY <1>1, <1>2, <2>1 DEF Mild
  <2> QED BY <2>2, <2>3, <2>4
<1>3. CASE w.reg # 254
  <2>1. page' = page /\ regs' = [s \in Slots |-> IF s = <<page, w.reg>> THEN w.val ELSE regs[s]]
    BY <1>3 DEF Take
  <2>2. regs' \in [Slots -> Bytes] BY <1>1, <2>1 DEF TypeOK
  <2>3. ASSUME NEW s \in Slots, s[1] # page \/ s[2] # w.reg PROVE regs'[s] = regs[s]
    <3>1. s # <<page, w.reg>> BY <2>3
    <3> QED BY <2>1, <3>1
  <2> QED BY <2>1, <2>2, <2>3 DEF TypeOK
<1> QED BY <1>2, <1>3

(* A call begins.                                                          *)
LEMMA Begins ==
  ASSUME TypeOK, Todo, NEW t \in Tasks, NEW kind \in Kinds, NEW steps, NEW changes,
         Begin(t, kind, steps, changes), Planned(t, kind, steps, changes)
  PROVE  /\ call[t] = NULL /\ call'[t] = [kind |-> kind, lost |-> FALSE, tries |-> 0] /\ call'[t] \in Calls
         /\ todo'[t] = steps
         /\ \A u \in Tasks \ {t} : call'[u] = call[u] /\ todo'[u] = todo[u]
         /\ call' \in [Tasks -> Calls \union {NULL}] /\ todo' \in [Tasks -> Seq(Steps)]
         /\ sure' = sure \ changes /\ mixed' \in BOOLEAN
         /\ \A u \in Tasks \ {t} : call[u] # NULL => mixed'
         /\ left' \in 0 .. MaxCalls /\ UNCHANGED <<hw, losses>>
<1>1. [kind |-> kind, lost |-> FALSE, tries |-> 0] \in Calls BY DEF Calls
<1>2. steps \in Seq(Steps) BY PlannedTyped
<1>3. /\ call' = [call EXCEPT ![t] = [kind |-> kind, lost |-> FALSE, tries |-> 0]]
      /\ todo' = [todo EXCEPT ![t] = steps]
  BY DEF Begin
<1>4. mixed' = (\E u \in Tasks \ {t} : call[u] # NULL) BY DEF Begin, Idle
<1>5. left' \in 0 .. MaxCalls
  BY SensorAssumption DEF Begin, OneMoreCall, TypeOK
<1>6. mixed' \in BOOLEAN /\ \A u \in Tasks \ {t} : call[u] # NULL => mixed' BY <1>4, Zenon
<1> QED BY <1>1, <1>2, <1>3, <1>5, <1>6 DEF Begin, Idle, TypeOK, Todo

LEMMA InvOpening ==
  ASSUME SensorInv, Opening
  PROVE  SensorInv'
<1> USE DEF SensorInv
<1>1. PICK t \in Tasks, kind \in Kinds, steps \in Seq(Steps), changes \in SUBSET Facts :
        /\ Begin(t, kind, steps, changes) /\ Planned(t, kind, steps, changes)
        /\ t = V4l2 => switching = NULL
        /\ \/ info' = info
           \/ kind = "fmt" /\ \E w \in Windows : info' = [info EXCEPT !.current_wins = w]
  BY Opens
<1>2. /\ call[t] = NULL /\ call'[t] = [kind |-> kind, lost |-> FALSE, tries |-> 0] /\ call'[t] \in Calls
      /\ todo'[t] = steps
      /\ \A u \in Tasks \ {t} : call'[u] = call[u] /\ todo'[u] = todo[u]
      /\ call' \in [Tasks -> Calls \union {NULL}] /\ todo' \in [Tasks -> Seq(Steps)]
      /\ sure' = sure \ changes /\ mixed' \in BOOLEAN
      /\ \A u \in Tasks \ {t} : call[u] # NULL => mixed'
      /\ left' \in 0 .. MaxCalls /\ UNCHANGED <<hw, losses>>
  BY <1>1, Begins
<1>3. /\ steps \in Seq(Steps)
      /\ kind # "fmt" => steps \in Seq(Mild)
      /\ kind = "exp" => steps \in Seq(OfExp)
      /\ kind = "gain" => steps \in Seq(OfGain)
      /\ kind # "exp" => t = V4l2
  BY <1>1, PlannedTyped
<1>4. call'[t] # NULL /\ call'[t].kind = kind
  <2>1. NULL \notin Calls BY SensorAssumption
  <2>2. call'[t] # NULL BY <1>2, <2>1
  <2>3. [kind |-> kind, lost |-> FALSE, tries |-> 0].kind = kind OBVIOUS
  <2> QED BY <1>2, <2>2, <2>3
<1>5. Todo'
  <2>1. ASSUME NEW u \in Tasks
        PROVE  /\ call'[u] = NULL => todo'[u] = <<>>
               /\ Kind(u, {"exp", "gain", "exp_gain"})' => todo'[u] \in Seq(Mild)
               /\ Kind(u, {"exp"})' => todo'[u] \in Seq(OfExp)
               /\ Kind(u, {"gain"})' => todo'[u] \in Seq(OfGain)
               /\ u # V4l2 => ~Kind(u, {"gain", "exp_gain", "fmt"})'
    <3>1. CASE u = t BY <1>2, <1>3, <1>4, <3>1 DEF Kind, Kinds
    <3>2. CASE u # t BY <1>2, <3>2 DEF Kind, Todo
    <3> QED BY <3>1, <3>2
  <2> QED BY <1>2, <2>1 DEF Todo
<1>6. TypeOK'
  <2>1. info' \in InfoRange BY <1>1, InfoTyped
  <2>2. \A u \in Tasks : call'[u] = NULL => todo'[u] = <<>> BY <1>5 DEF Todo
  <2>3. sure' \subseteq {"fmt", "page", "exp", "gain"} BY <1>2 DEF TypeOK
  <2>4. Hardware' BY <1>2, Hard, HardwareStays
  <2>5. losses' \in 0 .. MaxLost BY <1>2 DEF TypeOK
  <2> QED BY <1>2, <2>1, <2>2, <2>3, <2>4, <2>5, Typed
<1>7. Locked' BY <1>1, <1>2, Tasking DEF Locked, hw
<1>8. Met' BY <1>2 DEF Met
<1>9. Withdrawn'
  <2>1. /\ kind = "fmt" => changes = {"fmt", "page", "exp", "gain"}
        /\ kind \in {"exp", "exp_gain"} => "exp" \in changes
        /\ kind \in {"gain", "exp_gain"} => "gain" \in changes
    BY <1>1 DEF Planned
  <2>2. kind = "fmt" => sure' = {} BY <1>2, <2>1 DEF TypeOK
  <2> QED BY <1>2, <1>4, <2>1, <2>2 DEF Withdrawn, Kind
<1>10. PageSelected' BY <1>2 DEF PageSelected, hw
<1> QED BY <1>5, <1>6, <1>7, <1>8, <1>9, <1>10

LEMMA TailOf ==
  ASSUME NEW S, NEW q \in Seq(S), q # <<>>
  PROVE  Tail(q) \in Seq(S) /\ Head(q) \in S
OBVIOUS

(* One step of a call leaves the kind of what is left.                     *)
LEMMA TodoStays ==
  ASSUME Todo, NEW t \in Tasks, todo[t] # <<>>, call[t] # NULL,
         call'[t] # NULL, call'[t].kind = call[t].kind,
         todo' \in [Tasks -> Seq(Steps)],
         todo'[t] = Tail(todo[t]) \/ todo'[t] = todo[t] \/ todo'[t] = <<>>,
         \A u \in Tasks \ {t} : call'[u] = call[u] /\ todo'[u] = todo[u]
  PROVE  Todo'
<1>1. ASSUME NEW u \in Tasks
      PROVE  /\ call'[u] = NULL => todo'[u] = <<>>
             /\ Kind(u, {"exp", "gain", "exp_gain"})' => todo'[u] \in Seq(Mild)
             /\ Kind(u, {"exp"})' => todo'[u] \in Seq(OfExp)
             /\ Kind(u, {"gain"})' => todo'[u] \in Seq(OfGain)
             /\ u # V4l2 => ~Kind(u, {"gain", "exp_gain", "fmt"})'
  <2>1. CASE u = t
    <3>1. \A k : Kind(t, k)' <=> Kind(t, k) BY DEF Kind
    <3>2. ASSUME NEW S, todo[t] \in Seq(S) PROVE todo'[t] \in Seq(S)
      <4>1. Tail(todo[t]) \in Seq(S) BY <3>2, TailOf
      <4>2. <<>> \in Seq(S) OBVIOUS
      <4> QED BY <3>2, <4>1, <4>2
    <3>3. /\ Kind(t, {"exp", "gain", "exp_gain"}) => todo'[t] \in Seq(Mild)
          /\ Kind(t, {"exp"}) => todo'[t] \in Seq(OfExp)
          /\ Kind(t, {"gain"}) => todo'[t] \in Seq(OfGain)
      BY <3>2 DEF Todo
    <3> QED BY <2>1, <3>1, <3>3 DEF Todo
  <2>2. CASE u # t BY <2>2 DEF Todo, Kind
  <2> QED BY <2>1, <2>2
<1> QED BY <1>1 DEF Todo

(* What a step of a call writes, unless it writes a table.                 *)
LEMMA HeadMild ==
  ASSUME TypeOK, Todo, NEW t \in Tasks, call[t] \in Calls, todo[t] # <<>>,
         call[t].kind # "fmt"
  PROVE  Head(todo[t]) \in Mild
<1>1. call[t].kind \in {"exp", "gain", "exp_gain"} /\ call[t] # NULL
  BY SensorAssumption DEF Calls, Kinds
<1>2. todo[t] \in Seq(Mild) BY <1>1 DEF Todo, Kind
<1> QED BY <1>2, TailOf

LEMMA InvWrite ==
  ASSUME SensorInv, NEW t \in Tasks, sensor_write(t)
  PROVE  SensorInv'
<1> USE DEF SensorInv
<1> DEFINE w == Head(todo[t])
<1>1. /\ todo[t] # <<>> /\ w \in Writes /\ call[t] \in Calls /\ bus = "free"
      /\ call' \in [Tasks -> Calls \union {NULL}]
      /\ call'[t] \in Calls /\ call'[t].kind = call[t].kind
      /\ todo' \in [Tasks -> Seq(Steps)]
      /\ todo'[t] = Tail(todo[t]) \/ todo'[t] = todo[t] \/ todo'[t] = <<>>
      /\ \A u \in Tasks \ {t} : call'[u] = call[u] /\ todo'[u] = todo[u]
      /\ Take(w) \/ (page' = page /\ regs' = regs)
      /\ UNCHANGED <<power, switching, held, bus, info, left, sure, mixed>>
      /\ losses' \in 0 .. MaxLost
  BY Transfers
<1>2. NULL \notin Calls BY SensorAssumption
<1>3. call[t] # NULL /\ call'[t] # NULL BY <1>1, <1>2
<1> HIDE DEF w
<1>4. Todo' BY <1>1, <1>3, TodoStays
<1>5. TypeOK'
  <2>1. page' \in 0 .. 3 /\ regs' \in [Slots -> Bytes]
    <3>1. CASE Take(w) BY <1>1, <3>1, Taken
    <3>2. CASE page' = page /\ regs' = regs BY <3>2 DEF TypeOK
    <3> QED BY <1>1, <3>1, <3>2
  <2>2. Hardware'
    <3>1. Hardware BY Hard
    <3> QED BY <1>1, <2>1, <3>1, Zenon DEF Hardware
  <2>3. info' \in InfoRange BY <1>1, InfoTyped
  <2>4. \A u \in Tasks : call'[u] = NULL => todo'[u] = <<>> BY <1>4 DEF Todo
  <2>5. /\ left' \in 0 .. MaxCalls /\ sure' \subseteq {"fmt", "page", "exp", "gain"}
        /\ mixed' \in BOOLEAN
    BY <1>1, Zenon DEF TypeOK
  <2> QED BY <1>1, <2>2, <2>3, <2>4, <2>5, Typed
<1>6. Locked' BY <1>1, <1>3 DEF Locked
<1>7. Met' BY <1>1, <1>3 DEF Met
<1>8. Withdrawn' BY <1>1, <1>3 DEF Withdrawn, Kind
<1>9. PageSelected'
  <2> SUFFICES ASSUME "page" \in sure' PROVE page' = 0 BY DEF PageSelected
  <2>1. "page" \in sure /\ page = 0 BY <1>1 DEF PageSelected
  <2>2. call[t].kind # "fmt" BY <1>3, <2>1 DEF Withdrawn, Kind
  <2>3. w \in Mild BY <1>1, <2>2, HeadMild DEF w
  <2> QED BY <1>1, <2>1, <2>3, Taken
<1> QED BY <1>4, <1>5, <1>6, <1>7, <1>8, <1>9

LEMMA InvAssign ==
  ASSUME SensorInv, NEW t \in Tasks, Assign(t)
  PROVE  SensorInv'
<1> USE DEF SensorInv
<1> DEFINE n == Head(todo[t])
<1>1. /\ todo[t] # <<>> /\ n \in Notes /\ call[t] \in Calls
      /\ todo' \in [Tasks -> Seq(Steps)] /\ todo'[t] = Tail(todo[t])
      /\ \A u \in Tasks \ {t} : todo'[u] = todo[u]
      /\ info' = [info EXCEPT ![n.reg] = n.val]
      /\ UNCHANGED <<hw, call, losses, left, sure, mixed>>
  BY Assigns
<1>2. call[t] # NULL BY <1>1, SensorAssumption
<1> HIDE DEF n
<1>3. call' = call BY <1>1
<1>4. Todo' BY <1>1, <1>2, <1>3, TodoStays
<1>5. TypeOK'
  <2>1. Hardware' BY <1>1, Hard, HardwareStays
  <2>2. info' \in InfoRange BY <1>1, InfoTyped
  <2>3. \A u \in Tasks : call'[u] = NULL => todo'[u] = <<>> BY <1>4 DEF Todo
  <2>4. /\ call' \in [Tasks -> Calls \union {NULL}]
        /\ losses' \in 0 .. MaxLost /\ left' \in 0 .. MaxCalls
        /\ sure' \subseteq {"fmt", "page", "exp", "gain"} /\ mixed' \in BOOLEAN
    BY <1>1, Zenon DEF TypeOK
  <2> QED BY <2>1, <2>2, <2>3, <2>4, Typed
<1>6. Locked' BY <1>1 DEF Locked, hw
<1>7. Met' BY <1>1 DEF Met
<1>8. Withdrawn' BY <1>1 DEF Withdrawn, Kind
<1>9. PageSelected' BY <1>1 DEF PageSelected, hw
<1> QED BY <1>4, <1>5, <1>6, <1>7, <1>8, <1>9

(* A call that returns: what it ensures, and when.                         *)
LEMMA Returns ==
  ASSUME TypeOK, NEW t \in Tasks, Return(t)
  PROVE  /\ call[t] \in Calls /\ todo[t] = <<>> /\ call' = [call EXCEPT ![t] = NULL]
         /\ UNCHANGED <<hw, info, todo, losses, left>>
         /\ mixed' \in BOOLEAN
         /\ \A u \in Tasks \ {t} : mixed /\ call[u] # NULL => mixed'
         /\ sure \subseteq sure' /\ sure' \subseteq {"fmt", "page", "exp", "gain"}
         /\ "page" \in sure' \ sure => call[t].kind = "fmt" /\ ~call[t].lost
         /\ "fmt" \in sure' \ sure => call[t].kind = "fmt" /\ ~call[t].lost /\ ~mixed
         /\ "exp" \in sure' \ sure =>
              call[t].kind \in {"exp", "exp_gain"} /\ ~call[t].lost /\ ~mixed
         /\ "gain" \in sure' \ sure =>
              call[t].kind \in {"gain", "exp_gain"} /\ ~call[t].lost /\ "page" \in sure
<1>1. call[t] \in Calls /\ call[t].kind \in Kinds /\ call[t].lost \in BOOLEAN
  BY DEF TypeOK, Return, Idle, Calls
<1>2. mixed' = (mixed /\ \E u \in Tasks \ {t} : call[u] # NULL) BY DEF Return, Idle
<1>3. mixed' \in BOOLEAN /\ \A u \in Tasks \ {t} : mixed /\ call[u] # NULL => mixed'
  BY <1>2, Zenon
<1>4. sure' = sure \/ (Succeeds(t) /\ sure' = sure \union Ensured(t)) BY DEF Return
<1>5. /\ sure \subseteq sure'
      /\ \A x : x \in sure' \ sure => Succeeds(t) /\ x \in Ensured(t)
  BY <1>4
<1>6. /\ Ensured(t) \subseteq {"fmt", "page", "exp", "gain"}
      /\ "page" \in Ensured(t) => call[t].kind = "fmt"
      /\ "fmt" \in Ensured(t) => call[t].kind = "fmt" /\ ~mixed
      /\ "exp" \in Ensured(t) => call[t].kind \in {"exp", "exp_gain"} /\ ~call[t].lost /\ ~mixed
      /\ "gain" \in Ensured(t) =>
           call[t].kind \in {"gain", "exp_gain"} /\ ~call[t].lost /\ "page" \in sure
  <2>1. CASE call[t].kind = "fmt"
    <3>1. Ensured(t) = {"page"} \union (IF mixed THEN {} ELSE {"fmt"})
      BY <2>1, Zenon DEF Ensured
    <3> QED BY <2>1, <3>1
  <2>2. CASE call[t].kind # "fmt" /\ call[t].lost
    <3>1. Ensured(t) = {} BY <2>2, Zenon DEF Ensured
    <3> QED BY <3>1
  <2>3. CASE call[t].kind # "fmt" /\ ~call[t].lost
    <3>1. Ensured(t) =
            (IF call[t].kind \in {"exp", "exp_gain"} /\ ~mixed THEN {"exp"} ELSE {})
              \union (IF call[t].kind \in {"gain", "exp_gain"} /\ "page" \in sure
                      THEN {"gain"} ELSE {})
      BY <2>3 DEF Ensured
    <3> QED BY <2>3, <3>1
  <2> QED BY <1>1, <2>1, <2>2, <2>3
<1>7. Succeeds(t) /\ call[t].kind = "fmt" => ~call[t].lost BY DEF Succeeds
<1>8. sure' \subseteq {"fmt", "page", "exp", "gain"}
  <2>1. sure \subseteq {"fmt", "page", "exp", "gain"} BY DEF TypeOK
  <2> QED BY <1>5, <1>6, <2>1
<1> QED BY <1>1, <1>3, <1>5, <1>6, <1>7, <1>8 DEF Return

LEMMA InvReturn ==
  ASSUME SensorInv, Loading, NEW t \in Tasks, Return(t)
  PROVE  SensorInv'
<1> USE DEF SensorInv
<1>1. /\ call[t] \in Calls /\ todo[t] = <<>> /\ call' = [call EXCEPT ![t] = NULL]
      /\ UNCHANGED <<hw, info, todo, losses, left>>
      /\ mixed' \in BOOLEAN
      /\ \A u \in Tasks \ {t} : mixed /\ call[u] # NULL => mixed'
      /\ sure \subseteq sure' /\ sure' \subseteq {"fmt", "page", "exp", "gain"}
      /\ "page" \in sure' \ sure => call[t].kind = "fmt" /\ ~call[t].lost
      /\ "fmt" \in sure' \ sure => call[t].kind = "fmt" /\ ~call[t].lost /\ ~mixed
      /\ "exp" \in sure' \ sure =>
           call[t].kind \in {"exp", "exp_gain"} /\ ~call[t].lost /\ ~mixed
      /\ "gain" \in sure' \ sure =>
           call[t].kind \in {"gain", "exp_gain"} /\ ~call[t].lost /\ "page" \in sure
  BY Returns
<1>2. call[t] # NULL BY <1>1, SensorAssumption
<1>3. /\ call' \in [Tasks -> Calls \union {NULL}] /\ call'[t] = NULL
      /\ \A u \in Tasks \ {t} : call'[u] = call[u]
  BY <1>1 DEF TypeOK
<1>4. Todo' BY <1>1, <1>3 DEF Todo, Kind
<1>5. TypeOK'
  <2>1. Hardware' BY <1>1, Hard, HardwareStays
  <2>2. info' \in InfoRange BY <1>1, InfoTyped
  <2>3. \A u \in Tasks : call'[u] = NULL => todo'[u] = <<>> BY <1>4 DEF Todo
  <2>4. losses' \in 0 .. MaxLost /\ left' \in 0 .. MaxCalls BY <1>1 DEF TypeOK
  <2> QED BY <1>1, <1>3, <2>1, <2>2, <2>3, <2>4, Typed
<1>6. Locked' BY <1>1, <1>3, Tasking DEF Locked, hw
<1>7. Met' BY <1>1, <1>3 DEF Met
<1>8. Withdrawn'
  <2>1. ASSUME NEW u \in Tasks \ {t}, Kind(u, {"fmt"}) PROVE sure' = {}
    <3>1. sure = {} BY <2>1 DEF Withdrawn
    <3>2. mixed BY <1>2, <2>1 DEF Met, Kind
    <3>3. u = V4l2 /\ t # V4l2
      <4>1. Kind(u, {"gain", "exp_gain", "fmt"}) BY <2>1 DEF Kind
      <4> QED BY <4>1 DEF Todo
    <3>4. call[t].kind \notin {"gain", "exp_gain", "fmt"} BY <1>2, <3>3 DEF Todo, Kind
    <3>5. \A x \in {"fmt", "page", "exp", "gain"} : x \notin sure' BY <1>1, <3>1, <3>2, <3>4
    <3> QED BY <1>1, <3>5
  <2>2. ASSUME NEW u \in Tasks \ {t}, Kind(u, {"exp", "exp_gain"}) PROVE "exp" \notin sure'
    <3>1. mixed /\ "exp" \notin sure BY <1>2, <2>2 DEF Met, Kind, Withdrawn
    <3> QED BY <1>1, <3>1
  <2>3. ASSUME NEW u \in Tasks \ {t}, Kind(u, {"gain", "exp_gain"}) PROVE "gain" \notin sure'
    <3>1. u = V4l2 /\ t # V4l2
      <4>1. Kind(u, {"gain", "exp_gain", "fmt"}) BY <2>3 DEF Kind
      <4> QED BY <4>1 DEF Todo
    <3>2. call[t].kind \notin {"gain", "exp_gain"} BY <1>2, <3>1 DEF Todo, Kind
    <3> QED BY <1>1, <2>3, <3>2 DEF Withdrawn
  <2> QED BY <1>3, <2>1, <2>2, <2>3 DEF Withdrawn, Kind
<1>9. PageSelected'
  <2>1. ASSUME "page" \in sure' \ sure PROVE page = 0
    <3>1. call[t].kind = "fmt" /\ ~call[t].lost /\ Kind(t, {"fmt"}) BY <1>1, <1>2, <2>1 DEF Kind
    <3>2. PICK w \in Windows, n \in 0 .. 15 : Rest(<<>>, Table(w), n) /\ TableDone(n)
      BY <1>1, <3>1 DEF Loading, Load
    <3>3. n = 15
      <4>1. Table(w) \in Seq(Writes) /\ Len(Table(w)) = 15 BY <3>2, TableSteps
      <4> QED BY <3>2, <4>1, RestEnd
    <3> QED BY <3>2, <3>3 DEF TableDone
  <2> QED BY <1>1, <2>1 DEF PageSelected, hw
<1> QED BY <1>4, <1>5, <1>6, <1>7, <1>8, <1>9

(* Calls that change what the driver remembers, and no register.           *)
Setting == sensor_try_fmt \/ sensor_s_parm \/ sensor_init

LEMMA Settings ==
  ASSUME TypeOK, Setting
  PROVE  /\ info' \in InfoRange /\ info'.exp = info.exp
         /\ info'.gain = info.gain \/ "gain" \notin sure'
         /\ sure' \subseteq sure
         /\ "page" \in sure' => "page" \in sure
         /\ switching = NULL /\ call[V4l2] = NULL /\ left' \in 0 .. MaxCalls
         /\ UNCHANGED <<hw, call, todo, losses, mixed>>
<1>0. Rates \subseteq Nat /\ info \in InfoRange BY SensorAssumption, InfoTyped
<1>1. left > 0 /\ left' = left - 1 => left' \in 0 .. MaxCalls
  BY SensorAssumption DEF TypeOK
<1>2. CASE sensor_try_fmt
  <2>1. PICK large \in BOOLEAN : info' = [info EXCEPT !.current_wins = WindowFor(large)]
    BY <1>2 DEF sensor_try_fmt
  <2>2. WindowFor(large) \in Windows BY DEF WindowFor, Windows
  <2>3. info'.exp = info.exp /\ info'.gain = info.gain BY <1>0, <2>1 DEF InfoRange
  <2> QED BY <1>1, <1>2, <2>1, <2>2, <2>3, InfoTyped DEF sensor_try_fmt, OneMoreCall, Idle
<1>3. CASE sensor_s_parm
  <2>1. PICK r \in Rates : info' = [info EXCEPT !.fps = r] BY <1>3 DEF sensor_s_parm
  <2>2. info'.exp = info.exp /\ info'.gain = info.gain BY <1>0, <2>1 DEF InfoRange
  <2> QED BY <1>0, <1>1, <1>3, <2>1, <2>2, InfoTyped DEF sensor_s_parm, OneMoreCall, Idle
<1>4. CASE sensor_init
  <2>1. info' = [info EXCEPT !.gain = 0, !.fps = 30] BY <1>4 DEF sensor_init
  <2>2. info'.exp = info.exp BY <1>0, <2>1 DEF InfoRange
  <2> QED BY <1>1, <1>4, <2>1, <2>2, InfoTyped DEF sensor_init, OneMoreCall, Idle
<1> QED BY <1>2, <1>3, <1>4 DEF Setting

LEMMA InvSetting ==
  ASSUME SensorInv, Setting
  PROVE  SensorInv'
<1> USE DEF SensorInv
<1>1. /\ info' \in InfoRange
      /\ sure' \subseteq sure /\ left' \in 0 .. MaxCalls
      /\ UNCHANGED <<hw, call, todo, losses, mixed>>
  BY Settings
<1>2. TypeOK'
  <2>1. Hardware' BY <1>1, Hard, HardwareStays
  <2>2. /\ call' \in [Tasks -> Calls \union {NULL}]
        /\ \A t \in Tasks : call'[t] = NULL => todo'[t] = <<>>
        /\ losses' \in 0 .. MaxLost
        /\ sure' \subseteq {"fmt", "page", "exp", "gain"}
    BY <1>1 DEF TypeOK
  <2>3. mixed' \in BOOLEAN BY <1>1, Zenon DEF TypeOK
  <2> QED BY <1>1, <2>1, <2>2, <2>3, Typed
<1>3. Todo' BY <1>1 DEF Todo, Kind
<1>4. Locked' BY <1>1 DEF Locked, hw
<1>5. Met' BY <1>1 DEF Met
<1>6. Withdrawn' BY <1>1 DEF Withdrawn, Kind
<1>7. PageSelected' BY <1>1 DEF PageSelected, hw
<1> QED BY <1>2, <1>3, <1>4, <1>5, <1>6, <1>7

LEMMA InvPower ==
  ASSUME SensorInv, sensor_power
  PROVE  SensorInv'
<1> USE DEF SensorInv
<1>1. /\ call[V4l2] = NULL /\ bus' = "locked"
      /\ UNCHANGED <<power, held, page, regs, info, call, todo, losses, sure, mixed>>
  BY DEF sensor_power, Idle, cci_lock
<1>2. switching' \in {"off", "standby", "on"}
  <2>1. power \in {"off", "standby", "on"} BY DEF TypeOK
  <2>2. Targets \subseteq {"off", "standby", "on"}
    <3>1. CASE power = "off"
      <4>1. Targets = {"on"} BY <3>1 DEF Targets
      <4> QED BY <4>1
    <3>2. CASE power = "on"
      <4>1. Targets = {"off", "standby"} BY <3>2 DEF Targets
      <4> QED BY <4>1
    <3>3. CASE power = "standby"
      <4>1. Targets = {"on", "off"} BY <3>3 DEF Targets
      <4> QED BY <4>1
    <3> QED BY <2>1, <3>1, <3>2, <3>3
  <2> QED BY <2>2 DEF sensor_power
<1>3. TypeOK'
  <2>1. Hardware'
    <3>1. Hardware BY Hard
    <3> QED BY <1>1, <1>2, <3>1, Zenon DEF Hardware
  <2>2. info' \in InfoRange BY <1>1, InfoTyped
  <2>3. left' \in 0 .. MaxCalls BY SensorAssumption DEF sensor_power, OneMoreCall, TypeOK
  <2>4. /\ call' \in [Tasks -> Calls \union {NULL}]
        /\ \A t \in Tasks : call'[t] = NULL => todo'[t] = <<>>
        /\ losses' \in 0 .. MaxLost
        /\ sure' \subseteq {"fmt", "page", "exp", "gain"}
    BY <1>1 DEF TypeOK
  <2>5. mixed' \in BOOLEAN BY <1>1, Zenon DEF TypeOK
  <2> QED BY <2>1, <2>2, <2>3, <2>4, <2>5, Typed
<1>4. Todo' BY <1>1 DEF Todo, Kind
<1>5. Locked' BY <1>1 DEF Locked
<1>6. Met' BY <1>1 DEF Met
<1>7. Withdrawn' BY <1>1 DEF Withdrawn, Kind
<1>8. PageSelected' BY <1>1 DEF PageSelected
<1> QED BY <1>3, <1>4, <1>5, <1>6, <1>7, <1>8

(* The power is switched, or the RESET pin driven: the sensor forgets its  *)
(* registers, or keeps them and its history.                               *)
Switching == cci_unlock \/ sensor_reset

LEMMA Switches ==
  ASSUME SensorInv, Switching
  PROVE  /\ call[V4l2] = NULL /\ switching' = NULL /\ Hardware'
         /\ left' \in 0 .. MaxCalls /\ mixed' \in BOOLEAN
         /\ sure' \subseteq {"fmt", "page", "exp", "gain"}
         /\ UNCHANGED <<info, call, todo, losses>>
         /\ \/ /\ page' = 0 /\ sure' \subseteq {"page"}
               /\ \A t \in Tasks : call[t] # NULL => mixed'
            \/ UNCHANGED <<page, regs, sure>> /\ (mixed => mixed')
<1> USE DEF SensorInv
<1>1. CASE cci_unlock
  <2>1. /\ switching # NULL /\ power' = switching /\ switching' = NULL /\ bus' = "free"
        /\ \/ /\ regs' = Cleared /\ page' = 0 /\ held' = FALSE
              /\ sure' = IF switching = "on" THEN {"page"} ELSE {}
           \/ UNCHANGED <<held, regs, page, sure>>
        /\ UNCHANGED <<info, call, todo, losses, left>>
    BY <1>1 DEF cci_unlock
  <2>2. mixed' = (mixed \/ \E t \in Tasks : call[t] # NULL) BY <1>1 DEF cci_unlock, Idle
  <2>3. mixed' \in BOOLEAN /\ (mixed => mixed') /\ \A t \in Tasks : call[t] # NULL => mixed'
    <3>1. mixed' \in BOOLEAN BY <2>2, Zenon
    <3>2. mixed => mixed' BY <2>2, Zenon
    <3>3. \A t \in Tasks : call[t] # NULL => mixed' BY <2>2, Zenon
    <3> QED BY <3>1, <3>2, <3>3
  <2>4. Hardware'
    <3>1. power' \in {"off", "standby", "on"} BY <2>1 DEF TypeOK
    <3>2. Cleared \in [Slots -> Bytes] /\ 0 \in 0 .. 3 BY DEF Cleared, Bytes
    <3>3. held' \in BOOLEAN BY <2>1, Zenon DEF TypeOK
    <3>4. regs' \in [Slots -> Bytes] /\ page' \in 0 .. 3
      <4>1. regs \in [Slots -> Bytes] /\ page \in 0 .. 3 BY DEF TypeOK
      <4>2. (regs' = Cleared /\ page' = 0) \/ (regs' = regs /\ page' = page) BY <2>1, Zenon
      <4> QED BY <3>2, <4>1, <4>2
    <3> QED BY <2>1, <3>1, <3>3, <3>4, Zenon DEF Hardware
  <2>5. left' \in 0 .. MaxCalls /\ sure' \subseteq {"fmt", "page", "exp", "gain"}
    <3>1. left \in 0 .. MaxCalls /\ sure \subseteq {"fmt", "page", "exp", "gain"} BY DEF TypeOK
    <3> QED BY <2>1, <3>1
  <2>6. \/ page' = 0 /\ sure' \subseteq {"page"}
        \/ UNCHANGED <<page, regs, sure>>
    BY <2>1
  <2> QED BY <2>1, <2>3, <2>4, <2>5, <2>6 DEF Locked
<1>2. CASE sensor_reset
  <2>1. /\ switching = NULL /\ call[V4l2] = NULL
        /\ held' \in BOOLEAN
        /\ UNCHANGED <<power, switching, bus, info, call, todo, losses>>
    BY <1>2 DEF sensor_reset, Idle
  <2>2. left' \in 0 .. MaxCalls BY <1>2, SensorAssumption DEF sensor_reset, OneMoreCall, TypeOK
  <2>3. CASE /\ regs' = Cleared /\ page' = 0 /\ sure' = {"page"}
             /\ mixed' = \E t \in Tasks : ~Idle(t)
    <3>1. mixed' = (\E t \in Tasks : call[t] # NULL) BY <2>3 DEF Idle
    <3>2. mixed' \in BOOLEAN /\ \A t \in Tasks : call[t] # NULL => mixed' BY <3>1, Zenon
    <3>3. Cleared \in [Slots -> Bytes] /\ 0 \in 0 .. 3 BY DEF Cleared, Bytes
    <3>4. Hardware'
      <4>1. Hardware BY Hard
      <4> QED BY <2>1, <2>3, <3>3, <4>1, Zenon DEF Hardware
    <3> QED BY <2>1, <2>2, <2>3, <3>2, <3>4
  <2>4. CASE UNCHANGED <<regs, page, sure, mixed>>
    <3>1. Hardware'
      <4>1. Hardware BY Hard
      <4> QED BY <2>1, <2>4, <4>1, Zenon DEF Hardware
    <3>2. mixed' \in BOOLEAN /\ (mixed => mixed') BY <2>4, Zenon DEF TypeOK
    <3>3. sure' \subseteq {"fmt", "page", "exp", "gain"} BY <2>4 DEF TypeOK
    <3> QED BY <2>1, <2>2, <2>4, <3>1, <3>2, <3>3
  <2> QED BY <1>2, <2>3, <2>4 DEF sensor_reset
<1> QED BY <1>1, <1>2 DEF Switching

LEMMA InvSwitching ==
  ASSUME SensorInv, Switching
  PROVE  SensorInv'
<1> USE DEF SensorInv
<1>1. /\ call[V4l2] = NULL /\ switching' = NULL /\ Hardware'
      /\ left' \in 0 .. MaxCalls /\ mixed' \in BOOLEAN
      /\ sure' \subseteq {"fmt", "page", "exp", "gain"}
      /\ UNCHANGED <<info, call, todo, losses>>
      /\ \/ /\ page' = 0 /\ sure' \subseteq {"page"}
            /\ \A t \in Tasks : call[t] # NULL => mixed'
         \/ UNCHANGED <<page, regs, sure>> /\ (mixed => mixed')
  BY Switches
<1>2. TypeOK'
  <2>1. info' \in InfoRange BY <1>1, InfoTyped
  <2>2. /\ call' \in [Tasks -> Calls \union {NULL}]
        /\ \A t \in Tasks : call'[t] = NULL => todo'[t] = <<>>
        /\ losses' \in 0 .. MaxLost
    BY <1>1 DEF TypeOK
  <2> QED BY <1>1, <2>1, <2>2, Typed
<1>3. Todo' BY <1>1 DEF Todo, Kind
<1>4. Locked' BY <1>1 DEF Locked
<1>5. Met' BY <1>1 DEF Met
<1>6. Withdrawn'
  <2>1. \A t \in Tasks : ~Kind(t, {"fmt"})
    <3> SUFFICES ASSUME NEW t \in Tasks, Kind(t, {"fmt"}) PROVE FALSE OBVIOUS
    <3>1. Kind(t, {"gain", "exp_gain", "fmt"}) BY DEF Kind
    <3>2. t = V4l2 BY <3>1 DEF Todo
    <3> QED BY <1>1, <3>2 DEF Kind
  <2>2. "exp" \in sure' => "exp" \in sure BY <1>1
  <2>3. "gain" \in sure' => "gain" \in sure BY <1>1
  <2> QED BY <1>1, <2>1, <2>2, <2>3 DEF Withdrawn, Kind
<1>7. PageSelected' BY <1>1 DEF PageSelected
<1> QED BY <1>2, <1>3, <1>4, <1>5, <1>6, <1>7

-----------------------------------------------------------------------------
(* The tables.                                                             *)

(* A call for a format sends the next transfer of its table.               *)
LEMMA TableNext ==
  ASSUME TypeOK, NEW w \in Windows, NEW n \in 0 .. 14, TableDone(n),
         Take(Table(w)[n + 1]), mixed' = mixed
  PROVE  TableDone(n + 1)'
<1>1. regs \in [Slots -> Bytes] BY DEF TypeOK
<1>2. <<1, 3>> \in Slots /\ <<1, 4>> \in Slots /\ <<3, 3>> \in Slots BY DEF Slots
<1>3. <<1, 3>> # <<1, 4>> /\ <<1, 3>> # <<3, 3>> /\ <<1, 4>> # <<3, 3>> OBVIOUS
<1>4. CASE n <= 6 BY <1>4 DEF TableDone
<1>5. CASE n = 7
  <2>1. Table(w)[n + 1] = Write(254, 1) BY <1>5, TableSteps
  <2>2. page' = 1 BY <2>1 DEF Take, Write
  <2> QED BY <1>5, <2>2 DEF TableDone
<1>6. CASE n = 8
  <2>1. Table(w)[9] = Write(3, 2) /\ Write(3, 2).reg = 3 /\ Write(3, 2).val = 2
    BY TableSteps DEF Write
  <2>2. page' = page /\ regs' = [s \in Slots |-> IF s = <<page, 3>> THEN 2 ELSE regs[s]]
    BY <1>6, <2>1 DEF Take
  <2>3. ~mixed => page = 1 BY <1>6 DEF TableDone
  <2> QED BY <1>2, <1>6, <2>2, <2>3 DEF TableDone
<1>7. CASE n = 9
  <2>1. Table(w)[10] = Write(4, 3) /\ Write(4, 3).reg = 4 /\ Write(4, 3).val = 3
    BY TableSteps DEF Write
  <2>2. page' = page /\ regs' = [s \in Slots |-> IF s = <<page, 4>> THEN 3 ELSE regs[s]]
    BY <1>7, <2>1 DEF Take
  <2>3. ~mixed => page = 1 /\ regs[<<1, 3>>] = 2 BY <1>7 DEF TableDone
  <2> QED BY <1>2, <1>3, <1>7, <2>2, <2>3 DEF TableDone
<1>8. CASE n \in {10, 11, 12, 14}
  <2>1. /\ Table(w)[11] = Write(254, 2) /\ Table(w)[12] = Write(254, 1)
        /\ Table(w)[13] = Write(254, 3) /\ Table(w)[15] = Write(254, 0)
    BY TableSteps
  <2>2. \A x \in 0 .. 3 : Write(254, x).reg = 254 /\ Write(254, x).val = x BY DEF Write
  <2>3. PICK x \in 0 .. 3 : /\ Table(w)[n + 1] = Write(254, x)
                            /\ n = 12 => x = 3
                            /\ n = 14 => x = 0
    BY <1>8, <2>1
  <2>4. page' = x /\ regs' = regs BY <2>2, <2>3 DEF Take
  <2> QED BY <1>8, <2>3, <2>4 DEF TableDone
<1>9. CASE n = 13
  <2>1. Table(w)[14] = Write(3, 154) /\ Write(3, 154).reg = 3 /\ Write(3, 154).val = 154
    BY TableSteps DEF Write
  <2>2. page' = page /\ regs' = [s \in Slots |-> IF s = <<page, 3>> THEN 154 ELSE regs[s]]
    BY <1>9, <2>1 DEF Take
  <2>3. ~mixed => page = 3 /\ regs[<<1, 3>>] = 2 /\ regs[<<1, 4>>] = 3 BY <1>9 DEF TableDone
  <2> QED BY <1>2, <1>3, <1>9, <2>2, <2>3 DEF TableDone
<1> QED BY <1>4, <1>5, <1>6, <1>7, <1>8, <1>9

(* The transfer arrived, but the attempt failed: it comes once more.       *)
LEMMA TableAgain ==
  ASSUME TypeOK, NEW w \in Windows, NEW n \in 0 .. 14, TableDone(n),
         Take(Table(w)[n + 1]), mixed' = mixed
  PROVE  TableDone(n)'
<1>1. TableDone(n + 1)' BY TableNext
<1>2. CASE n \notin {9, 13} BY <1>1, <1>2 DEF TableDone
<1>3. CASE n \in {9, 13}
  <2>1. Write(4, 3).reg = 4 /\ Write(3, 154).reg = 3 BY DEF Write
  <2>2. Table(w)[10] = Write(4, 3) /\ Table(w)[14] = Write(3, 154) BY TableSteps
  <2>3. Table(w)[10].reg = 4 /\ Table(w)[14].reg = 3 BY <2>1, <2>2
  <2>4. page' = page BY <1>3, <2>3 DEF Take
  <2> QED BY <1>1, <1>3, <2>4 DEF TableDone
<1> QED BY <1>2, <1>3

(* What another task does to a call for a format.                          *)
LEMMA TableStays ==
  ASSUME NEW t \in Tasks, Load(t), call'[t] = call[t], todo'[t] = todo[t],
         page = 0 => page' = 0,
         call[t] # NULL => mixed' \/ (page' = page /\ regs' = regs /\ (mixed => mixed'))
  PROVE  Load(t)'
<1> SUFFICES ASSUME Kind(t, {"fmt"})', ~call'[t].lost
             PROVE  \E w \in Windows, n \in 0 .. 15 :
                      Rest(todo'[t], Table(w), n) /\ TableDone(n)'
  BY DEF Load
<1>1. PICK w \in Windows, n \in 0 .. 15 : Rest(todo[t], Table(w), n) /\ TableDone(n)
  BY DEF Load, Kind
<1>2. TableDone(n)' BY <1>1 DEF TableDone, Kind
<1> QED BY <1>1, <1>2

LEMMA OnlyFramework ==
  ASSUME Todo, NEW t \in Tasks, Kind(t, {"fmt"}) \/ Kind(t, {"gain", "exp_gain"})
  PROVE  t = V4l2
<1>1. Kind(t, {"gain", "exp_gain", "fmt"}) BY DEF Kind
<1> QED BY <1>1 DEF Todo

LEMMA LoadOpening ==
  ASSUME SensorInv, Loading, Opening
  PROVE  Loading'
<1> USE DEF SensorInv
<1>1. PICK t \in Tasks, kind \in Kinds, steps \in Seq(Steps), changes \in SUBSET Facts :
        Begin(t, kind, steps, changes) /\ Planned(t, kind, steps, changes)
  BY Opens
<1>2. /\ call'[t] = [kind |-> kind, lost |-> FALSE, tries |-> 0] /\ todo'[t] = steps
      /\ \A u \in Tasks \ {t} : call'[u] = call[u] /\ todo'[u] = todo[u]
      /\ \A u \in Tasks \ {t} : call[u] # NULL => mixed'
      /\ page' = page
  BY <1>1, Begins DEF hw
<1>3. Load(t)'
  <2> SUFFICES ASSUME Kind(t, {"fmt"})'
               PROVE  \E w \in Windows, n \in 0 .. 15 :
                        Rest(todo'[t], Table(w), n) /\ TableDone(n)'
    BY DEF Load
  <2>1. kind = "fmt" BY <1>2 DEF Kind
  <2>2. PICK w \in Windows : steps = Table(w) BY <1>1, <2>1 DEF Planned
  <2>3. Rest(Table(w), Table(w), 0) BY TableSteps, RestStart
  <2>4. TableDone(0)' BY DEF TableDone
  <2> QED BY <1>2, <2>2, <2>3, <2>4
<1>4. ASSUME NEW u \in Tasks \ {t} PROVE Load(u)'
  <2>1. Load(u) BY DEF Loading
  <2> QED BY <1>2, <2>1, TableStays
<1> QED BY <1>3, <1>4 DEF Loading

LEMMA LoadWrite ==
  ASSUME SensorInv, Loading, NEW t \in Tasks, sensor_write(t)
  PROVE  Loading'
<1> USE DEF SensorInv
<1> DEFINE h == Head(todo[t])
<1>1. /\ todo[t] # <<>> /\ h \in Writes /\ call[t] \in Calls
      /\ call'[t] \in Calls /\ call'[t].kind = call[t].kind
      /\ call[t].lost => call'[t].lost
      /\ \/ todo'[t] = Tail(todo[t]) \/ todo'[t] = todo[t]
         \/ call'[t].lost /\ call[t].kind = "fmt" /\ todo'[t] = <<>>
      /\ \A u \in Tasks \ {t} : call'[u] = call[u] /\ todo'[u] = todo[u]
      /\ \/ Take(h)
         \/ (call'[t].lost \/ todo'[t] = todo[t]) /\ page' = page /\ regs' = regs
      /\ mixed' = mixed
  BY Transfers
<1>2. call[t] # NULL /\ call'[t] # NULL BY <1>1, SensorAssumption
<1> HIDE DEF h
<1>3. Load(t)'
  <2> SUFFICES ASSUME Kind(t, {"fmt"})', ~call'[t].lost
               PROVE  \E w \in Windows, n \in 0 .. 15 :
                        Rest(todo'[t], Table(w), n) /\ TableDone(n)'
    BY DEF Load
  <2>1. Kind(t, {"fmt"}) /\ ~call[t].lost BY <1>1, <1>2 DEF Kind
  <2>2. PICK w \in Windows, n \in 0 .. 15 : Rest(todo[t], Table(w), n) /\ TableDone(n)
    BY <2>1 DEF Loading, Load
  <2>3. todo[t] \in Seq(Steps) BY DEF Todo
  <2>4. Table(w) \in Seq(Writes) /\ Len(Table(w)) = 15 BY TableSteps
  <2>5. Table(w) \in Seq(Steps)
    <3>1. \A q \in Seq(Writes) : q \in Seq(Steps) BY DEF Steps
    <3> QED BY <2>4, <3>1
  <2>6. h = Table(w)[n + 1] /\ Rest(Tail(todo[t]), Table(w), n + 1)
    BY <1>1, <2>2, <2>3, <2>5, RestNext DEF h
  <2>7. n \in 0 .. 14 BY <2>4, <2>6 DEF Rest
  <2>8. CASE todo'[t] = todo[t]
    <3>1. TableDone(n)'
      <4>1. CASE Take(h) BY <1>1, <2>2, <2>6, <2>7, <4>1, TableAgain
      <4>2. CASE page' = page /\ regs' = regs BY <1>1, <2>2, <4>2 DEF TableDone
      <4> QED BY <1>1, <4>1, <4>2
    <3> QED BY <2>2, <2>8, <3>1
  <2>9. CASE todo'[t] # todo[t]
    <3>1. TableDone(n + 1)' BY <1>1, <2>2, <2>6, <2>7, <2>9, TableNext
    <3>2. n + 1 \in 0 .. 15 BY <2>7
    <3> QED BY <1>1, <2>6, <2>9, <3>1, <3>2
  <2> QED BY <2>8, <2>9
<1>4. ASSUME NEW u \in Tasks \ {t} PROVE Load(u)'
  <2>1. Load(u) BY DEF Loading
  <2>2. CASE ~Kind(u, {"fmt"}) BY <1>1, <2>2 DEF Load, Kind
  <2>3. CASE Kind(u, {"fmt"})
    <3>1. mixed' BY <1>1, <1>2, <2>3 DEF Met, Kind
    <3>2. u = V4l2 BY <2>3, OnlyFramework
    <3>3. call[t].kind # "fmt" BY <1>2, <3>2, OnlyFramework DEF Kind
    <3>4. h \in Mild BY <1>1, <3>3, HeadMild DEF h
    <3>5. page = 0 => page' = 0 BY <1>1, <3>4, Taken
    <3> QED BY <1>1, <2>1, <3>1, <3>5, TableStays
  <2> QED BY <2>2, <2>3
<1> QED BY <1>3, <1>4 DEF Loading

LEMMA LoadAssign ==
  ASSUME SensorInv, Loading, NEW t \in Tasks, Assign(t)
  PROVE  Loading'
<1> USE DEF SensorInv
<1> DEFINE h == Head(todo[t])
<1>1. /\ todo[t] # <<>> /\ h \in Notes
      /\ \A u \in Tasks \ {t} : todo'[u] = todo[u]
      /\ call' = call /\ page' = page /\ regs' = regs /\ mixed' = mixed
  BY Assigns DEF hw
<1> HIDE DEF h
<1>2. ~(Kind(t, {"fmt"}) /\ ~call[t].lost)
  <2> SUFFICES ASSUME Kind(t, {"fmt"}), ~call[t].lost PROVE FALSE OBVIOUS
  <2>1. PICK w \in Windows, n \in 0 .. 15 : Rest(todo[t], Table(w), n)
    BY DEF Loading, Load
  <2>2. todo[t] \in Seq(Steps) BY DEF Todo
  <2>3. Table(w) \in Seq(Writes) /\ Len(Table(w)) = 15 BY TableSteps
  <2>4. Table(w) \in Seq(Steps)
    <3>1. \A q \in Seq(Writes) : q \in Seq(Steps) BY DEF Steps
    <3> QED BY <2>3, <3>1
  <2>5. h = Table(w)[n + 1] /\ Rest(Tail(todo[t]), Table(w), n + 1)
    BY <1>1, <2>1, <2>2, <2>4, RestNext DEF h
  <2>6. n + 1 \in 1 .. 15 BY <2>3, <2>5 DEF Rest
  <2>7. h \in Writes
    <3>1. \A q \in Seq(Writes) : \A i \in 1 .. Len(q) : q[i] \in Writes OBVIOUS
    <3> QED BY <2>3, <2>5, <2>6, <3>1
  <2>8. \A x \in Writes : x \notin Notes BY DEF Writes, Notes
  <2> QED BY <1>1, <2>7, <2>8
<1>3. Load(t)' BY <1>1, <1>2 DEF Load, Kind
<1>4. ASSUME NEW u \in Tasks \ {t} PROVE Load(u)'
  <2>1. Load(u) BY DEF Loading
  <2> QED BY <1>1, <2>1, TableStays
<1> QED BY <1>3, <1>4 DEF Loading

LEMMA LoadReturn ==
  ASSUME SensorInv, Loading, NEW t \in Tasks, Return(t)
  PROVE  Loading'
<1> USE DEF SensorInv
<1>1. /\ call[t] \in Calls /\ call' = [call EXCEPT ![t] = NULL]
      /\ todo' = todo /\ page' = page
      /\ \A u \in Tasks \ {t} : mixed /\ call[u] # NULL => mixed'
  BY Returns DEF hw
<1>2. call[t] # NULL BY <1>1, SensorAssumption
<1>3. Load(t)' BY <1>1 DEF Load, Kind, TypeOK
<1>4. ASSUME NEW u \in Tasks \ {t} PROVE Load(u)'
  <2>1. Load(u) BY DEF Loading
  <2>2. call'[u] = call[u] BY <1>1 DEF TypeOK
  <2>3. call[u] # NULL => mixed' BY <1>1, <1>2 DEF Met
  <2> QED BY <1>1, <2>1, <2>2, <2>3, TableStays
<1> QED BY <1>3, <1>4 DEF Loading

LEMMA LoadOther ==
  ASSUME SensorInv, Loading, Setting \/ sensor_power \/ Switching
  PROVE  Loading'
<1> USE DEF SensorInv
<1> SUFFICES ASSUME NEW t \in Tasks PROVE Load(t)' BY DEF Loading
<1>1. Load(t) BY DEF Loading
<1>2. CASE Setting
  <2>1. UNCHANGED <<page, regs, call, todo, mixed>> BY <1>2, Settings DEF hw
  <2> QED BY <1>1, <2>1, TableStays
<1>3. CASE sensor_power
  <2>1. UNCHANGED <<page, regs, call, todo, mixed>> BY <1>3 DEF sensor_power
  <2> QED BY <1>1, <2>1, TableStays
<1>4. CASE Switching
  <2>1. call[V4l2] = NULL /\ call' = call BY <1>4, Switches
  <2>2. ~Kind(t, {"fmt"}) BY <2>1, OnlyFramework DEF Kind
  <2> QED BY <2>1, <2>2 DEF Load, Kind
<1> QED BY <1>2, <1>3, <1>4

LEMMA KeptWrite ==
  ASSUME SensorInv, FormatKept, NEW t \in Tasks, sensor_write(t)
  PROVE  FormatKept'
<1> USE DEF SensorInv
<1> DEFINE h == Head(todo[t])
<1>1. /\ todo[t] # <<>> /\ h \in Writes /\ call[t] \in Calls
      /\ Take(h) \/ (page' = page /\ regs' = regs)
      /\ sure' = sure
  BY Transfers
<1>2. call[t] # NULL BY <1>1, SensorAssumption
<1> HIDE DEF h
<1> SUFFICES ASSUME "fmt" \in sure, page = 0, regs[<<1, 3>>] = 2, regs[<<1, 4>>] = 3,
                    regs[<<3, 3>>] = 154
             PROVE  page' = 0 /\ regs'[<<1, 3>>] = 2 /\ regs'[<<1, 4>>] = 3
                      /\ regs'[<<3, 3>>] = 154
  BY <1>1 DEF FormatKept
<1>3. call[t].kind # "fmt" BY <1>2 DEF Withdrawn, Kind
<1>4. h \in Mild BY <1>1, <1>3, HeadMild DEF h
<1>5. CASE Take(h)
  <2>1. page' = 0 /\ \A s \in Slots : s[1] # 0 => regs'[s] = regs[s]
    BY <1>1, <1>4, <1>5, Taken
  <2>2. <<1, 3>> \in Slots /\ <<1, 4>> \in Slots /\ <<3, 3>> \in Slots BY DEF Slots
  <2> QED BY <2>1, <2>2
<1> QED BY <1>1, <1>5

LEMMA KeptReturn ==
  ASSUME SensorInv, Loading, FormatKept, NEW t \in Tasks, Return(t)
  PROVE  FormatKept'
<1> USE DEF SensorInv
<1>1. /\ call[t] \in Calls /\ todo[t] = <<>> /\ page' = page /\ regs' = regs
      /\ "fmt" \in sure' \ sure => call[t].kind = "fmt" /\ ~call[t].lost /\ ~mixed
  BY Returns DEF hw
<1>2. CASE "fmt" \in sure' \ sure
  <2>1. call[t] # NULL BY <1>1, SensorAssumption
  <2>2. Kind(t, {"fmt"}) /\ ~call[t].lost BY <1>1, <1>2, <2>1 DEF Kind
  <2>3. PICK w \in Windows, n \in 0 .. 15 : Rest(<<>>, Table(w), n) /\ TableDone(n)
    BY <1>1, <2>2 DEF Loading, Load
  <2>4. n = 15
    <3>1. Table(w) \in Seq(Writes) /\ Len(Table(w)) = 15 BY <2>3, TableSteps
    <3> QED BY <2>3, <3>1, RestEnd
  <2> QED BY <1>1, <1>2, <2>3, <2>4 DEF TableDone, FormatKept
<1>3. CASE "fmt" \notin sure' \ sure BY <1>1, <1>3 DEF FormatKept
<1> QED BY <1>2, <1>3

-----------------------------------------------------------------------------
(* The steps of the specification.                                         *)

LEMMA StepCases ==
  ASSUME [Next]_vars
  PROVE  \/ Opening \/ Setting \/ sensor_power \/ Switching
         \/ \E t \in Tasks : sensor_write(t) \/ Assign(t) \/ Return(t)
         \/ UNCHANGED vars
BY DEF Next, Opening, Setting, Switching

LEMMA InvNext ==
  ASSUME SensorInv, Loading, [Next]_vars
  PROVE  SensorInv' /\ Loading'
<1>1. CASE Opening BY <1>1, InvOpening, LoadOpening
<1>2. CASE Setting BY <1>2, InvSetting, LoadOther
<1>3. CASE sensor_power BY <1>3, InvPower, LoadOther
<1>4. CASE Switching BY <1>4, InvSwitching, LoadOther
<1>5. ASSUME NEW t \in Tasks, sensor_write(t) PROVE SensorInv' /\ Loading'
  BY <1>5, InvWrite, LoadWrite
<1>6. ASSUME NEW t \in Tasks, Assign(t) PROVE SensorInv' /\ Loading'
  BY <1>6, InvAssign, LoadAssign
<1>7. ASSUME NEW t \in Tasks, Return(t) PROVE SensorInv' /\ Loading'
  BY <1>7, InvReturn, LoadReturn
<1>8. CASE UNCHANGED vars
  <2>1. /\ power' = power /\ switching' = switching /\ held' = held /\ bus' = bus
        /\ page' = page /\ regs' = regs /\ info' = info /\ call' = call /\ todo' = todo
        /\ losses' = losses /\ left' = left /\ sure' = sure /\ mixed' = mixed
    BY <1>8 DEF vars, hw
  <2>2. TypeOK' BY <2>1, Zenon DEF SensorInv, TypeOK
  <2>3. Todo' BY <2>1 DEF SensorInv, Todo, Kind
  <2>4. Locked' /\ Met' BY <2>1 DEF SensorInv, Locked, Met
  <2>5. Withdrawn' /\ PageSelected' BY <2>1 DEF SensorInv, Withdrawn, Kind, PageSelected
  <2>6. Loading'
    <3>1. ASSUME NEW t \in Tasks PROVE Load(t)'
      <4>1. Load(t) BY DEF Loading
      <4> QED BY <2>1, <4>1, TableStays
    <3> QED BY <3>1 DEF Loading
  <2> QED BY <2>2, <2>3, <2>4, <2>5, <2>6 DEF SensorInv
<1> QED BY <1>1, <1>2, <1>3, <1>4, <1>5, <1>6, <1>7, <1>8, StepCases

LEMMA InvStart ==
  ASSUME Init
  PROVE  SensorInv /\ Loading /\ FormatKept
<1>1. Loading BY DEF Init, Loading, Load, Kind
<1>2. FormatKept BY DEF Init, FormatKept
<1> QED BY <1>1, <1>2, InvInit

LEMMA FormatNext ==
  ASSUME FormatInv, [Next]_vars
  PROVE  FormatInv'
<1>1. SensorInv' /\ Loading' BY InvNext DEF FormatInv
<1>2. FormatKept'
  <2> USE DEF FormatInv
  <2>1. CASE Opening
    <3>1. PICK t \in Tasks, kind \in Kinds, steps \in Seq(Steps), changes \in SUBSET Facts :
            Begin(t, kind, steps, changes) /\ Planned(t, kind, steps, changes)
      BY <2>1, Opens
    <3>2. page' = page /\ regs' = regs /\ sure' = sure \ changes
      BY <3>1 DEF Begin, hw
    <3> QED BY <3>2 DEF FormatKept
  <2>2. CASE Setting
    <3>1. page' = page /\ regs' = regs /\ sure' \subseteq sure
      BY <2>2, Settings DEF SensorInv, hw
    <3> QED BY <3>1 DEF FormatKept
  <2>3. CASE sensor_power BY <2>3 DEF sensor_power, FormatKept
  <2>4. CASE Switching
    <3>1. sure' \subseteq {"page"} \/ UNCHANGED <<page, regs, sure>> BY <2>4, Switches
    <3> QED BY <3>1 DEF FormatKept
  <2>5. ASSUME NEW t \in Tasks, sensor_write(t) PROVE FormatKept' BY <2>5, KeptWrite
  <2>6. ASSUME NEW t \in Tasks, Assign(t) PROVE FormatKept'
    BY <2>6, Assigns DEF SensorInv, hw, FormatKept
  <2>7. ASSUME NEW t \in Tasks, Return(t) PROVE FormatKept' BY <2>7, KeptReturn
  <2>8. CASE UNCHANGED vars BY <2>8 DEF vars, hw, FormatKept
  <2> QED BY <2>1, <2>2, <2>3, <2>4, <2>5, <2>6, <2>7, <2>8, StepCases
<1> QED BY <1>1, <1>2 DEF FormatInv

(* The inductive invariant: what is left of every call is of its kind,     *)
(* sensor_power has the adapter to itself, calls under way know that they  *)
(* met and have withdrawn what they change, and a format under way has     *)
(* done what its table says so far.                                        *)
THEOREM SensorInvariant == Spec => []FormatInv
<1>1. Init => FormatInv BY InvStart DEF FormatInv
<1>2. FormatInv /\ [Next]_vars => FormatInv' BY FormatNext
<1> QED BY <1>1, <1>2, PTL DEF Spec

(* Types, for any number of writers, calls and losses.                     *)
THEOREM SensorTyped == Spec => []TypeOK
<1>1. FormatInv => TypeOK BY DEF FormatInv, SensorInv
<1> QED BY <1>1, SensorInvariant, PTL

(* After sensor_s_fmt (gc2023.c:1105) returned 0 and nobody wrote to       *)
(* /dev/exp meanwhile, page 0 stays selected and the registers of the      *)
(* other pages keep the table, whatever exposures and gains are set, lost  *)
(* or interrupted afterwards.                                              *)
THEOREM FormatStays == Spec => []FormatKept
<1>1. FormatInv => FormatKept BY DEF FormatInv
<1> QED BY <1>1, SensorInvariant, PTL

(* cci_lock and cci_unlock (gc2023.c:710-800): from the lock to the unlock *)
(* of sensor_power, no step of any task changes the sensor's registers or  *)
(* its page.                                                               *)
THEOREM SwitchingIsQuiet == Spec => QuietWhileSwitching
<1>1. FormatInv /\ [Next]_vars =>
        [switching # NULL /\ switching' = switching => UNCHANGED <<page, regs>>]_vars
  <2> SUFFICES ASSUME FormatInv, Next, switching # NULL, switching' = switching
               PROVE  page' = page /\ regs' = regs
    BY DEF vars, hw
  <2> USE DEF FormatInv
  <2>1. CASE Opening
    <3>1. PICK t \in Tasks, kind \in Kinds, steps \in Seq(Steps), changes \in SUBSET Facts :
            Begin(t, kind, steps, changes)
      BY <2>1, Opens
    <3> QED BY <3>1 DEF Begin, hw
  <2>2. CASE Setting BY <2>2, Settings DEF SensorInv
  <2>3. CASE sensor_power BY <2>3 DEF sensor_power
  <2>4. CASE Switching BY <2>4, Switches
  <2>5. ASSUME NEW t \in Tasks, sensor_write(t) PROVE FALSE
    BY <2>5 DEF sensor_write, SensorInv, Locked
  <2>6. ASSUME NEW t \in Tasks, Assign(t) \/ Return(t) PROVE page' = page /\ regs' = regs
    BY <2>6 DEF Assign, Return, hw
  <2>7. CASE UNCHANGED vars BY <2>7 DEF vars, hw
  <2> QED BY <2>1, <2>2, <2>3, <2>4, <2>5, <2>6, <2>7, StepCases
<1> QED BY <1>1, SensorInvariant, PTL DEF Spec, QuietWhileSwitching

-----------------------------------------------------------------------------
(* The exposure.                                                           *)

LEMMA Split ==
  ASSUME NEW e \in Nat, e \div 4096 <= 255
  PROVE  Reported(e, e)
<1>1. (e \div 4096) % 256 = e \div 4096
  <2>1. e \div 4096 \in 0 .. 255 OBVIOUS
  <2>2. \A x \in 0 .. 255 : x % 256 = x OBVIOUS
  <2> QED BY <2>1, <2>2
<1>2. e \div 4096 = (e \div 16) \div 256
  <2> DEFINE q == e \div 16
             p == q \div 256
  <2>1. q \in Nat /\ 16 * q <= e /\ e <= 16 * q + 15 OBVIOUS
  <2> HIDE DEF q
  <2>2. p \in Nat /\ 256 * p <= q /\ q <= 256 * p + 255 BY <2>1
  <2> HIDE DEF p
  <2>3. 4096 * p <= e /\ e <= 4096 * p + 4095 BY <2>1, <2>2
  <2>4. e \div 4096 = p BY <2>2, <2>3
  <2> QED BY <2>4 DEF p, q
<1>3. ASSUME NEW x \in Nat PROVE x % 256 = x - 256 * (x \div 256) BY SMT
<1>4. e \div 16 \in Nat OBVIOUS
<1>5. (e \div 16) % 256 = e \div 16 - 256 * ((e \div 16) \div 256) BY <1>3, <1>4
<1>6. e - 16 * (e \div 16) \in 0 .. 15 OBVIOUS
<1> QED BY <1>1, <1>2, <1>5, <1>6 DEF Reported

LEMMA ExpMaxLines == \A q \in Nat : 4096 * q <= ExpMax => q < 256
BY SMTT(60) DEF ExpMax

LEMMA ExpMaxHigh == \A e \in 0 .. ExpMax : e \in Nat /\ e \div 4096 <= 255
<1> SUFFICES ASSUME NEW e \in 0 .. ExpMax PROVE e \in Nat /\ e \div 4096 <= 255 OBVIOUS
<1>1. e \in Nat /\ e <= ExpMax BY ExpMaxNat
<1>2. \A q \in Nat : 4096 * q <= ExpMax => q < 256 BY ExpMaxLines
<1>3. 4096 * (e \div 4096) <= e /\ e \div 4096 \in Nat BY <1>1
<1>4. 4096 * (e \div 4096) <= ExpMax BY <1>1, <1>3, ExpMaxNat
<1> QED BY <1>1, <1>2, <1>3, <1>4

LEMMA Reports ==
  /\ \A c \in 4 .. ExpMax : Reported(c, c)
  /\ \A x \in 0 .. 3 : Reported(x, 4)
  /\ \A x \in Int : x < 0 => Reported(x, ExpMax)
<1>1. ASSUME NEW c \in 4 .. ExpMax PROVE Reported(c, c)
  <2>1. c \in 0 .. ExpMax BY ExpMaxNat
  <2> QED BY <2>1, ExpMaxHigh, Split
<1>2. \A x \in 0 .. 3 : Reported(x, 4) BY DEF Reported
<1>3. ASSUME NEW x \in Int, x < 0 PROVE Reported(x, ExpMax)
  <2>1. (ExpMax \div 4096) % 256 = 255 /\ (ExpMax \div 16) % 256 = 255 BY DEF ExpMax
  <2>2. 16 * (256 * 255 + 255) = ExpMax - 15 BY DEF ExpMax
  <2> QED BY <1>3, <2>1, <2>2 DEF Reported
<1> QED BY <1>1, <1>2, <1>3

(* Every call for an exposure follows such a plan.                         *)
LEMMA ExpPlanned ==
  ASSUME NEW t, NEW kind \in {"exp", "exp_gain"}, NEW steps, NEW changes,
         Planned(t, kind, steps, changes)
  PROVE  \E c \in 4 .. ExpMax : ExpPlan(steps, c)
<1>1. CASE kind = "exp"
  <2>1. PICK e \in Int : steps = sensor_s_exp(e) BY <1>1 DEF Planned
  <2>2. Clamped(e) \in 4 .. ExpMax BY ClampedRange
  <2>3. steps \in Seq(Mild) /\ Len(steps) = 4 BY <2>1, ExpSteps, Widen
  <2>4. /\ steps[1] = Write(254, 0) /\ steps[2] = Write(3, Clamped(e) \div 4096)
        /\ steps[3] = Write(4, Clamped(e) \div 16) /\ steps[4] = Note("exp", Clamped(e))
    BY <2>1, ExpSteps
  <2> QED BY <2>2, <2>3, <2>4 DEF ExpPlan
<1>2. CASE kind = "exp_gain"
  <2>1. PICK e \in Int, g \in Int : steps = sensor_s_exp_gain(e, g) BY <1>2 DEF Planned
  <2> DEFINE x == Topped(e)
             c == Clamped(x)
             G == sensor_s_gain(GainInRange(g))
  <2>2. x \in Noted /\ x \in Int /\ x <= ExpMax BY ExpMaxNat DEF Topped, Noted
  <2>3. c \in 4 .. ExpMax BY <2>2, ClampedRange
  <2>4. GainInRange(g) \in GainRange BY DEF GainInRange, GainRange
  <2>5. /\ steps \in Seq(Mild) /\ Len(steps) = 10
        /\ \A i \in 1 .. 4 : steps[i] = sensor_s_exp(x)[i]
        /\ \A i \in 1 .. 4 : steps[4 + i] = G[i]
        /\ steps[9] = Note("exp", x) /\ steps[10] = Note("gain", GainInRange(g))
    BY <2>1, ExpGainSteps
  <2>6. /\ steps[1] = Write(254, 0) /\ steps[2] = Write(3, c \div 4096)
        /\ steps[3] = Write(4, c \div 16) /\ steps[4] = Note("exp", c)
    BY <2>2, <2>5, ExpSteps
  <2>7. Reported(x, c)
    <3>0. CASE x < 0
      <4>1. c = ExpMax BY <2>2, <3>0, ExpMaxNat DEF Clamped
      <4> QED BY <2>2, <3>0, <4>1, Reports
    <3>1. CASE x >= 0 /\ x < 4
      <4>1. c = 4 BY <2>2, <3>1, ExpMaxNat DEF Clamped
      <4> QED BY <2>2, <3>1, <4>1, Reports
    <3>2. CASE x >= 4
      <4>1. c = x BY <2>2, <3>2, ExpMaxNat DEF Clamped
      <4> QED BY <2>3, <4>1, Reports
    <3> QED BY <2>2, <3>0, <3>1, <3>2
  <2>8. ASSUME NEW i \in 5 .. Len(steps)
        PROVE  \/ steps[i] \in OfGain
               \/ \E y \in Noted : steps[i] = Note("exp", y) /\ Reported(y, c)
    <3> HIDE DEF x, c, G
    <3>1. CASE i \in 5 .. 8
      <4>1. G \in Seq(OfGain) /\ Len(G) = 4 BY <2>4, GainSteps DEF G
      <4>2. \A j \in 1 .. 4 : G[j] \in OfGain
        <5>1. \A q \in Seq(OfGain) : \A j \in 1 .. Len(q) : q[j] \in OfGain OBVIOUS
        <5> QED BY <4>1, <5>1
      <4>3. i - 4 \in 1 .. 4 /\ 4 + (i - 4) = i BY <3>1
      <4> QED BY <2>5, <4>2, <4>3
    <3>2. CASE i = 9 BY <2>2, <2>5, <2>7, <3>2
    <3>3. CASE i = 10
      <4>1. Note("gain", GainInRange(g)) \in OfGain
        BY <2>4 DEF Note, OfGain, Mild, Steps, Notes
      <4> QED BY <2>5, <3>3, <4>1
    <3>4. i \in 5 .. 10 BY <2>5
    <3> QED BY <3>1, <3>2, <3>3, <3>4
  <2>9. Len(steps) >= 4 BY <2>5
  <2> HIDE DEF x, c, G
  <2> QED BY <2>3, <2>5, <2>6, <2>8, <2>9 DEF ExpPlan
<1> QED BY <1>1, <1>2

(* The next transfer of a call for an exposure.                            *)
LEMMA ExpTransfer ==
  ASSUME TypeOK, NEW s \in Seq(Mild), NEW c \in 4 .. ExpMax, NEW n \in Nat,
         ExpPlan(s, c), n < Len(s), ExpDone(c, n),
         s[n + 1] \in Writes, Take(s[n + 1]), info' = info
  PROVE  ExpDone(c, n + 1)'
<1> DEFINE w == s[n + 1]
<1>1. <<0, 3>> \in Slots /\ <<0, 4>> \in Slots /\ <<0, 3>> # <<0, 4>> BY DEF Slots
<1>2. w.op = "write" BY DEF Writes
<1>3. CASE n = 0
  <2>1. w.reg = 254 /\ w.val = 0
    <3>1. s[1] = Write(254, 0) BY DEF ExpPlan
    <3>2. 0 % 256 = 0 OBVIOUS
    <3> QED BY <1>3, <3>1, <3>2, WriteFields
  <2>2. page' = 0 BY <2>1 DEF Take
  <2> QED BY <1>3, <2>2 DEF ExpDone
<1>4. CASE n = 1
  <2>1. w.reg = 3 /\ w.val = (c \div 4096) % 256 BY <1>4, WriteFields DEF ExpPlan
  <2>2. page = 0 BY <1>4 DEF ExpDone
  <2>3. page' = 0 /\ regs'[<<0, 3>>] = (c \div 4096) % 256 BY <1>1, <2>1, <2>2 DEF Take
  <2> QED BY <1>4, <2>3 DEF ExpDone
<1>5. CASE n = 2
  <2>1. w.reg = 4 /\ w.val = (c \div 16) % 256
    <3>1. s[3] = Write(4, c \div 16) BY DEF ExpPlan
    <3> QED BY <1>5, <3>1, WriteFields
  <2>2. page = 0 /\ regs[<<0, 3>>] = (c \div 4096) % 256 BY <1>5 DEF ExpDone
  <2>3. /\ page' = 0 /\ regs'[<<0, 4>>] = (c \div 16) % 256
        /\ regs'[<<0, 3>>] = regs[<<0, 3>>]
    BY <1>1, <2>1, <2>2 DEF Take
  <2> QED BY <1>5, <2>2, <2>3 DEF ExpDone
<1>6. CASE n = 3
  <2>1. w.op = "note" BY <1>6, NoteFields DEF ExpPlan
  <2> QED BY <1>2, <2>1
<1>7. CASE n >= 4
  <2>1. n + 1 \in 5 .. Len(s) BY <1>7
  <2>2. \A x : Note("exp", x).op = "note" BY NoteFields
  <2>3. w \in OfGain BY <1>2, <2>1, <2>2 DEF ExpPlan
  <2>4. w.reg \in {182, 177, 178} /\ w \in Mild BY <1>2, <2>3 DEF OfGain
  <2>5. ExpDone(c, 4) BY <1>7 DEF ExpDone
  <2>6. page = 0 BY <2>5 DEF ExpDone
  <2> HIDE DEF w
  <2>7. page' = 0 /\ regs'[<<0, 3>>] = regs[<<0, 3>>] /\ regs'[<<0, 4>>] = regs[<<0, 4>>]
    BY <1>1, <2>4, <2>6, Taken DEF w
  <2> QED BY <1>7, <2>5, <2>7 DEF ExpDone
<1> QED BY <1>3, <1>4, <1>5, <1>6, <1>7

(* The next assignment of a call for an exposure.                          *)
LEMMA ExpAssignment ==
  ASSUME TypeOK, NEW s \in Seq(Mild), NEW c \in 4 .. ExpMax, NEW n \in Nat,
         ExpPlan(s, c), n < Len(s), ExpDone(c, n),
         s[n + 1] \in Notes, info' = [info EXCEPT ![s[n + 1].reg] = s[n + 1].val],
         page' = page, regs' = regs
  PROVE  ExpDone(c, n + 1)'
<1>1. info \in InfoRange BY InfoTyped
<1>2. s[n + 1].op = "note" BY DEF Notes
<1>3. n >= 3
  <2>1. s[1].op = "write" /\ s[2].op = "write" /\ s[3].op = "write"
    <3>1. s[1] = Write(254, 0) /\ s[2] = Write(3, c \div 4096) /\ s[3] = Write(4, c \div 16)
      BY DEF ExpPlan
    <3> QED BY <3>1, WriteFields
  <2>2. n + 1 \notin {1, 2, 3} BY <1>2, <2>1
  <2> QED BY <2>2
<1>4. /\ page = 0 /\ regs[<<0, 3>>] = (c \div 4096) % 256
      /\ regs[<<0, 4>>] = (c \div 16) % 256
      /\ n >= 4 => Reported(info.exp, c)
  BY <1>3 DEF ExpDone
<1>5. Reported(info'.exp, c)
  <2>1. CASE n = 3
    <3>1. s[n + 1].reg = "exp" /\ s[n + 1].val = c BY <2>1, NoteFields DEF ExpPlan
    <3>2. info'.exp = c BY <1>1, <3>1 DEF InfoRange
    <3> QED BY <3>2, Reports
  <2>2. CASE n >= 4 /\ s[n + 1] \in OfGain
    <3>1. s[n + 1].reg = "gain" BY <1>2, <2>2 DEF OfGain
    <3>2. info'.exp = info.exp BY <1>1, <3>1 DEF InfoRange
    <3> QED BY <1>4, <2>2, <3>2
  <2>3. CASE n >= 4 /\ s[n + 1] \notin OfGain
    <3>1. n + 1 \in 5 .. Len(s) BY <2>3
    <3>2. PICK x \in Noted : s[n + 1] = Note("exp", x) /\ Reported(x, c)
      BY <2>3, <3>1 DEF ExpPlan
    <3>3. info'.exp = x BY <1>1, <3>2, NoteFields DEF InfoRange
    <3> QED BY <3>2, <3>3
  <2> QED BY <1>3, <2>1, <2>2, <2>3
<1> QED BY <1>4, <1>5 DEF ExpDone

(* What another task does to a call for an exposure.                       *)
LEMMA ExpStays ==
  ASSUME NEW t \in Tasks, Expose(t), call'[t] = call[t], todo'[t] = todo[t],
         call[t] # NULL =>
           mixed' \/ (page' = page /\ regs' = regs /\ info'.exp = info.exp /\ (mixed => mixed'))
  PROVE  Expose(t)'
<1> SUFFICES ASSUME Kind(t, {"exp", "exp_gain"})', ~call'[t].lost
             PROVE  \E s \in Seq(Mild), c \in 4 .. ExpMax, n \in Nat :
                      ExpPlan(s, c) /\ Rest(todo'[t], s, n) /\ (~mixed' => ExpDone(c, n)')
  BY DEF Expose
<1>1. PICK s \in Seq(Mild), c \in 4 .. ExpMax, n \in Nat :
        ExpPlan(s, c) /\ Rest(todo[t], s, n) /\ (~mixed => ExpDone(c, n))
  BY DEF Expose, Kind
<1>2. ~mixed' => ExpDone(c, n)' BY <1>1 DEF ExpDone, Kind
<1> QED BY <1>1, <1>2

LEMMA ExposeOpening ==
  ASSUME SensorInv, Exposing, Opening
  PROVE  Exposing'
<1> USE DEF SensorInv
<1>1. PICK t \in Tasks, kind \in Kinds, steps \in Seq(Steps), changes \in SUBSET Facts :
        Begin(t, kind, steps, changes) /\ Planned(t, kind, steps, changes)
  BY Opens
<1>2. /\ call'[t] = [kind |-> kind, lost |-> FALSE, tries |-> 0] /\ todo'[t] = steps
      /\ \A u \in Tasks \ {t} : call'[u] = call[u] /\ todo'[u] = todo[u]
      /\ \A u \in Tasks \ {t} : call[u] # NULL => mixed'
  BY <1>1, Begins
<1>3. Expose(t)'
  <2> SUFFICES ASSUME Kind(t, {"exp", "exp_gain"})'
               PROVE  \E s \in Seq(Mild), c \in 4 .. ExpMax, n \in Nat :
                        ExpPlan(s, c) /\ Rest(todo'[t], s, n) /\ (~mixed' => ExpDone(c, n)')
    BY DEF Expose
  <2>1. kind \in {"exp", "exp_gain"} BY <1>2 DEF Kind
  <2>2. PICK c \in 4 .. ExpMax : ExpPlan(steps, c) BY <1>1, <2>1, ExpPlanned
  <2>3. steps \in Seq(Mild) BY <2>2 DEF ExpPlan
  <2>4. Rest(steps, steps, 0) BY <2>3, RestStart
  <2>5. ExpDone(c, 0)' BY DEF ExpDone
  <2> QED BY <1>2, <2>2, <2>3, <2>4, <2>5
<1>4. ASSUME NEW u \in Tasks \ {t} PROVE Expose(u)'
  <2>1. Expose(u) BY DEF Exposing
  <2> QED BY <1>2, <2>1, ExpStays
<1> QED BY <1>3, <1>4 DEF Exposing

(* The plan of a call under way, and where it is.                          *)
LEMMA ExpUnderWay ==
  ASSUME Todo, NEW t \in Tasks, Expose(t), Kind(t, {"exp", "exp_gain"}), ~call[t].lost,
         todo[t] # <<>>
  PROVE  \E s \in Seq(Mild), c \in 4 .. ExpMax, n \in Nat :
           /\ ExpPlan(s, c) /\ (~mixed => ExpDone(c, n))
           /\ n < Len(s) /\ Head(todo[t]) = s[n + 1] /\ Rest(Tail(todo[t]), s, n + 1)
<1>1. PICK s \in Seq(Mild), c \in 4 .. ExpMax, n \in Nat :
        ExpPlan(s, c) /\ Rest(todo[t], s, n) /\ (~mixed => ExpDone(c, n))
  BY DEF Expose
<1>2. todo[t] \in Seq(Mild)
  <2>1. Kind(t, {"exp", "gain", "exp_gain"}) BY DEF Kind
  <2> QED BY <2>1 DEF Todo
<1>3. Head(todo[t]) = s[n + 1] /\ Rest(Tail(todo[t]), s, n + 1) BY <1>1, <1>2, RestNext
<1>4. n < Len(s) BY <1>3 DEF Rest
<1> QED BY <1>1, <1>3, <1>4

LEMMA ExposeWrite ==
  ASSUME SensorInv, Exposing, NEW t \in Tasks, sensor_write(t)
  PROVE  Exposing'
<1> USE DEF SensorInv
<1> DEFINE h == Head(todo[t])
<1>1. /\ todo[t] # <<>> /\ h \in Writes /\ call[t] \in Calls
      /\ call'[t] \in Calls /\ call'[t].kind = call[t].kind
      /\ call[t].lost => call'[t].lost
      /\ \/ todo'[t] = Tail(todo[t]) \/ todo'[t] = todo[t]
         \/ call'[t].lost /\ call[t].kind = "fmt" /\ todo'[t] = <<>>
      /\ \A u \in Tasks \ {t} : call'[u] = call[u] /\ todo'[u] = todo[u]
      /\ \/ Take(h)
         \/ (call'[t].lost \/ todo'[t] = todo[t]) /\ page' = page /\ regs' = regs
      /\ mixed' = mixed /\ info' = info
  BY Transfers
<1>2. call[t] # NULL /\ call'[t] # NULL BY <1>1, SensorAssumption
<1>3. Expose(t)'
  <2> SUFFICES ASSUME Kind(t, {"exp", "exp_gain"})', ~call'[t].lost
               PROVE  \E s \in Seq(Mild), c \in 4 .. ExpMax, n \in Nat :
                        ExpPlan(s, c) /\ Rest(todo'[t], s, n) /\ (~mixed' => ExpDone(c, n)')
    BY DEF Expose
  <2>1. Kind(t, {"exp", "exp_gain"}) /\ ~call[t].lost BY <1>1, <1>2 DEF Kind
  <2>2. Expose(t) BY DEF Exposing
  <2>3. PICK s \in Seq(Mild), c \in 4 .. ExpMax, n \in Nat :
          /\ ExpPlan(s, c) /\ (~mixed => ExpDone(c, n))
          /\ n < Len(s) /\ h = s[n + 1] /\ Rest(Tail(todo[t]), s, n + 1)
    BY <1>1, <2>1, <2>2, ExpUnderWay
  <2> HIDE DEF h
  <2>4. CASE todo'[t] = todo[t]
    <3>1. PICK r \in Seq(Mild), d \in 4 .. ExpMax, m \in Nat :
            ExpPlan(r, d) /\ Rest(todo[t], r, m) /\ (~mixed => ExpDone(d, m))
      BY <2>1, <2>2 DEF Expose
    <3>2. todo[t] \in Seq(Mild)
      <4>1. Kind(t, {"exp", "gain", "exp_gain"}) BY <2>1 DEF Kind
      <4> QED BY <4>1 DEF Todo
    <3>3. m < Len(r) /\ h = r[m + 1]
      <4>1. Head(todo[t]) = r[m + 1] /\ Rest(Tail(todo[t]), r, m + 1)
        BY <1>1, <3>1, <3>2, RestNext
      <4> QED BY <4>1 DEF Rest, h
    <3>4. ~mixed => ExpDone(d, m)'
      <4>1. CASE Take(h)
        <5>1. ~mixed => ExpDone(d, m + 1)' BY <1>1, <3>1, <3>3, <4>1, ExpTransfer
        <5> QED BY <5>1 DEF ExpDone
      <4>2. CASE page' = page /\ regs' = regs BY <1>1, <3>1, <4>2 DEF ExpDone
      <4> QED BY <1>1, <4>1, <4>2
    <3> QED BY <1>1, <2>4, <3>1, <3>4
  <2>5. CASE todo'[t] # todo[t]
    <3>1. Take(s[n + 1]) /\ s[n + 1] \in Writes BY <1>1, <2>3, <2>5
    <3>2. ~mixed => ExpDone(c, n + 1)' BY <1>1, <2>3, <3>1, ExpTransfer
    <3>3. todo'[t] = Tail(todo[t]) /\ n + 1 \in Nat BY <1>1, <2>5
    <3> QED BY <1>1, <2>3, <3>2, <3>3
  <2> QED BY <2>4, <2>5
<1>4. ASSUME NEW u \in Tasks \ {t} PROVE Expose(u)'
  <2>1. Expose(u) BY DEF Exposing
  <2>2. call[u] # NULL => mixed' BY <1>1, <1>2 DEF Met
  <2> QED BY <1>1, <2>1, <2>2, ExpStays
<1> QED BY <1>3, <1>4 DEF Exposing

LEMMA ExposeAssign ==
  ASSUME SensorInv, Exposing, NEW t \in Tasks, Assign(t)
  PROVE  Exposing'
<1> USE DEF SensorInv
<1> DEFINE h == Head(todo[t])
<1>1. /\ todo[t] # <<>> /\ h \in Notes /\ call[t] \in Calls
      /\ todo'[t] = Tail(todo[t])
      /\ \A u \in Tasks \ {t} : todo'[u] = todo[u]
      /\ info' = [info EXCEPT ![h.reg] = h.val]
      /\ page' = page /\ regs' = regs /\ call' = call /\ mixed' = mixed
  BY Assigns DEF hw
<1>2. call[t] # NULL BY <1>1, SensorAssumption
<1>3. Expose(t)'
  <2> SUFFICES ASSUME Kind(t, {"exp", "exp_gain"})', ~call'[t].lost
               PROVE  \E s \in Seq(Mild), c \in 4 .. ExpMax, n \in Nat :
                        ExpPlan(s, c) /\ Rest(todo'[t], s, n) /\ (~mixed' => ExpDone(c, n)')
    BY DEF Expose
  <2>1. Kind(t, {"exp", "exp_gain"}) /\ ~call[t].lost BY <1>1 DEF Kind
  <2>2. Expose(t) BY DEF Exposing
  <2>3. PICK s \in Seq(Mild), c \in 4 .. ExpMax, n \in Nat :
          /\ ExpPlan(s, c) /\ (~mixed => ExpDone(c, n))
          /\ n < Len(s) /\ h = s[n + 1] /\ Rest(Tail(todo[t]), s, n + 1)
    BY <1>1, <2>1, <2>2, ExpUnderWay
  <2> HIDE DEF h
  <2>4. s[n + 1] \in Notes /\ info' = [info EXCEPT ![s[n + 1].reg] = s[n + 1].val]
    BY <1>1, <2>3
  <2>5. ~mixed => ExpDone(c, n + 1)' BY <1>1, <2>3, <2>4, ExpAssignment
  <2> QED BY <1>1, <2>3, <2>5
<1>4. ASSUME NEW u \in Tasks \ {t} PROVE Expose(u)'
  <2>1. Expose(u) BY DEF Exposing
  <2>2. call[u] # NULL => mixed' BY <1>1, <1>2 DEF Met
  <2> QED BY <1>1, <2>1, <2>2, ExpStays
<1> QED BY <1>3, <1>4 DEF Exposing

LEMMA ExposeReturn ==
  ASSUME SensorInv, Exposing, NEW t \in Tasks, Return(t)
  PROVE  Exposing'
<1> USE DEF SensorInv
<1>1. /\ call[t] \in Calls /\ call' = [call EXCEPT ![t] = NULL]
      /\ todo' = todo
      /\ \A u \in Tasks \ {t} : mixed /\ call[u] # NULL => mixed'
  BY Returns
<1>2. call[t] # NULL BY <1>1, SensorAssumption
<1>3. Expose(t)' BY <1>1 DEF Expose, Kind, TypeOK
<1>4. ASSUME NEW u \in Tasks \ {t} PROVE Expose(u)'
  <2>1. Expose(u) BY DEF Exposing
  <2>2. call'[u] = call[u] BY <1>1 DEF TypeOK
  <2>3. call[u] # NULL => mixed' BY <1>1, <1>2 DEF Met
  <2> QED BY <1>1, <2>1, <2>2, <2>3, ExpStays
<1> QED BY <1>3, <1>4 DEF Exposing

LEMMA ExposeOther ==
  ASSUME SensorInv, Exposing, Setting \/ sensor_power \/ Switching \/ UNCHANGED vars
  PROVE  Exposing'
<1> USE DEF SensorInv
<1> SUFFICES ASSUME NEW t \in Tasks PROVE Expose(t)' BY DEF Exposing
<1>1. Expose(t) BY DEF Exposing
<1>2. CASE Setting
  <2>1. UNCHANGED <<page, regs, call, todo, mixed>> /\ info'.exp = info.exp
    BY <1>2, Settings DEF hw
  <2> QED BY <1>1, <2>1, ExpStays
<1>3. CASE sensor_power
  <2>1. UNCHANGED <<page, regs, call, todo, mixed, info>> BY <1>3 DEF sensor_power
  <2> QED BY <1>1, <2>1, ExpStays
<1>4. CASE Switching
  <2>1. /\ UNCHANGED <<call, todo, info>>
        /\ call[t] # NULL => mixed' \/ (UNCHANGED <<page, regs>> /\ (mixed => mixed'))
    BY <1>4, Switches
  <2> QED BY <1>1, <2>1, ExpStays
<1>5. CASE UNCHANGED vars
  <2>1. UNCHANGED <<page, regs, call, todo, mixed, info>> BY <1>5 DEF vars, hw
  <2> QED BY <1>1, <2>1, ExpStays
<1> QED BY <1>2, <1>3, <1>4, <1>5

(* A call of the framework for a gain: what it does not touch.             *)
LEMMA AskedWrite ==
  ASSUME SensorInv, ExposureAsAsked, NEW t \in Tasks, sensor_write(t)
  PROVE  ExposureAsAsked'
<1> USE DEF SensorInv
<1> DEFINE h == Head(todo[t])
<1>1. /\ todo[t] # <<>> /\ h \in Writes /\ call[t] \in Calls
      /\ Take(h) \/ (page' = page /\ regs' = regs)
      /\ sure' = sure /\ info' = info
  BY Transfers
<1>2. call[t] # NULL /\ call[t].kind \in Kinds BY <1>1, SensorAssumption DEF Calls
<1> SUFFICES ASSUME "exp" \in sure
             PROVE  regs'[<<0, 3>>] = regs[<<0, 3>>] /\ regs'[<<0, 4>>] = regs[<<0, 4>>]
  BY <1>1 DEF ExposureAsAsked
<1>3. call[t].kind = "gain" BY <1>2 DEF Withdrawn, Kind, Kinds
<1>4. todo[t] \in Seq(OfGain) BY <1>2, <1>3 DEF Todo, Kind
<1>5. h \in OfGain BY <1>1, <1>4, TailOf
<1>6. h.reg \in {182, 177, 178} /\ h \in Mild BY <1>1, <1>5 DEF OfGain, Writes
<1> HIDE DEF h
<1>7. CASE Take(h)
  <2>1. <<0, 3>> \in Slots /\ <<0, 4>> \in Slots BY DEF Slots
  <2> QED BY <1>1, <1>6, <1>7, <2>1, Taken
<1> QED BY <1>1, <1>7

LEMMA AskedAssign ==
  ASSUME SensorInv, ExposureAsAsked, NEW t \in Tasks, Assign(t)
  PROVE  ExposureAsAsked'
<1> USE DEF SensorInv
<1> DEFINE h == Head(todo[t])
<1>1. /\ todo[t] # <<>> /\ h \in Notes /\ call[t] \in Calls
      /\ info' = [info EXCEPT ![h.reg] = h.val]
      /\ regs' = regs /\ sure' = sure
  BY Assigns DEF hw
<1>2. call[t] # NULL /\ call[t].kind \in Kinds BY <1>1, SensorAssumption DEF Calls
<1> SUFFICES ASSUME "exp" \in sure PROVE info'.exp = info.exp
  BY <1>1 DEF ExposureAsAsked
<1>3. ~Kind(t, {"fmt"}) /\ ~Kind(t, {"exp", "exp_gain"}) BY DEF Withdrawn
<1>4. call[t].kind = "gain" BY <1>2, <1>3 DEF Kind, Kinds
<1>5. todo[t] \in Seq(OfGain) BY <1>2, <1>4 DEF Todo, Kind
<1>6. h \in OfGain BY <1>1, <1>5, TailOf
<1>7. h.reg = "gain" BY <1>1, <1>6 DEF OfGain, Notes
<1>8. info \in InfoRange BY InfoTyped
<1> HIDE DEF h
<1> QED BY <1>1, <1>7, <1>8 DEF InfoRange

LEMMA AskedReturn ==
  ASSUME SensorInv, Exposing, ExposureAsAsked, NEW t \in Tasks, Return(t)
  PROVE  ExposureAsAsked'
<1> USE DEF SensorInv
<1>1. /\ call[t] \in Calls /\ todo[t] = <<>> /\ info' = info /\ regs' = regs
      /\ "exp" \in sure' \ sure =>
           call[t].kind \in {"exp", "exp_gain"} /\ ~call[t].lost /\ ~mixed
  BY Returns DEF hw
<1>2. CASE "exp" \in sure' \ sure
  <2>1. call[t] # NULL BY <1>1, SensorAssumption
  <2>2. Kind(t, {"exp", "exp_gain"}) /\ ~call[t].lost BY <1>1, <1>2, <2>1 DEF Kind
  <2>3. PICK s \in Seq(Mild), c \in 4 .. ExpMax, n \in Nat :
          ExpPlan(s, c) /\ Rest(<<>>, s, n) /\ ExpDone(c, n)
    BY <1>1, <1>2, <2>2 DEF Exposing, Expose
  <2>4. n = Len(s) /\ n >= 4
    <3>1. n = Len(s) BY <2>3, RestEnd
    <3> QED BY <2>3, <3>1 DEF ExpPlan
  <2>5. /\ regs[<<0, 3>>] = (c \div 4096) % 256 /\ regs[<<0, 4>>] = (c \div 16) % 256
        /\ Reported(info.exp, c)
    BY <2>3, <2>4 DEF ExpDone
  <2> QED BY <1>1, <2>5 DEF ExposureAsAsked, Reported
<1>3. CASE "exp" \notin sure' \ sure BY <1>1, <1>3 DEF ExposureAsAsked
<1> QED BY <1>2, <1>3

LEMMA ExposureNext ==
  ASSUME ExposureInv, [Next]_vars
  PROVE  ExposureInv'
<1>1. FormatInv' BY FormatNext DEF ExposureInv
<1> USE DEF ExposureInv, FormatInv
<1>2. CASE Opening
  <2>1. Exposing' BY <1>2, ExposeOpening
  <2>2. PICK t \in Tasks, kind \in Kinds, steps \in Seq(Steps), changes \in SUBSET Facts :
          /\ Begin(t, kind, steps, changes)
          /\ \/ info' = info
             \/ \E w \in Windows : info' = [info EXCEPT !.current_wins = w]
    BY <1>2, Opens
  <2>3. regs' = regs /\ sure' = sure \ changes BY <2>2 DEF Begin, hw
  <2>4. info'.exp = info.exp
    <3>1. info \in InfoRange BY InfoTyped DEF SensorInv
    <3> QED BY <2>2, <3>1 DEF InfoRange
  <2>5. ExposureAsAsked' BY <2>3, <2>4 DEF ExposureAsAsked
  <2> QED BY <1>1, <2>1, <2>5
<1>3. CASE Setting
  <2>1. regs' = regs /\ info'.exp = info.exp /\ sure' \subseteq sure
    BY <1>3, Settings DEF SensorInv, hw
  <2> QED BY <1>1, <1>3, <2>1, ExposeOther DEF ExposureAsAsked
<1>4. CASE sensor_power
  <2>1. UNCHANGED <<regs, info, sure>> BY <1>4 DEF sensor_power
  <2> QED BY <1>1, <1>4, <2>1, ExposeOther DEF ExposureAsAsked
<1>5. CASE Switching
  <2>1. info' = info /\ (sure' \subseteq {"page"} \/ UNCHANGED <<page, regs, sure>>)
    BY <1>5, Switches
  <2> QED BY <1>1, <1>5, <2>1, ExposeOther DEF ExposureAsAsked
<1>6. ASSUME NEW t \in Tasks, sensor_write(t) PROVE ExposureInv'
  BY <1>1, <1>6, ExposeWrite, AskedWrite
<1>7. ASSUME NEW t \in Tasks, Assign(t) PROVE ExposureInv'
  BY <1>1, <1>7, ExposeAssign, AskedAssign
<1>8. ASSUME NEW t \in Tasks, Return(t) PROVE ExposureInv'
  BY <1>1, <1>8, ExposeReturn, AskedReturn
<1>9. CASE UNCHANGED vars
  <2>1. UNCHANGED <<regs, info, sure>> BY <1>9 DEF vars, hw
  <2> QED BY <1>1, <1>9, <2>1, ExposeOther DEF ExposureAsAsked
<1> QED BY <1>2, <1>3, <1>4, <1>5, <1>6, <1>7, <1>8, <1>9, StepCases

(* What sensor_g_exp (gc2023.c:516) reports after an exposure that lost no *)
(* transfer and met no other call is what the exposure registers hold, to  *)
(* a line, whatever other calls do until the next exposure is asked for;   *)
(* a negative one is reported as asked, and the registers hold the longest *)
(* there is.                                                               *)
THEOREM ExposureIsAsAsked == Spec => []ExposureAsAsked
<1>1. Init => ExposureInv
  <2> SUFFICES ASSUME Init PROVE ExposureInv OBVIOUS
  <2>1. Exposing BY DEF Init, Exposing, Expose, Kind
  <2>2. ExposureAsAsked BY DEF Init, ExposureAsAsked
  <2> QED BY <2>1, <2>2, InvStart DEF ExposureInv, FormatInv
<1>2. ExposureInv /\ [Next]_vars => ExposureInv' BY ExposureNext
<1>3. ExposureInv => ExposureAsAsked BY DEF ExposureInv
<1> QED BY <1>1, <1>2, <1>3, PTL DEF Spec

-----------------------------------------------------------------------------
(* The gain.                                                               *)

LEMMA StageWidth ==
  ASSUME NEW g \in GainRange
  PROVE  All_gain(g) < 4 * Analog_Multiple[Analog_Index(g) + 1]
<1>1. All_gain(g) \in Nat /\ All_gain(g) >= 1000 /\ All_gain(g) <= 63937 BY DEF All_gain, GainRange
<1> DEFINE i == CHOOSE i \in 1 .. 9 : IsStage(All_gain(g), i)
<1>2. i \in 1 .. 9 /\ IsStage(All_gain(g), i) BY <1>1, StageExists
<1>3. Analog_Index(g) = i - 1 BY DEF Analog_Index, IsStage
<1> HIDE DEF i
<1>4. Analog_Index(g) + 1 = i BY <1>2, <1>3
<1>5. ASSUME i # 9 PROVE All_gain(g) < Analog_Multiple[i + 1]
  <2>1. i + 1 \in (i + 1) .. 9 BY <1>2, <1>5
  <2> QED BY <1>2, <2>1 DEF IsStage
<1>6. i \in {1, 2, 3, 4, 5, 6, 7, 8, 9} BY <1>2
<1>7. CASE i = 9 BY <1>1, <1>4, <1>7, Stages
<1>8. CASE i \in {1, 2, 3, 4, 5, 6, 7, 8} BY <1>1, <1>4, <1>5, <1>8, Stages
<1> QED BY <1>6, <1>7, <1>8

Fits(g, d) ==
  LET r == (Analog_Multiple[Analog_Index(g) + 1] * d) \div 4
  IN  50 * (1000 * g - r) <= 1000 * g /\ 50 * (r - 1000 * g) <= 1000 * g

DecimalFits(g) == Decimal(g) \in 0 .. 255 /\ Fits(g, Decimal(g))

(* For every stage, the three divisions of Decimal and the one of the      *)
(* product lose two percent of the gain at most.                           *)
LEMMA DecimalClose ==
  ASSUME NEW g \in GainRange
  PROVE  DecimalFits(g)
<1> DEFINE A == Analog_Multiple[Analog_Index(g) + 1]
           all == All_gain(g)
           q == (all * 1000) \div A
           d == (q * 64) \div 1000
           r == (A * d) \div 4
<1>1. /\ all \in Nat /\ all >= A
      /\ A \in Multiples
  <2>1. g \in Nat /\ g >= 16 BY DEF GainRange
  <2> QED BY <2>1, StageChosen
<1>2. all < 4 * A BY StageWidth
<1>3. 16 * all <= 1000 * g /\ 1000 * g <= 16 * all + 15 BY DEF All_gain, GainRange
<1>4. Decimal(g) = d BY DEF Decimal
<1> HIDE DEF A, all
<1>5. A \in Nat /\ A > 0 BY <1>1 DEF Multiples
<1>6. q \in Nat /\ A * q <= all * 1000 /\ all * 1000 < A * q + A
  <2>1. ASSUME NEW x \in Nat, NEW a \in Multiples
        PROVE  x \div a \in Nat /\ a * (x \div a) <= x /\ x < a * (x \div a) + a
    <3>1. CASE a = 1000 BY <3>1
    <3>2. CASE a = 1400 BY <3>2
    <3>3. CASE a = 2000 BY <3>3
    <3>4. CASE a = 2840 BY <3>4
    <3>5. CASE a = 4080 BY <3>5
    <3>6. CASE a = 5980 BY <3>6
    <3>7. CASE a = 8660 BY <3>7
    <3>8. CASE a = 12600 BY <3>8
    <3>9. CASE a = 17600 BY <3>9
    <3> QED BY <3>1, <3>2, <3>3, <3>4, <3>5, <3>6, <3>7, <3>8, <3>9 DEF Multiples
  <2>2. all * 1000 \in Nat BY <1>1
  <2> QED BY <1>1, <2>1, <2>2
<1>7. q < 4000
  <2> HIDE DEF q
  <2>1. CASE A = 1000 BY <1>1, <1>2, <1>6, <2>1
  <2>2. CASE A = 1400 BY <1>1, <1>2, <1>6, <2>2
  <2>3. CASE A = 2000 BY <1>1, <1>2, <1>6, <2>3
  <2>4. CASE A = 2840 BY <1>1, <1>2, <1>6, <2>4
  <2>5. CASE A = 4080 BY <1>1, <1>2, <1>6, <2>5
  <2>6. CASE A = 5980 BY <1>1, <1>2, <1>6, <2>6
  <2>7. CASE A = 8660 BY <1>1, <1>2, <1>6, <2>7
  <2>8. CASE A = 12600 BY <1>1, <1>2, <1>6, <2>8
  <2>9. CASE A = 17600 BY <1>1, <1>2, <1>6, <2>9
  <2> QED BY <1>1, <2>1, <2>2, <2>3, <2>4, <2>5, <2>6, <2>7, <2>8, <2>9 DEF Multiples
<1> HIDE DEF q
<1>8. d \in 0 .. 255 /\ 1000 * d <= 64 * q /\ 64 * q < 1000 * d + 1000 BY <1>6, <1>7
<1> HIDE DEF d
<1>9. r \in Nat /\ 4 * r <= A * d /\ A * d <= 4 * r + 3
  <2>1. A * d \in Nat BY <1>5, <1>8
  <2>2. \A x \in Nat : x \div 4 \in Nat /\ 4 * (x \div 4) <= x /\ x <= 4 * (x \div 4) + 3 OBVIOUS
  <2> QED BY <2>1, <2>2
<1> HIDE DEF r
<1>10. 50 * (1000 * g - r) <= 1000 * g /\ 50 * (r - 1000 * g) <= 1000 * g
  <2>1. d \in Nat /\ g \in 16 .. 1023 BY <1>8 DEF GainRange
  <2>2. /\ A \in Multiples /\ g \in 16 .. 1023
        /\ all \in Nat /\ q \in Nat /\ d \in Nat /\ r \in Nat
        /\ all >= A /\ 16 * all <= 1000 * g /\ 1000 * g <= 16 * all + 15
        /\ A * q <= all * 1000 /\ all * 1000 < A * q + A
        /\ 1000 * d <= 64 * q /\ 64 * q < 1000 * d + 1000
        /\ 4 * r <= A * d /\ A * d <= 4 * r + 3
    BY <1>1, <1>3, <1>6, <1>8, <1>9, <2>1
  <2>3. CASE A = 1000 BY <2>2, <2>3
  <2>4. CASE A = 1400 BY <2>2, <2>4
  <2>5. CASE A = 2000 BY <2>2, <2>5
  <2>6. CASE A = 2840 BY <2>2, <2>6
  <2>7. CASE A = 4080 BY <2>2, <2>7
  <2>8. CASE A = 5980 BY <2>2, <2>8
  <2>9. CASE A = 8660 BY <2>2, <2>9
  <2>10. CASE A = 12600 BY <2>2, <2>10
  <2>11. CASE A = 17600 BY <2>2, <2>11
  <2> QED BY <2>2, <2>3, <2>4, <2>5, <2>6, <2>7, <2>8, <2>9, <2>10, <2>11 DEF Multiples
<1> QED BY <1>4, <1>8, <1>10 DEF A, r, Fits, DecimalFits

(* The two registers of the digital gain hold it.                          *)
LEMMA TwoRegisters ==
  \A d \in 0 .. 255 : 64 * ((d \div 64) % 256) + ((4 * d) % 256) \div 4 = d
OBVIOUS

HasGainPlan(s) == \E g \in GainRange, b \in Nat : GainPlan(s, g, b)

(* Every call for a gain follows such a plan.                              *)
LEMMA GainPlanned ==
  ASSUME NEW t, NEW kind \in {"gain", "exp_gain"}, NEW steps, NEW changes,
         Planned(t, kind, steps, changes)
  PROVE  HasGainPlan(steps)
<1> USE DEF HasGainPlan
<1>1. CASE kind = "gain"
  <2>1. \E g \in GainRange : steps = sensor_s_gain(g) BY <1>1 DEF Planned
  <2>2. PICK g \in GainRange : steps = sensor_s_gain(g) BY <2>1
  <2>3. /\ sensor_s_gain(g) \in Seq(OfGain) /\ Len(sensor_s_gain(g)) = 4
        /\ sensor_s_gain(g)[1] = Write(182, Analog_Index(g))
        /\ sensor_s_gain(g)[2] = Write(177, Decimal(g) \div 64)
        /\ sensor_s_gain(g)[3] = Write(178, 4 * Decimal(g))
        /\ sensor_s_gain(g)[4] = Note("gain", g)
    BY GainSteps
  <2>4. steps \in Seq(Mild) BY <2>2, <2>3, Widen
  <2>5. GainPlan(steps, g, 0) BY <2>2, <2>3, <2>4 DEF GainPlan
  <2> QED BY <2>5
<1>2. CASE kind = "exp_gain"
  <2>1. PICK e \in Int, h \in Int : steps = sensor_s_exp_gain(e, h) BY <1>2 DEF Planned
  <2> DEFINE x == Topped(e)
             g == GainInRange(h)
             G == sensor_s_gain(g)
  <2>2. x \in Noted BY ExpMaxNat DEF Topped, Noted
  <2>3. g \in GainRange BY DEF GainInRange, GainRange
  <2>4. /\ steps \in Seq(Mild) /\ Len(steps) = 10
        /\ \A i \in 1 .. 4 : steps[4 + i] = G[i]
        /\ steps[9] = Note("exp", x) /\ steps[10] = Note("gain", g)
    BY <2>1, ExpGainSteps
  <2> HIDE DEF x, g
  <2>5. /\ G[1] = Write(182, Analog_Index(g)) /\ G[2] = Write(177, Decimal(g) \div 64)
        /\ G[3] = Write(178, 4 * Decimal(g)) /\ G[4] = Note("gain", g)
    BY <2>3, GainSteps
  <2> HIDE DEF G
  <2>6. steps[5] = G[1] /\ steps[6] = G[2] /\ steps[7] = G[3] /\ steps[8] = G[4]
    <3>1. /\ steps[4 + 1] = G[1] /\ steps[4 + 2] = G[2] /\ steps[4 + 3] = G[3]
          /\ steps[4 + 4] = G[4]
      BY <2>4
    <3> QED BY <3>1
  <2>7. Note("exp", x) \in OfExp BY <2>2 DEF Note, OfExp, Mild, Steps, Notes
  <2>8. \A i \in 9 .. Len(steps) : steps[i] = Note("gain", g) \/ steps[i] \in OfExp
    BY <2>4, <2>7
  <2>9. GainPlan(steps, g, 4) BY <2>4, <2>5, <2>6, <2>8 DEF GainPlan
  <2> QED BY <2>3, <2>9
<1> QED BY <1>1, <1>2

GainSpared == \A x \in {182, 177, 178} : regs'[<<0, x>>] = regs[<<0, x>>]

(* A transfer of an exposure leaves the registers of the gain.             *)
LEMMA ExpSpares ==
  ASSUME TypeOK, NEW h \in Writes, h \in OfExp, Take(h)
  PROVE  GainSpared
<1>1. h.reg \in {254, 3, 4} /\ h \in Mild BY DEF OfExp, Writes
<1>2. <<0, 182>> \in Slots /\ <<0, 177>> \in Slots /\ <<0, 178>> \in Slots BY DEF Slots
<1> QED BY <1>1, <1>2, Taken DEF GainSpared

LEMMA NothingDone ==
  ASSUME NEW g, NEW k \in Int, k <= 0
  PROVE  GainDone(g, k)'
BY DEF GainDone

(* The next transfer of a call for a gain, with page 0 selected.           *)
LEMMA GainTransfer ==
  ASSUME TypeOK, NEW s \in Seq(Mild), NEW g \in GainRange, NEW b \in Nat, NEW n \in Nat,
         GainPlan(s, g, b), n < Len(s), GainDone(g, n - b), page = 0,
         s[n + 1] \in Writes, Take(s[n + 1]), info' = info
  PROVE  GainDone(g, (n + 1) - b)'
<1> DEFINE w == s[n + 1]
<1>1. <<0, 182>> \in Slots /\ <<0, 177>> \in Slots /\ <<0, 178>> \in Slots BY DEF Slots
<1>2. w.op = "write" /\ w \in Mild BY DEF Writes
<1>3. \A r \in {182, 177, 178} : w.reg = r =>
        /\ regs'[<<0, r>>] = w.val
        /\ \A x \in {182, 177, 178} \ {r} : regs'[<<0, x>>] = regs[<<0, x>>]
  <2> SUFFICES ASSUME NEW r \in {182, 177, 178}, w.reg = r
               PROVE  /\ regs'[<<0, r>>] = w.val
                      /\ \A x \in {182, 177, 178} \ {r} : regs'[<<0, x>>] = regs[<<0, x>>]
    OBVIOUS
  <2>1. regs' = [c \in Slots |-> IF c = <<0, r>> THEN w.val ELSE regs[c]] BY DEF Take
  <2>2. <<0, r>> \in Slots
    <3>1. r = 182 \/ r = 177 \/ r = 178 OBVIOUS
    <3> QED BY <1>1, <3>1
  <2>3. regs'[<<0, r>>] = w.val BY <2>1, <2>2
  <2>4. ASSUME NEW x \in {182, 177, 178} \ {r} PROVE regs'[<<0, x>>] = regs[<<0, x>>]
    <3>1. <<0, x>> \in Slots
      <4>1. x = 182 \/ x = 177 \/ x = 178 OBVIOUS
      <4> QED BY <1>1, <4>1
    <3>2. <<0, x>> # <<0, r>> OBVIOUS
    <3> QED BY <2>1, <3>1, <3>2
  <2> HIDE DEF w
  <2> QED BY <2>3, <2>4
<1>4. CASE n < b
  <2>1. (n + 1) - b \in Int /\ (n + 1) - b <= 0 BY <1>4
  <2> QED BY <2>1, NothingDone
<1>5. CASE n = b
  <2>1. w.reg = 182 /\ w.val = Analog_Index(g) % 256 BY <1>5, WriteFields DEF GainPlan
  <2>2. Analog_Index(g) \in 0 .. 8
    <3>1. g \in Nat /\ g >= 16 BY DEF GainRange
    <3> QED BY <3>1, StageChosen
  <2>3. \A x \in 0 .. 8 : x % 256 = x OBVIOUS
  <2>4. regs'[<<0, 182>>] = Analog_Index(g) BY <1>3, <2>1, <2>2, <2>3, SMTT(30)
  <2>5. (n + 1) - b = 1 BY <1>5
  <2> QED BY <2>4, <2>5 DEF GainDone
<1>6. CASE n = b + 1
  <2>1. w.reg = 177 /\ w.val = (Decimal(g) \div 64) % 256
    <3>1. s[b + 2] = Write(177, Decimal(g) \div 64) BY DEF GainPlan
    <3>2. n + 1 = b + 2 BY <1>6
    <3> QED BY <3>1, <3>2, WriteFields
  <2>2. n - b = 1 /\ (n + 1) - b = 2 BY <1>6
  <2>3. regs[<<0, 182>>] = Analog_Index(g) BY <2>2 DEF GainDone
  <2>4. regs'[<<0, 177>>] = (Decimal(g) \div 64) % 256 /\ regs'[<<0, 182>>] = Analog_Index(g)
    BY <1>3, <2>1, <2>3
  <2> QED BY <2>2, <2>4, SMTT(30) DEF GainDone
<1>7. CASE n = b + 2
  <2>1. w.reg = 178 /\ w.val = (4 * Decimal(g)) % 256
    <3>1. s[b + 3] = Write(178, 4 * Decimal(g)) BY DEF GainPlan
    <3>2. n + 1 = b + 3 BY <1>7
    <3> QED BY <3>1, <3>2, WriteFields
  <2>2. n - b = 2 /\ (n + 1) - b = 3 BY <1>7
  <2>3. regs[<<0, 182>>] = Analog_Index(g) /\ regs[<<0, 177>>] = (Decimal(g) \div 64) % 256
    BY <2>2 DEF GainDone
  <2>4. /\ regs'[<<0, 178>>] = (4 * Decimal(g)) % 256
        /\ regs'[<<0, 177>>] = (Decimal(g) \div 64) % 256
        /\ regs'[<<0, 182>>] = Analog_Index(g)
    BY <1>3, <2>1, <2>3
  <2> QED BY <2>2, <2>4 DEF GainDone
<1>8. CASE n = b + 3
  <2>1. w.op = "note"
    <3>1. s[b + 4] = Note("gain", g) BY DEF GainPlan
    <3>2. n + 1 = b + 4 BY <1>8
    <3> QED BY <3>1, <3>2, NoteFields
  <2> QED BY <1>2, <2>1
<1>9. CASE n >= b + 4
  <2>1. n + 1 \in (b + 5) .. Len(s) BY <1>9
  <2>2. w \in OfExp BY <1>2, <2>1, NoteFields DEF GainPlan
  <2>3. w \in Writes /\ Take(w) OBVIOUS
  <2> HIDE DEF w
  <2>4. GainSpared BY <2>2, <2>3, ExpSpares
  <2>5. n - b >= 4 /\ (n + 1) - b >= 4 BY <1>9
  <2> QED BY <2>4, <2>5 DEF GainDone, GainSpared
<1> QED BY <1>4, <1>5, <1>6, <1>7, <1>8, <1>9

(* The next assignment of a call for a gain.                               *)
LEMMA GainAssignment ==
  ASSUME TypeOK, NEW s \in Seq(Mild), NEW g \in GainRange, NEW b \in Nat, NEW n \in Nat,
         GainPlan(s, g, b), n < Len(s), GainDone(g, n - b),
         s[n + 1] \in Notes, info' = [info EXCEPT ![s[n + 1].reg] = s[n + 1].val],
         regs' = regs
  PROVE  GainDone(g, (n + 1) - b)'
<1>1. info \in InfoRange BY InfoTyped
<1>2. s[n + 1].op = "note" BY DEF Notes
<1>3. CASE n < b
  <2>1. (n + 1) - b \in Int /\ (n + 1) - b <= 0 BY <1>3
  <2> QED BY <2>1, NothingDone
<1>4. CASE n \in b .. (b + 2)
  <2>1. n + 1 = b + 1 \/ n + 1 = b + 2 \/ n + 1 = b + 3 BY <1>4
  <2>2. /\ s[b + 1].op = "write" /\ s[b + 2].op = "write" /\ s[b + 3].op = "write"
    BY WriteFields DEF GainPlan
  <2> QED BY <1>2, <2>1, <2>2
<1>5. CASE n >= b + 3
  <2>1. n - b >= 3 /\ (n + 1) - b >= 4 BY <1>5
  <2>2. s[n + 1] = Note("gain", g) \/ (n - b >= 4 /\ s[n + 1] \in OfExp)
    <3>1. CASE n = b + 3 BY <3>1 DEF GainPlan
    <3>2. CASE n # b + 3
      <4>1. n + 1 \in (b + 5) .. Len(s) /\ n - b >= 4 BY <1>5, <3>2
      <4> QED BY <4>1 DEF GainPlan
    <3> QED BY <3>1, <3>2
  <2>3. info'.gain = g
    <3>1. CASE s[n + 1] = Note("gain", g)
      BY <1>1, <3>1, NoteFields DEF InfoRange
    <3>2. CASE n - b >= 4 /\ s[n + 1] \in OfExp
      <4>1. s[n + 1].reg = "exp" BY <1>2, <3>2 DEF OfExp
      <4>2. info'.gain = info.gain BY <1>1, <4>1 DEF InfoRange
      <4> QED BY <3>2, <4>2 DEF GainDone
    <3> QED BY <2>2, <3>1, <3>2
  <2> QED BY <2>1, <2>3 DEF GainDone
<1> QED BY <1>3, <1>4, <1>5

(* What another task does to the framework's call for a gain.              *)
LEMMA GainStays ==
  ASSUME Gaining, call'[V4l2] = call[V4l2], todo'[V4l2] = todo[V4l2],
         call[V4l2] # NULL =>
           /\ GainSpared /\ info'.gain = info.gain
           /\ "page" \in sure' => "page" \in sure
  PROVE  Gaining'
<1> SUFFICES ASSUME Kind(V4l2, {"gain", "exp_gain"})', ~call'[V4l2].lost, "page" \in sure'
             PROVE  GainLeft(todo[V4l2])'
  BY DEF Gaining
<1>1. Kind(V4l2, {"gain", "exp_gain"}) /\ call[V4l2] # NULL BY DEF Kind
<1>2. PICK s \in Seq(Mild), g \in GainRange, b \in Nat, n \in Nat :
        GainPlan(s, g, b) /\ Rest(todo[V4l2], s, n) /\ GainDone(g, n - b)
  BY <1>1 DEF Gaining, GainLeft
<1>3. GainDone(g, n - b)' BY <1>1, <1>2 DEF GainDone, GainSpared
<1> QED BY <1>2, <1>3 DEF GainLeft

LEMMA GainOpening ==
  ASSUME SensorInv, Gaining, Opening
  PROVE  Gaining'
<1> USE DEF SensorInv
<1>1. PICK t \in Tasks, kind \in Kinds, steps \in Seq(Steps), changes \in SUBSET Facts :
        /\ Begin(t, kind, steps, changes) /\ Planned(t, kind, steps, changes)
        /\ \/ info' = info
           \/ \E w \in Windows : info' = [info EXCEPT !.current_wins = w]
  BY Opens
<1>2. /\ call'[t] = [kind |-> kind, lost |-> FALSE, tries |-> 0] /\ todo'[t] = steps
      /\ \A u \in Tasks \ {t} : call'[u] = call[u] /\ todo'[u] = todo[u]
      /\ sure' = sure \ changes /\ regs' = regs
  BY <1>1, Begins DEF hw
<1>3. CASE t = V4l2
  <2> SUFFICES ASSUME Kind(V4l2, {"gain", "exp_gain"})'
               PROVE  GainLeft(todo[V4l2])'
    BY DEF Gaining
  <2>1. kind \in {"gain", "exp_gain"} BY <1>2, <1>3 DEF Kind
  <2>2. PICK g \in GainRange, b \in Nat : GainPlan(steps, g, b)
    <3>1. Planned(t, kind, steps, changes) BY <1>1
    <3>2. HasGainPlan(steps) BY <2>1, <3>1, GainPlanned
    <3> QED BY <3>2 DEF HasGainPlan
  <2>3. steps \in Seq(Mild) BY <2>2 DEF GainPlan
  <2>4. Rest(steps, steps, 0) BY <2>3, RestStart
  <2>5. GainDone(g, 0 - b)'
    <3>1. 0 - b \in Int /\ 0 - b <= 0 OBVIOUS
    <3> QED BY <3>1, NothingDone
  <2>6. 0 \in Nat OBVIOUS
  <2> QED BY <1>2, <1>3, <2>2, <2>3, <2>4, <2>5, <2>6 DEF GainLeft
<1>4. CASE t # V4l2
  <2>1. info'.gain = info.gain
    <3>1. info \in InfoRange BY InfoTyped
    <3> QED BY <1>1, <3>1 DEF InfoRange
  <2>2. GainSpared BY <1>2 DEF GainSpared
  <2> QED BY <1>2, <1>4, <2>1, <2>2, Tasking, GainStays
<1> QED BY <1>3, <1>4

(* What a writer to /dev/exp may write, and note.                          *)
LEMMA WriterSteps ==
  ASSUME TypeOK, Todo, NEW t \in Tasks, t # V4l2, call[t] # NULL, todo[t] # <<>>
  PROVE  Head(todo[t]) \in OfExp
<1>1. call[t] \in Calls BY DEF TypeOK
<1>2. call[t].kind \notin {"gain", "exp_gain", "fmt"} BY DEF Todo, Kind
<1>3. call[t].kind = "exp" BY <1>1, <1>2 DEF Calls, Kinds
<1>4. todo[t] \in Seq(OfExp) BY <1>3 DEF Todo, Kind
<1> QED BY <1>4, TailOf

(* The plan of a call under way, and where it is.                          *)
GainAhead(q) ==
  \E s \in Seq(Mild), g \in GainRange, b \in Nat, n \in Nat :
    /\ GainPlan(s, g, b) /\ GainDone(g, n - b)
    /\ n < Len(s) /\ Head(q) = s[n + 1] /\ Rest(Tail(q), s, n + 1)

LEMMA GainUnderWay ==
  ASSUME Todo, Gaining, Kind(V4l2, {"gain", "exp_gain"}), ~call[V4l2].lost, "page" \in sure,
         todo[V4l2] # <<>>
  PROVE  GainAhead(todo[V4l2])
<1>1. PICK s \in Seq(Mild), g \in GainRange, b \in Nat, n \in Nat :
        GainPlan(s, g, b) /\ Rest(todo[V4l2], s, n) /\ GainDone(g, n - b)
  BY DEF Gaining, GainLeft
<1>2. todo[V4l2] \in Seq(Mild)
  <2>1. Kind(V4l2, {"exp", "gain", "exp_gain"}) BY DEF Kind
  <2> QED BY <2>1, Tasking DEF Todo
<1>3. Head(todo[V4l2]) = s[n + 1] /\ Rest(Tail(todo[V4l2]), s, n + 1)
  BY <1>1, <1>2, RestNext
<1>4. n < Len(s) BY <1>3 DEF Rest
<1> QED BY <1>1, <1>3, <1>4 DEF GainAhead

LEMMA GainWrite ==
  ASSUME SensorInv, Gaining, NEW t \in Tasks, sensor_write(t)
  PROVE  Gaining'
<1> USE DEF SensorInv
<1> DEFINE h == Head(todo[t])
<1>1. /\ todo[t] # <<>> /\ h \in Writes /\ call[t] \in Calls
      /\ call'[t] \in Calls /\ call'[t].kind = call[t].kind
      /\ call[t].lost => call'[t].lost
      /\ \/ todo'[t] = Tail(todo[t]) \/ todo'[t] = todo[t]
         \/ call'[t].lost /\ call[t].kind = "fmt" /\ todo'[t] = <<>>
      /\ \A u \in Tasks \ {t} : call'[u] = call[u] /\ todo'[u] = todo[u]
      /\ \/ Take(h)
         \/ (call'[t].lost \/ todo'[t] = todo[t]) /\ page' = page /\ regs' = regs
      /\ sure' = sure /\ info' = info
  BY Transfers
<1>2. call[t] # NULL /\ call'[t] # NULL BY <1>1, SensorAssumption
<1>3. CASE t = V4l2
  <2> SUFFICES ASSUME Kind(V4l2, {"gain", "exp_gain"})', ~call'[V4l2].lost, "page" \in sure
               PROVE  GainLeft(todo[V4l2])'
    BY <1>1 DEF Gaining
  <2>1. Kind(V4l2, {"gain", "exp_gain"}) /\ ~call[V4l2].lost BY <1>1, <1>2, <1>3 DEF Kind
  <2>2. PICK s \in Seq(Mild), g \in GainRange, b \in Nat, n \in Nat :
          /\ GainPlan(s, g, b) /\ GainDone(g, n - b)
          /\ n < Len(s) /\ Head(todo[V4l2]) = s[n + 1] /\ Rest(Tail(todo[V4l2]), s, n + 1)
    <3>1. todo[V4l2] # <<>> BY <1>1, <1>3
    <3>2. GainAhead(todo[V4l2]) BY <2>1, <3>1, GainUnderWay
    <3> QED BY <3>2 DEF GainAhead
  <2>h. h = s[n + 1] BY <1>3, <2>2
  <2> HIDE DEF h
  <2>4. page = 0 BY DEF PageSelected
  <2>5. CASE todo'[t] = todo[t]
    <3>1. PICK r \in Seq(Mild), f \in GainRange, a \in Nat, m \in Nat :
            GainPlan(r, f, a) /\ Rest(todo[V4l2], r, m) /\ GainDone(f, m - a)
      BY <2>1 DEF Gaining, GainLeft
    <3>2. todo[V4l2] \in Seq(Mild)
      <4>1. Kind(V4l2, {"exp", "gain", "exp_gain"}) BY <2>1 DEF Kind
      <4> QED BY <4>1, Tasking DEF Todo
    <3>3. m < Len(r) /\ h = r[m + 1]
      <4>1. Head(todo[V4l2]) = r[m + 1] /\ Rest(Tail(todo[V4l2]), r, m + 1)
        BY <1>1, <1>3, <3>1, <3>2, RestNext
      <4> QED BY <1>3, <4>1 DEF Rest, h
    <3>4. GainDone(f, m - a)'
      <4>1. CASE Take(h)
        <5>1. GainDone(f, (m + 1) - a)' BY <1>1, <2>4, <3>1, <3>3, <4>1, GainTransfer
        <5>2. m - a \in Int /\ (m + 1) - a = (m - a) + 1 OBVIOUS
        <5> QED BY <5>1, <5>2 DEF GainDone
      <4>2. CASE regs' = regs BY <1>1, <3>1, <4>2 DEF GainDone
      <4> QED BY <1>1, <4>1, <4>2
    <3> QED BY <1>3, <2>5, <3>1, <3>4 DEF GainLeft
  <2>6. CASE todo'[t] # todo[t]
    <3>1. Take(s[n + 1]) /\ s[n + 1] \in Writes BY <1>1, <1>3, <2>1, <2>6, <2>h
    <3>2. GainDone(g, (n + 1) - b)' BY <1>1, <2>2, <2>4, <3>1, GainTransfer
    <3>3. todo'[V4l2] = Tail(todo[V4l2]) /\ n + 1 \in Nat BY <1>1, <1>3, <2>1, <2>6
    <3> QED BY <2>2, <3>2, <3>3 DEF GainLeft
  <2> QED BY <2>5, <2>6
<1>4. CASE t # V4l2
  <2>1. h \in OfExp BY <1>1, <1>2, <1>4, WriterSteps
  <2> HIDE DEF h
  <2>2. GainSpared
    <3>1. CASE Take(h) BY <1>1, <2>1, <3>1, ExpSpares
    <3>2. CASE regs' = regs BY <3>2 DEF GainSpared
    <3> QED BY <1>1, <3>1, <3>2
  <2> QED BY <1>1, <1>4, <2>2, Tasking, GainStays
<1> QED BY <1>3, <1>4

LEMMA GainAssign ==
  ASSUME SensorInv, Gaining, NEW t \in Tasks, Assign(t)
  PROVE  Gaining'
<1> USE DEF SensorInv
<1> DEFINE h == Head(todo[t])
<1>1. /\ todo[t] # <<>> /\ h \in Notes /\ call[t] \in Calls
      /\ todo'[t] = Tail(todo[t])
      /\ \A u \in Tasks \ {t} : todo'[u] = todo[u]
      /\ info' = [info EXCEPT ![h.reg] = h.val]
      /\ regs' = regs /\ call' = call /\ sure' = sure
  BY Assigns DEF hw
<1>2. call[t] # NULL BY <1>1, SensorAssumption
<1>3. CASE t = V4l2
  <2> SUFFICES ASSUME Kind(V4l2, {"gain", "exp_gain"})', ~call'[V4l2].lost, "page" \in sure
               PROVE  GainLeft(todo[V4l2])'
    BY <1>1 DEF Gaining
  <2>1. Kind(V4l2, {"gain", "exp_gain"}) /\ ~call[V4l2].lost BY <1>1 DEF Kind
  <2>2. PICK s \in Seq(Mild), g \in GainRange, b \in Nat, n \in Nat :
          /\ GainPlan(s, g, b) /\ GainDone(g, n - b)
          /\ n < Len(s) /\ Head(todo[V4l2]) = s[n + 1] /\ Rest(Tail(todo[V4l2]), s, n + 1)
    <3>1. todo[V4l2] # <<>> BY <1>1, <1>3
    <3>2. GainAhead(todo[V4l2]) BY <2>1, <3>1, GainUnderWay
    <3> QED BY <3>2 DEF GainAhead
  <2>h. h = s[n + 1] BY <1>3, <2>2
  <2> HIDE DEF h
  <2>3. s[n + 1] \in Notes /\ info' = [info EXCEPT ![s[n + 1].reg] = s[n + 1].val]
    BY <1>1, <2>h
  <2>4. GainDone(g, (n + 1) - b)' BY <1>1, <2>2, <2>3, GainAssignment
  <2>5. todo'[V4l2] = Tail(todo[V4l2]) /\ n + 1 \in Nat BY <1>1, <1>3
  <2> QED BY <2>2, <2>4, <2>5 DEF GainLeft
<1>4. CASE t # V4l2
  <2>1. h \in OfExp BY <1>1, <1>2, <1>4, WriterSteps
  <2>2. h.reg = "exp" BY <1>1, <2>1 DEF OfExp, Notes
  <2>3. info \in InfoRange BY InfoTyped
  <2> HIDE DEF h
  <2>4. info'.gain = info.gain BY <1>1, <2>2, <2>3 DEF InfoRange
  <2>5. GainSpared BY <1>1 DEF GainSpared
  <2> QED BY <1>1, <1>4, <2>4, <2>5, Tasking, GainStays
<1> QED BY <1>3, <1>4

LEMMA GainReturn ==
  ASSUME SensorInv, Gaining, NEW t \in Tasks, Return(t)
  PROVE  Gaining'
<1> USE DEF SensorInv
<1>1. /\ call[t] \in Calls /\ call' = [call EXCEPT ![t] = NULL]
      /\ todo' = todo /\ info' = info /\ regs' = regs
      /\ "page" \in sure' \ sure => call[t].kind = "fmt"
  BY Returns DEF hw
<1>2. call[t] # NULL BY <1>1, SensorAssumption
<1>3. CASE t = V4l2
  <2>1. call'[V4l2] = NULL BY <1>1, <1>3, Tasking DEF TypeOK
  <2> QED BY <2>1 DEF Gaining, Kind
<1>4. CASE t # V4l2
  <2>1. call[t].kind # "fmt" BY <1>2, <1>4 DEF Todo, Kind
  <2>2. call'[V4l2] = call[V4l2] BY <1>1, <1>4, Tasking DEF TypeOK
  <2>3. GainSpared BY <1>1 DEF GainSpared
  <2> QED BY <1>1, <2>1, <2>2, <2>3, GainStays
<1> QED BY <1>3, <1>4

LEMMA GainOther ==
  ASSUME SensorInv, Gaining, Setting \/ sensor_power \/ Switching \/ UNCHANGED vars
  PROVE  Gaining'
<1> USE DEF SensorInv
<1>1. CASE Setting
  <2>1. call[V4l2] = NULL /\ call' = call BY <1>1, Settings
  <2> QED BY <2>1 DEF Gaining, Kind
<1>2. CASE sensor_power
  <2>1. call[V4l2] = NULL /\ call' = call BY <1>2 DEF sensor_power, Idle
  <2> QED BY <2>1 DEF Gaining, Kind
<1>3. CASE Switching
  <2>1. call[V4l2] = NULL /\ call' = call BY <1>3, Switches
  <2> QED BY <2>1 DEF Gaining, Kind
<1>4. CASE UNCHANGED vars
  <2>1. UNCHANGED <<regs, call, todo, info, sure>> BY <1>4 DEF vars, hw
  <2>2. GainSpared BY <2>1 DEF GainSpared
  <2> QED BY <2>1, <2>2, GainStays
<1> QED BY <1>1, <1>2, <1>3, <1>4

(* The registers that GainAsAsked is about stay.                           *)
LEMMA AskedStays ==
  ASSUME GainAsAsked, GainSpared, info'.gain = info.gain, "gain" \in sure' => "gain" \in sure
  PROVE  GainAsAsked'
<1>1. /\ regs'[<<0, 182>>] = regs[<<0, 182>>] /\ regs'[<<0, 177>>] = regs[<<0, 177>>]
      /\ regs'[<<0, 178>>] = regs[<<0, 178>>]
  BY DEF GainSpared
<1> QED BY <1>1 DEF GainAsAsked

(* Whoever is under way while a gain is ensured is about an exposure.      *)
LEMMA OnlyExposures ==
  ASSUME SensorInv, NEW t \in Tasks, call[t] # NULL, todo[t] # <<>>, "gain" \in sure
  PROVE  Head(todo[t]) \in OfExp
<1>1. call[t] \in Calls BY DEF SensorInv, TypeOK
<1>2. call[t].kind \notin {"fmt", "gain", "exp_gain"} BY DEF SensorInv, Withdrawn, Kind
<1>3. call[t].kind = "exp" BY <1>1, <1>2 DEF Calls, Kinds
<1>4. todo[t] \in Seq(OfExp) BY <1>3 DEF SensorInv, Todo, Kind
<1> QED BY <1>4, TailOf

LEMMA GainKeptWrite ==
  ASSUME SensorInv, GainAsAsked, NEW t \in Tasks, sensor_write(t)
  PROVE  GainAsAsked'
<1> DEFINE h == Head(todo[t])
<1>1. /\ todo[t] # <<>> /\ h \in Writes /\ call[t] \in Calls
      /\ Take(h) \/ (page' = page /\ regs' = regs)
      /\ sure' = sure /\ info' = info
  BY Transfers DEF SensorInv
<1>2. call[t] # NULL BY <1>1, SensorAssumption
<1>3. CASE "gain" \notin sure BY <1>1, <1>3 DEF GainAsAsked
<1>4. CASE "gain" \in sure
  <2>1. h \in OfExp BY <1>1, <1>2, <1>4, OnlyExposures
  <2> HIDE DEF h
  <2>2. GainSpared
    <3>1. CASE Take(h) BY <1>1, <2>1, <3>1, ExpSpares DEF SensorInv
    <3>2. CASE regs' = regs BY <3>2 DEF GainSpared
    <3> QED BY <1>1, <3>1, <3>2
  <2> QED BY <1>1, <2>2, AskedStays
<1> QED BY <1>3, <1>4

LEMMA GainKeptAssign ==
  ASSUME SensorInv, GainAsAsked, NEW t \in Tasks, Assign(t)
  PROVE  GainAsAsked'
<1> DEFINE h == Head(todo[t])
<1>1. /\ todo[t] # <<>> /\ h \in Notes /\ call[t] \in Calls
      /\ info' = [info EXCEPT ![h.reg] = h.val]
      /\ regs' = regs /\ sure' = sure
  BY Assigns DEF SensorInv, hw
<1>2. call[t] # NULL BY <1>1, SensorAssumption
<1>3. CASE "gain" \notin sure BY <1>1, <1>3 DEF GainAsAsked
<1>4. CASE "gain" \in sure
  <2>1. h \in OfExp BY <1>1, <1>2, <1>4, OnlyExposures
  <2>2. h.reg = "exp" BY <1>1, <2>1 DEF OfExp, Notes
  <2>3. info \in InfoRange BY InfoTyped DEF SensorInv
  <2> HIDE DEF h
  <2>4. info'.gain = info.gain BY <1>1, <2>2, <2>3 DEF InfoRange
  <2>5. GainSpared BY <1>1 DEF GainSpared
  <2> QED BY <1>1, <2>4, <2>5, AskedStays
<1> QED BY <1>3, <1>4

(* What the registers say of the gain g, read back, is g to two percent.   *)
LEMMA ReadBack ==
  ASSUME NEW g \in GainRange
  PROVE  Fits(g, 64 * ((Decimal(g) \div 64) % 256) + ((4 * Decimal(g)) % 256) \div 4)
<1>1. DecimalFits(g) BY DecimalClose
<1>2. Decimal(g) \in 0 .. 255 /\ Fits(g, Decimal(g)) BY <1>1 DEF DecimalFits
<1>3. 64 * ((Decimal(g) \div 64) % 256) + ((4 * Decimal(g)) % 256) \div 4 = Decimal(g)
  BY <1>2, TwoRegisters
<1> QED BY <1>2, <1>3

LEMMA GainKeptReturn ==
  ASSUME SensorInv, Gaining, GainAsAsked, NEW t \in Tasks, Return(t)
  PROVE  GainAsAsked'
<1> USE DEF SensorInv
<1>1. /\ call[t] \in Calls /\ todo[t] = <<>> /\ info' = info /\ regs' = regs
      /\ "gain" \in sure' \ sure =>
           call[t].kind \in {"gain", "exp_gain"} /\ ~call[t].lost /\ "page" \in sure
  BY Returns DEF hw
<1>2. CASE "gain" \in sure' \ sure
  <2>1. call[t] # NULL BY <1>1, SensorAssumption
  <2>2. Kind(t, {"gain", "exp_gain"}) BY <1>1, <1>2, <2>1 DEF Kind
  <2>3. t = V4l2 BY <2>2, OnlyFramework
  <2>4. PICK s \in Seq(Mild), g \in GainRange, b \in Nat, n \in Nat :
          GainPlan(s, g, b) /\ Rest(<<>>, s, n) /\ GainDone(g, n - b)
    <3>1. /\ Kind(V4l2, {"gain", "exp_gain"}) /\ ~call[V4l2].lost /\ "page" \in sure
          /\ todo[V4l2] = <<>>
      BY <1>1, <1>2, <2>2, <2>3
    <3>2. GainLeft(<<>>) BY <3>1 DEF Gaining
    <3> QED BY <3>2 DEF GainLeft
  <2>5. n - b >= 4
    <3>1. n = Len(s) BY <2>4, RestEnd
    <3> QED BY <2>4, <3>1 DEF GainPlan
  <2>6. /\ regs[<<0, 182>>] = Analog_Index(g) /\ regs[<<0, 177>>] = (Decimal(g) \div 64) % 256
        /\ regs[<<0, 178>>] = (4 * Decimal(g)) % 256 /\ info.gain = g
    BY <2>4, <2>5 DEF GainDone
  <2>7. Fits(g, 64 * regs[<<0, 177>>] + regs[<<0, 178>>] \div 4)
    <3>1. Fits(g, 64 * ((Decimal(g) \div 64) % 256) + ((4 * Decimal(g)) % 256) \div 4)
      BY ReadBack
    <3> QED BY <2>6, <3>1
  <2> QED BY <1>1, <2>6, <2>7 DEF GainAsAsked, Fits
<1>3. CASE "gain" \notin sure' \ sure
  <2>1. GainSpared BY <1>1 DEF GainSpared
  <2> QED BY <1>1, <1>3, <2>1, AskedStays
<1> QED BY <1>2, <1>3

LEMMA GainNext ==
  ASSUME GainInv, [Next]_vars
  PROVE  GainInv'
<1>1. FormatInv' BY FormatNext DEF GainInv
<1> USE DEF GainInv, FormatInv
<1>2. CASE Opening
  <2>1. Gaining' BY <1>2, GainOpening
  <2>2. PICK t \in Tasks, kind \in Kinds, steps \in Seq(Steps), changes \in SUBSET Facts :
          /\ Begin(t, kind, steps, changes)
          /\ \/ info' = info
             \/ \E w \in Windows : info' = [info EXCEPT !.current_wins = w]
    BY <1>2, Opens
  <2>3. regs' = regs /\ sure' = sure \ changes BY <2>2 DEF Begin, hw
  <2>4. info'.gain = info.gain
    <3>1. info \in InfoRange BY InfoTyped DEF SensorInv
    <3> QED BY <2>2, <3>1 DEF InfoRange
  <2>5. GainSpared BY <2>3 DEF GainSpared
  <2>6. GainAsAsked' BY <2>3, <2>4, <2>5, AskedStays
  <2> QED BY <1>1, <2>1, <2>6
<1>3. CASE Setting
  <2>1. /\ regs' = regs /\ (info'.gain = info.gain \/ "gain" \notin sure')
        /\ sure' \subseteq sure
    BY <1>3, Settings DEF SensorInv, hw
  <2>2. GainSpared BY <2>1 DEF GainSpared
  <2>3. CASE "gain" \notin sure' BY <1>1, <1>3, <2>3, GainOther DEF GainAsAsked
  <2>4. CASE info'.gain = info.gain BY <1>1, <1>3, <2>1, <2>2, <2>4, GainOther, AskedStays
  <2> QED BY <2>1, <2>3, <2>4
<1>4. CASE sensor_power
  <2>1. UNCHANGED <<regs, info, sure>> BY <1>4 DEF sensor_power
  <2>2. GainSpared BY <2>1 DEF GainSpared
  <2> QED BY <1>1, <1>4, <2>1, <2>2, GainOther, AskedStays
<1>5. CASE Switching
  <2>1. info' = info /\ (sure' \subseteq {"page"} \/ UNCHANGED <<page, regs, sure>>)
    BY <1>5, Switches
  <2>2. CASE sure' \subseteq {"page"} BY <1>1, <1>5, <2>2, GainOther DEF GainAsAsked
  <2>3. CASE UNCHANGED <<page, regs, sure>>
    <3>1. GainSpared BY <2>3 DEF GainSpared
    <3> QED BY <1>1, <1>5, <2>1, <2>3, <3>1, GainOther, AskedStays
  <2> QED BY <2>1, <2>2, <2>3
<1>6. ASSUME NEW t \in Tasks, sensor_write(t) PROVE GainInv'
  BY <1>1, <1>6, GainWrite, GainKeptWrite
<1>7. ASSUME NEW t \in Tasks, Assign(t) PROVE GainInv'
  BY <1>1, <1>7, GainAssign, GainKeptAssign
<1>8. ASSUME NEW t \in Tasks, Return(t) PROVE GainInv'
  BY <1>1, <1>8, GainReturn, GainKeptReturn
<1>9. CASE UNCHANGED vars
  <2>1. UNCHANGED <<regs, info, sure>> BY <1>9 DEF vars, hw
  <2>2. GainSpared BY <2>1 DEF GainSpared
  <2> QED BY <1>1, <1>9, <2>1, <2>2, GainOther, AskedStays
<1> QED BY <1>2, <1>3, <1>4, <1>5, <1>6, <1>7, <1>8, <1>9, StepCases

(* What sensor_g_gain (gc2023.c:556) reports after a gain that lost no     *)
(* transfer is the product of the stage and the digital gain that          *)
(* sensor_s_gain (gc2023.c:565-601) computed and the registers hold, to    *)
(* two percent, for every gain there is and whatever writers to /dev/exp   *)
(* do meanwhile.                                                           *)
THEOREM GainIsAsAsked == Spec => []GainAsAsked
<1>1. Init => GainInv
  <2> SUFFICES ASSUME Init PROVE GainInv OBVIOUS
  <2>1. Gaining BY DEF Init, Gaining
  <2>2. GainAsAsked BY DEF Init, GainAsAsked
  <2> QED BY <2>1, <2>2, InvStart DEF GainInv, FormatInv
<1>2. GainInv /\ [Next]_vars => GainInv' BY GainNext
<1>3. GainInv => GainAsAsked BY DEF GainInv
<1> QED BY <1>1, <1>2, <1>3, PTL DEF Spec
=============================================================================
