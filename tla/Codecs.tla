------------------------------- MODULE Codecs -------------------------------
(***************************************************************************)
(* How a raw value on the bus becomes the text of a control and how the    *)
(* text of a command becomes raw bytes: the codecs of                      *)
(* src/src/SmartWebToMqttGateway.h and .cpp.                               *)
(*                                                                         *)
(* A shown text is <<"number", m, d>>, the decimal m/d, or <<"name", s>>.  *)
(* Encode returns the set of raw values written: one, or none when the     *)
(* codec throws.  The conversion of text goes through doubles; Truncated   *)
(* says exactly what they make of it.                                      *)
(***************************************************************************)
EXTENDS SmartWeb, Sequences

TIntCodec(lo, hi, div) == [kind |-> "int", lo |-> lo, hi |-> hi, Div |-> div]
TEnumCodec(values) == [kind |-> "enum", Values |-> values]
TSensorCodec      == [kind |-> "sensor"]
TOnOffSensorCodec == [kind |-> "onOff"]
TPwmCodec         == [kind |-> "pwm"]
TOutputCodec      == [kind |-> "output"]

\* The denominator of the decimals shown.  60000ths have no finite decimal:
\* of those only the tenths are modelled, raw values that Step divides.
Dec(c) == IF c.Div = 60000 THEN 10 ELSE c.Div
Step(c) == c.Div \div Dec(c)

Represents(c, raw) ==
  CASE c.kind = "int" -> c.lo <= raw /\ raw <= c.hi /\ raw % Step(c) = 0
    [] c.kind = "enum" -> 0 <= raw /\ raw <= 255
    [] OTHER -> raw \in Int16

\* Decode: what a response shows, or nothing when the codec throws.
Decode(c, raw) ==
  CASE c.kind = "int" -> {<<"number", raw \div Step(c), Dec(c)>>}
    [] c.kind = "enum" -> IF raw \in DOMAIN c.Values
                          THEN {<<"name", c.Values[raw]>>}
                          ELSE {<<"number", raw, 1>>}
    [] c.kind = "sensor" ->
         IF raw \in {SENSOR_SHORT_VALUE, SENSOR_OPEN_VALUE, SENSOR_UNDEFINED}
         THEN {} ELSE {<<"number", raw, 10>>}
    [] c.kind = "onOff" ->
         CASE raw = SENSOR_SHORT_VALUE -> {<<"number", 1, 1>>}
           [] raw = SENSOR_OPEN_VALUE  -> {<<"number", 0, 1>>}
           [] raw = SENSOR_UNDEFINED   -> {}
           [] OTHER -> {<<"number", raw, 1>>}

Log2(n) == CHOOSE e \in 0 .. 29 : 2^e <= n /\ n < 2^(e + 1)
Log2Ratio(m, d) ==
  IF m >= d THEN Log2(m \div d)
  ELSE -(CHOOSE n \in 1 .. 29 : d <= m * 2^n /\ m * 2^(n - 1) < d)

\* The remainders modulo d of the powers of two.
Pow2Mod(d) ==
  LET pow[k \in 0 .. 82] == IF k = 0 THEN 1 % d ELSE (2 * pow[k - 1]) % d
  IN  pow

\* Mutant: the product is truncated in a wider register, never rounded up.
RoundedUp_never(shortfall, half) == shortfall = 0

\* The product, short of an integer by shortfall, rounds to that integer.
RoundedUp(shortfall, half) == shortfall <= half

\* stod of the decimal m/d, times d * step, truncated; m > 0.  In units of
\* the last place of m/d, whose exponent is q, stod is short of m/d by r/d if
\* it rounded down; the product is then short of the integer m * step by
\* r * step of them, and half is half the distance to the double below it.
Truncated(m, d, step) ==
  LET n == m * step
      q == Log2Ratio(m, d)
      r == ((m % d) * Pow2Mod(d)[52 - q]) % d
      half == 2^(Log2(n) - q - (IF n = 2^Log2(n) THEN 2 ELSE 1))
  IN  IF 2 * r < d /\ ~RoundedUp(r * step, half) THEN n - 1 ELSE n

EncodeInt(c, m, d) ==
  IF m = 0 \/ c.Div = 1 THEN m
  ELSE IF m > 0 THEN Truncated(m, d, Step(c))
  ELSE -Truncated(-m, d, Step(c))

\* TEnumCodec::Keys: of the keys of a name the constructor keeps the lowest.
Keys(c, name) ==
  {k \in DOMAIN c.Values :
     c.Values[k] = name /\ \A j \in DOMAIN c.Values : c.Values[j] = name => k <= j}

Encode(c, text) ==
  CASE c.kind = "int" -> {EncodeInt(c, text[2], text[3])}
    [] c.kind = "enum" -> IF text[1] = "name" THEN Keys(c, text[2]) ELSE {}
    [] c.kind = "onOff" -> {IF text = <<"number", 0, 1>> THEN 0 ELSE 1}
    [] OTHER -> {}
=============================================================================
