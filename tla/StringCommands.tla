--------------------------- MODULE StringCommands ---------------------------
(* The commands on strings (redis-3.0.3/src/t_string.c and bitops.c).        *)
(* A string is a sequence of digits 0 and 1 and of letters, which are all    *)
(* alike and greater than the digits.  One digit stands for a byte of        *)
(* SETRANGE and APPEND, for a bit of SETBIT, and for a decimal digit where a *)
(* command reads the string as a number.                                     *)
EXTENDS Keyspace

CONSTANTS MaxLength,   \* 512 MB
          MaxInt       \* LLONG_MAX

Str(digits) == Obj("string", digits)

Letter == 2
HasLetter(d) == \E i \in DOMAIN d : d[i] = Letter

\* string2ll refuses the empty string, leading zeros and letters.
IsNumber(d) == Len(d) > 0 /\ (d[1] = 0 => Len(d) = 1) /\ ~HasLetter(d)
Number(d) ==
  LET value[i \in 0..Len(d)] == IF i = 0 THEN 0 ELSE 2 * value[i - 1] + d[i]
  IN  value[Len(d)]
\* ll2string: the one string without leading zeros.
Digits(n) ==
  IF n = 0 THEN <<0>>
  ELSE CHOOSE d \in UNION {[1..i -> {0, 1}] : i \in 1..MaxLength + 1} :
         IsNumber(d) /\ Number(d) = n

\* sdsgrowzero
GrowZero(d, n) == [i \in 1..(IF n > Len(d) THEN n ELSE Len(d)) |-> IF i <= Len(d) THEN d[i] ELSE 0]
\* memcpy of bytes to an offset
Patched(d, offset, bytes) ==
  [i \in DOMAIN d |-> IF i > offset /\ i <= offset + Len(bytes) THEN bytes[i - offset] ELSE d[i]]

\* SET with NX and XX, SETNX, SETEX, PSETEX; ttl is Nil when none is given.
setGenericCommand(s0, k, v, flag, ttl) ==
  LET s == IF flag = "none" THEN s0 ELSE lookupKeyWrite(s0, k)
      t == Dirty(setKey(s, k, Str(v)))
  IN  IF \/ flag = "nx" /\ Exists(s, k)
         \/ flag = "xx" /\ ~Exists(s, k)
      THEN s
      ELSE IF ttl = Nil THEN t ELSE setExpire(t, k, t.now + ttl)

getsetCommand(s0, k, v) ==
  LET s == lookupKeyRead(s0, k)
  IN  IF TypeError(s, k, "string") THEN s ELSE Dirty(setKey(s, k, Str(v)))

setrangeCommand(s0, k, offset, bytes) ==
  LET s == lookupKeyWrite(s0, k)
      n == offset + Len(bytes)
  IN  IF TypeError(s, k, "string") \/ bytes = << >> \/ n > MaxLength THEN s
      ELSE Dirty(Modified(s, k, Str(Patched(GrowZero(ValueOr(s, k, << >>), n), offset, bytes))))

appendCommand(s0, k, bytes) ==
  LET s == lookupKeyWrite(s0, k)
      d == ValueOr(s, k, << >>)
  IN  IF \/ TypeError(s, k, "string")
         \/ Exists(s, k) /\ Len(d) + Len(bytes) > MaxLength
      THEN s ELSE Dirty(Modified(s, k, Str(d \o bytes)))

setbitCommand(s0, k, offset, bit) ==
  LET s == lookupKeyWrite(s0, k)
  IN  IF TypeError(s, k, "string") THEN s
      ELSE Dirty(Modified(s, k, Str(Patched(GrowZero(ValueOr(s, k, << >>), offset + 1), offset, <<bit>>))))

\* MSET and MSETNX of two keys.
msetGenericCommand(s0, k1, k2, v, nx) ==
  LET s == IF nx THEN lookupKeyWrite(lookupKeyWrite(s0, k1), k2) ELSE s0
  IN  IF nx /\ (Exists(s, k1) \/ Exists(s, k2)) THEN s
      ELSE Dirty(setKey(setKey(s, k1, Str(v)), k2, Str(v)))

incrDecrCommand(s0, k, incr) ==
  LET s == lookupKeyWrite(s0, k)
      d == ValueOr(s, k, <<0>>)
  IN  IF TypeError(s, k, "string") \/ ~IsNumber(d) THEN s
      ELSE IF Number(d) + incr \notin 0..MaxInt THEN s
      ELSE Dirty(Modified(s, k, Str(Digits(Number(d) + incr))))

\* Floating point sums differ between machines: a slave rounds up.
FloatSum(s, n, incr) == IF s.role = "master" THEN n + incr ELSE n + incr + 1

\* Propagated as a SET of the result, without the expire the key may have.
incrbyfloatCommand(s0, k, incr) ==
  LET s == lookupKeyWrite(s0, k)
      d == ValueOr(s, k, <<0>>)
      new == Digits(FloatSum(s, Number(d), incr))
  IN  IF TypeError(s, k, "string") \/ ~IsNumber(d) THEN s
      ELSE IF Number(d) + incr \notin 0..MaxInt THEN s
      ELSE rewriteClientCommandVector(Dirty(Modified(s, k, Str(new))), <<"set", k, new, "none", Nil>>)

\* A bitwise operation pads the shorter operand with zeros.
bitopCommand(s0, op, dst, k1, k2) ==
  LET s == lookupKeyRead(lookupKeyRead(s0, k1), k2)
      a == ValueOr(s, k1, << >>)
      b == ValueOr(s, k2, << >>)
      n == IF op = "not" \/ Len(a) > Len(b) THEN Len(a) ELSE Len(b)
      x == GrowZero(a, n)
      y == GrowZero(b, n)
      Bit(p) == IF p THEN 1 ELSE 0
      v == [i \in 1..n |-> CASE op = "and" -> x[i] * y[i]
                             [] op = "or"  -> Bit(x[i] + y[i] > 0)
                             [] op = "xor" -> Bit(x[i] # y[i])
                             [] op = "not" -> 1 - x[i]]
  IN  IF TypeError(s, k1, "string") \/ (op # "not" /\ TypeError(s, k2, "string")) THEN s
      ELSE IF n > 0 THEN Dirty(setKey(s, dst, Str(v)))
      ELSE IF Exists(s, dst) THEN Dirty(signalModifiedKey(dbDelete(s, dst), dst))
      ELSE Dirty(s)
=============================================================================
