---------------------------------- MODULE Text ----------------------------------
(***************************************************************************)
(* What jio makes of texts and numbers: humane_bytes() (src/humane.c), the *)
(* percentages of jio_report_tail_waste() (src/report-tail-waste.c) and    *)
(* the boot id (src/bootid.c), against what they should come to.           *)
(*                                                                         *)
(* A behavior is one call.  Widths are scaled down: the code has integers  *)
(* of 64 bits, doubles of 53 bits of precision and units of 1024.          *)
(***************************************************************************)
EXTENDS Integers, FiniteSets, SequencesExt

CONSTANTS Width,      \* bits of an integer
          Precision,  \* bits of a double's significand
          KiloBits,   \* the binary logarithm of the factor between units
          Units,      \* how many units there are, "B" to "EiB"
          Totals,     \* totals that percentages are taken of
          Char, HYPHEN, NUL,
          MaxText     \* length of what is read of the boot id's file

ASSUME TextAssumption ==
    /\ Width \in Nat /\ Precision \in 1 .. Width
    /\ KiloBits \in Nat \ {0} /\ Units \in Nat
    /\ Width < KiloBits * Units                 \* 64 < 10 * 7
    /\ 400 * 2^KiloBits <= 2^Precision          \* 400 * 1024 <= 2^53
    /\ Totals \subseteq Nat /\ MaxText \in Nat
    /\ HYPHEN \in Char /\ NUL \notin Char

VARIABLES op,         \* the function that was called
          in,         \* what with
          buf,        \* the text of the boot id
          str, dest,  \* dehyphen()'s pointers into it
          st,         \* how far the call is
          ret         \* what comes out

vars == <<op, in, buf, str, dest, st, ret>>

Texts == UNION {[1 .. n -> Char] : n \in 1 .. MaxText}

Init ==
    /\ \/ op = "humane" /\ in \in 0 .. 2^Width - 1
       \/ op = "percent" /\ \E total \in Totals : \E part \in 0 .. total : in = <<part, total>>
       \/ op = "bootid" /\ in \in Texts
    /\ buf = IF op = "bootid" THEN in ELSE <<>>
    /\ str = 0 /\ dest = 0
    /\ st = "called"
    /\ ret = <<>>

-----------------------------------------------------------------------------
\* The integer nearest to a / b, the even one if there are two.
Nearest(a, b) ==
    LET q == a \div b
        r == 2 * (a % b)
    IN  IF r > b \/ (r = b /\ q % 2 = 1) THEN q + 1 ELSE q

\* The double an integer is converted to.
Double(n) ==
    LET ulps == {2^k : k \in {k \in 0 .. Width : 2^(k + Precision) <= 2 * n}} \cup {1}
        ulp == CHOOSE u \in ulps : \A v \in ulps : v <= u
    IN  ulp * Nearest(n, ulp)

\* The bytes in units[order].  A double is divided by it, a power of 2, without
\* any rounding.
Unit(order) == 2^(KiloBits * order)

\* Faulty variant: a unit is not used before there is more than one of it.
OrderAbove(z) == Cardinality({k \in 1 .. Width : Unit(k) < z})

\* How often z can be divided while it is 1024 or more.
Order(z) == Cardinality({k \in 1 .. Width : Unit(k) <= z})

\* humane_bytes(): the unit, and the hundredths of it that %.2f prints.
humane_bytes ==
    /\ st = "called" /\ op = "humane"
    /\ LET z == Double(in)
       IN  ret' = [order |-> Order(z), hundredths |-> Nearest(100 * z, Unit(Order(z)))]
    /\ st' = "done"
    /\ UNCHANGED <<op, in, buf, str, dest>>

\* Faulty variant: the part is divided first.
PercentOf100th(part, total) == IF total >= 100 THEN ((part \div 100) * 10000) \div total ELSE 0

\* The percentages of jio_report_tail_waste().
Percent(part, total) == IF total >= 100 THEN part \div (total \div 100) ELSE 0

percent ==
    /\ st = "called" /\ op = "percent"
    /\ ret' = Percent(in[1], in[2])
    /\ st' = "done"
    /\ UNCHANGED <<op, in, buf, str, dest>>

\* bootid_get() and have_bootid(): the file was read, its last byte, taken for
\* a newline, ends the text, and dehyphen() begins.
have_bootid ==
    /\ st = "called" /\ op = "bootid"
    /\ buf' = [buf EXCEPT ![Len(buf)] = NUL]
    /\ str' = 1 /\ dest' = 1
    /\ st' = "dehyphen"
    /\ UNCHANGED <<op, in, ret>>

\* dehyphen(): one turn of its loop.
dehyphen ==
    /\ st = "dehyphen" /\ buf[str] # NUL
    /\ str' = str + 1
    /\ IF buf[str] = HYPHEN
       THEN UNCHANGED <<buf, dest>>
       ELSE buf' = [buf EXCEPT ![dest] = buf[str]] /\ dest' = dest + 1
    /\ UNCHANGED <<op, in, st, ret>>

\* Faulty variant: what is left behind dest is not cut off.
dehyphen_unterminated ==
    /\ st = "dehyphen" /\ buf[str] = NUL
    /\ st' = "dehyphened"
    /\ UNCHANGED <<op, in, buf, str, dest, ret>>

\* dehyphen(), at the end of str.
dehyphen_end ==
    /\ st = "dehyphen" /\ buf[str] = NUL
    /\ buf' = [buf EXCEPT ![dest] = NUL]
    /\ st' = "dehyphened"
    /\ UNCHANGED <<op, in, str, dest, ret>>

\* A text as far as its NUL.
CString(text) == SubSeq(text, 1, SelectInSeq(text, LAMBDA c : c = NUL) - 1)

\* have_bootid(): strdup(), which may fail.
strdup ==
    /\ st = "dehyphened"
    /\ \/ ret' = CString(buf) /\ st' = "done"
       \/ UNCHANGED ret /\ st' = "ENOMEM"
    /\ UNCHANGED <<op, in, buf, str, dest>>

Next ==
    \/ humane_bytes
    \/ percent
    \/ have_bootid
    \/ dehyphen
    \/ dehyphen_end
    \/ strdup

Spec == Init /\ [][Next]_vars

-----------------------------------------------------------------------------
\* Every 64 bit number of bytes has a unit, the largest it has one of if a
\* double holds it exactly; what is printed is less than a hundredth of the
\* unit off, and not wider than the buffer was made for.
HumaneTells ==
    op = "humane" /\ st = "done" =>
       LET unit == Unit(ret.order)
           off == ret.hundredths * unit - 100 * in
       IN  /\ ret.order < Units
           /\ -unit < off /\ off < unit
           /\ ret.hundredths <= 100 * Unit(1)
           /\ in < 2^Precision => /\ in < Unit(ret.order + 1)
                                  /\ unit <= in \/ ret.order = 0

\* A percentage of a total of 100 bytes or more is never less than it should
\* be, exact for totals that are multiples of 100, at most one too much for
\* totals of 10000 bytes or more and then no more than 100.  Of smaller totals,
\* for which 0 is printed, it says nothing.
PercentClose ==
    op = "percent" /\ st = "done" /\ in[2] >= 100 =>
       LET exact == (100 * in[1]) \div in[2]
       IN  /\ exact <= ret
           /\ in[2] % 100 = 0 => ret = exact
           /\ in[2] >= 10000 => ret <= exact + 1 /\ ret <= 100

\* How many of the first n characters read are no hyphens.
Kept(n) == Cardinality({k \in 1 .. n : in[k] # HYPHEN})

\* The boot id is what was read, without the hyphens and without the last
\* byte, although the hyphens are removed in place: each character that is
\* none comes where as many others come before it as did in the file.
BootIdBare ==
    op = "bootid" /\ st = "done" =>
       /\ Len(ret) = Kept(Len(in) - 1)
       /\ \A k \in 1 .. Len(in) - 1 : in[k] # HYPHEN => ret[Kept(k)] = in[k]
=============================================================================
