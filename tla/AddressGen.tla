------------------------------- MODULE AddressGen -------------------------------
(***************************************************************************)
(* internal/iputil: the generators of IPv4, IPv6 and MAC addresses, on     *)
(* addresses of Digits digits in base Base.  IPv4 addresses are machine    *)
(* words and wrap around; IPv6 and MAC addresses are big integers.  A      *)
(* generator returns a sequence, or Error.                                 *)
(***************************************************************************)
EXTENDS Integers, Sequences, FiniteSets

CONSTANTS Base, Digits, MaxCount, Error

Top == Base ^ Digits               \* one more than the last address
Address == 0 .. Top - 1
Masks == {Base ^ k : k \in 0 .. Digits}   \* sizes of a block
Network(a, size) == a - (a % size)
Run(start, count, step) == [i \in 1 .. count |-> start + (i - 1) * step]

-----------------------------------------------------------------------------
\* Mutant: the last address of the block is left out.
GenerateIPs_Exclusive(a, size, n) ==
  Run(Network(a, size), IF n < size THEN n ELSE size - 1, 1)

\* GenerateIPs: i wraps to 0 after the last address of all, and 0 <= lastIP.
GenerateIPs(a, size, n) ==
  LET first == Network(a, size)
      last == first + size - 1
      G[i \in Address, m \in 0 .. n] ==
        IF i <= last /\ m > 0 THEN <<i>> \o G[(i + 1) % Top, m - 1] ELSE <<>>
  IN G[first, n]

\* Mutant: the check of the last address multiplies in 32 bits.
GenerateIPsWithStep_Narrow(start, count, step) ==
  IF count < 0 THEN Error
  ELSE IF count = 0 THEN <<>>
  ELSE IF step = 0 \/ ((start + step) % Top) < start \/ start + ((step * (count - 1)) % Top) > Top - 1 THEN Error
  ELSE [i \in 1 .. count |-> (start + (i - 1) * step) % Top]

\* GenerateIPsWithStep: the sums of the loop are 32-bit words.
GenerateIPsWithStep(start, count, step) ==
  IF count < 0 THEN Error
  ELSE IF count = 0 THEN <<>>
  ELSE IF step = 0 \/ ((start + step) % Top) < start \/ start + step * (count - 1) > Top - 1 THEN Error
  ELSE [i \in 1 .. count |-> (start + (i - 1) * step) % Top]

\* GenerateIPv6sWithStep
GenerateIPv6sWithStep(start, count, step) ==
  IF count < 0 THEN Error
  ELSE IF count = 0 THEN <<>>
  ELSE IF step = 0 \/ start + step * (count - 1) >= Top THEN Error
  ELSE Run(start, count, step)

\* GenerateMACs returns an empty list where the others return an error.
GenerateMACs(start, count, step) ==
  IF count <= 0 \/ start + step * (count - 1) > Top - 1 THEN <<>> ELSE Run(start, count, step)

\* IncrementMAC is the first of the addresses that GenerateMACs returns.
IncrementMAC(start, i) ==
  LET macs == GenerateMACs(start, i, 1) IN IF macs = <<>> THEN Error ELSE macs[1]

\* GenerateIPv6s wraps around; so does GenerateIPv6, which takes the first host
\* of consecutive blocks.
GenerateIPv6s(start, n) == [i \in 1 .. n |-> (start + i - 1) % Top]
GenerateIPv6(a, size, count) ==
  [i \in 1 .. (IF count = 0 THEN 1 ELSE count) |-> (Network(a, size) + (i - 1) * size + 1) % Top]

\* Mutant: the carry stops at the first digit.
Increment_NoCarry(d) == [d EXCEPT ![Digits] = (@ + 1) % Base]

\* The inner function of NextIPMultiSteps: add one to the last byte, and carry
\* while a byte becomes zero.
Increment(d) ==
  LET full == {k \in 1 .. Digits : \A j \in k .. Digits : d[j] = Base - 1}
  IN [k \in 1 .. Digits |->
        IF k \in full THEN 0 ELSE IF k = Digits \/ k + 1 \in full THEN d[k] + 1 ELSE d[k]]
NextIPMultiSteps(d, count) ==
  LET N[c \in 0 .. count] == IF c = 0 THEN d ELSE Increment(N[c - 1]) IN N[count]

-----------------------------------------------------------------------------
VARIABLES input, out
vars == <<input, out>>

Init ==
  /\ input \in [a : Address, step : Address, size : Masks, n : -1 .. MaxCount]
  /\ out = Error

DigitsOf(a) == [k \in 1 .. Digits |-> (a \div Base ^ (Digits - k)) % Base]

Generate ==
  /\ out = Error
  /\ LET a == input.a s == input.step m == input.size n == input.n
         count == IF n < 0 THEN 0 ELSE n
     IN out' = [block |-> GenerateIPs(a, m, count),
                v4 |-> GenerateIPsWithStep(a, n, s), v6 |-> GenerateIPv6sWithStep(a, n, s),
                mac |-> GenerateMACs(a, n, s), inc |-> IncrementMAC(a, n),
                wrapped |-> GenerateIPv6s(a, count), hosts |-> GenerateIPv6(a, m, count),
                next |-> NextIPMultiSteps(DigitsOf(a), count)]
  /\ UNCHANGED input

Next == Generate
Spec == Init /\ [][Next]_vars

-----------------------------------------------------------------------------
Set(s) == {s[i] : i \in 1 .. Len(s)}
Done == out # Error

\* The generators with a step agree: IPv4 in machine words, IPv6 and MAC in big
\* integers return the same run of distinct addresses, all or none of it, and
\* never one past the end of the address space.
StepsNeverWrap ==
  Done /\ out.v4 # Error =>
    /\ out.v4 = out.v6 /\ out.v6 = out.mac
    /\ Cardinality(Set(out.v4)) = input.n /\ Set(out.v4) \subseteq Address

\* GenerateIPs returns as many addresses as asked for or as the block has,
\* without repetition and all in the block, for a block that does not end with
\* the last address of all.
BlockIsFilled ==
  Done /\ input.n >= 0 /\ Network(input.a, input.size) + input.size < Top =>
    LET N == Network(input.a, input.size) IN
    /\ Set(out.block) \subseteq N .. N + input.size - 1
    /\ Cardinality(Set(out.block)) = IF input.n < input.size THEN input.n ELSE input.size

\* The byte-wise increment of NextIPMultiSteps is addition modulo the size of the
\* address space, carries through several bytes included.
NextIsAddition ==
  Done /\ input.n >= 0 => out.next = DigitsOf((input.a + input.n) % Top)
=============================================================================
