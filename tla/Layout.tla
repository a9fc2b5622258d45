--------------------------------- MODULE Layout ---------------------------------
(* How values lie in the body of a ciphertext, whatever the unit: numbers as   *)
(* digits of a base, as crypto/bitio.py writes and reads them, and pieces laid *)
(* one after the other.                                                        *)
EXTENDS Integers, Sequences

(* The powers of a base.                                                       *)
Powers(b) == LET power[n \in Nat] == IF n = 0 THEN 1 ELSE b * power[n - 1]
             IN  power

(* BitWriter.write_int and BitReader.read_int: big-endian.                     *)
DigitsTo(b, v, size) == [i \in 1..size |-> (v \div Powers(b)[size - i]) % b]
NumberOf(b, digits) ==
  LET value[i \in 0..Len(digits)] ==
        IF i = 0 THEN 0 ELSE value[i - 1] * b + digits[i]
  IN  value[Len(digits)]

(* Where pieces of these sizes end, and how much they take.                    *)
Ends(sizes) ==
  LET end[i \in 0..Len(sizes)] == IF i = 0 THEN 0 ELSE end[i - 1] + sizes[i]
  IN  end
Total(sizes) == Ends(sizes)[Len(sizes)]
=================================================================================
