---------------------------- MODULE BitSequence ----------------------------
(***************************************************************************)
(* What bit vectors promise, with no bytes: two vectors of the program,    *)
(* each a length and the set of the indices of its set bits, and what      *)
(* every operation makes of them.                                          *)
(***************************************************************************)
EXTENDS Integers

CONSTANT MaxLength  \* bound: the longest bit vector
VARIABLES bits, operand

Indices(n) == 0..(n - 1)
BitRecord(n, on) == [length |-> n, on |-> on]

Init == /\ bits = BitRecord(0, {}) /\ operand = BitRecord(0, {})

(* A result that replaces the receiver. *)
Becomes(n, on) == bits' = BitRecord(n, on) /\ UNCHANGED operand

NewFilled == \E n \in 0..MaxLength, fill \in BOOLEAN :
               Becomes(n, IF fill THEN Indices(n) ELSE {})
PutBit == \E i \in Indices(bits.length), b \in BOOLEAN :
            Becomes(bits.length, IF b THEN bits.on \cup {i} ELSE bits.on \ {i})
PutSpan == \E at \in 0..(bits.length - operand.length) :
             Becomes(bits.length,
                     {i \in Indices(bits.length) :
                        IF i \in at..(at + operand.length - 1) THEN i - at \in operand.on
                        ELSE i \in bits.on})
CopySpan == \E at \in 0..bits.length : \E n \in 0..(bits.length - at) :
              Becomes(n, {i \in Indices(n) : at + i \in bits.on})
Combine == \E table \in SUBSET (0..3) :
             /\ bits.length = operand.length
             /\ Becomes(bits.length,
                        {i \in Indices(bits.length) :
                           (IF i \in bits.on THEN 2 ELSE 0)
                           + (IF i \in operand.on THEN 1 ELSE 0) \in table})
Not == Becomes(bits.length, Indices(bits.length) \ bits.on)
Choose == /\ bits.length = operand.length
          /\ Becomes(bits.length, bits.on \cap operand.on)
Shift == \E k \in (-MaxLength)..MaxLength :
           Becomes(bits.length, {i \in Indices(bits.length) : i - k \in bits.on})
Rotate == \E k \in 0..MaxLength :
            Becomes(bits.length, {i \in Indices(bits.length) :
                                    (i + k) % bits.length \in bits.on})
Append == Becomes(bits.length + operand.length,
                  bits.on \cup {i \in bits.length..(bits.length + operand.length - 1) :
                                  i - bits.length \in operand.on})
Resize == \E n \in 0..MaxLength, fill \in BOOLEAN :
            Becomes(n, {i \in Indices(n) : IF i < bits.length THEN i \in bits.on ELSE fill})
Reverse == Becomes(bits.length, {i \in Indices(bits.length) :
                                   bits.length - 1 - i \in bits.on})
(* Through bytes and back: false bits may be added at the end. *)
Decode == \E n \in bits.length..MaxLength : Becomes(n, bits.on)
Keep == operand' = bits /\ UNCHANGED bits

Next == \/ NewFilled \/ PutBit \/ PutSpan \/ CopySpan \/ Combine \/ Not \/ Choose
        \/ Shift \/ Rotate \/ Append \/ Resize \/ Reverse \/ Decode \/ Keep

Spec == Init /\ [][Next]_<<bits, operand>>
============================================================================
