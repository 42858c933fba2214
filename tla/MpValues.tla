------------------------------ MODULE MpValues ------------------------------
(***************************************************************************)
(* What the storage layer of the library promises its client: a set of     *)
(* integer variables, each either absent or holding one signed magnitude,  *)
(* least significant digit first.  A variable changes only when it is the  *)
(* destination of a call, and a call either has its effect or has none.    *)
(* Nothing is said of memory: blocks, spare digits, reallocation and the   *)
(* failures of the allocator belong to MpLifecycle, which implements this. *)
(***************************************************************************)
EXTENDS Integers, Sequences

CONSTANTS Ints,      \* the mp_int structures of the client
          Digits,    \* the values of one digit
          Absent,    \* the value of a variable that is not initialised
          MaxShift   \* bound on the number of digits of one shift

VARIABLE val

Zero == [neg |-> FALSE, mag |-> << >>]

IsZero(v) == v.mag = << >>

Init == val = [x \in Ints |-> Absent]

(* Some of the absent variables come into being, as zero.                  *)
Create(X) ==
  /\ \A x \in X : val[x] = Absent
  /\ val' = [x \in Ints |-> IF x \in X THEN Zero ELSE val[x]]

(* One comes into being as a copy of another.                              *)
Clone(a, b) ==
  /\ val[a] = Absent
  /\ val[b] # Absent
  /\ val' = [val EXCEPT ![a] = val[b]]

Destroy(X) == val' = [x \in Ints |-> IF x \in X THEN Absent ELSE val[x]]

Swap(a, b) == val' = [val EXCEPT ![a] = val[b], ![b] = val[a]]

(* b takes a value computed from that of a: both must be there.            *)
Assign(a, b, v) ==
  /\ val[a] # Absent
  /\ val[b] # Absent
  /\ val' = [val EXCEPT ![b] = v]

Copy(a, b) == Assign(a, b, val[a])

Abs(a, b) == Assign(a, b, [val[a] EXCEPT !.neg = FALSE])

Neg(a, b) == Assign(a, b, [val[a] EXCEPT !.neg = ~ IsZero(val[a]) /\ ~ @])

SetDigit(a, d) ==
  Assign(a, a, [neg |-> FALSE, mag |-> IF d = 0 THEN << >> ELSE << d >>])

(* Multiplication by a power of the radix, and the truncated quotient.     *)
ShiftUp(m, n) ==
  [i \in 1 .. (Len(m) + n) |-> IF i <= n THEN 0 ELSE m[i - n]]

ShiftLeft(a, n) ==
  /\ ~ IsZero(val[a])
  /\ Assign(a, a, [val[a] EXCEPT !.mag = ShiftUp(@, n)])

ShiftRight(a, n) ==
  Assign(a, a, IF Len(val[a].mag) <= n
                 THEN Zero
                 ELSE [val[a] EXCEPT !.mag = SubSeq(@, n + 1, Len(@))])

Next ==
  \/ \E X \in SUBSET Ints : Create(X) \/ Destroy(X)
  \/ \E a, b \in Ints : Clone(a, b) \/ Swap(a, b) \/ Copy(a, b) \/ Abs(a, b) \/ Neg(a, b)
  \/ \E a \in Ints, d \in Digits : SetDigit(a, d)
  \/ \E a \in Ints, n \in 1 .. MaxShift : val[a] # Absent /\ ShiftLeft(a, n)
  \/ \E a \in Ints, n \in 1 .. MaxShift : val[a] # Absent /\ ShiftRight(a, n)

Spec == Init /\ [][Next]_val
=============================================================================
