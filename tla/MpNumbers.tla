------------------------------ MODULE MpNumbers ------------------------------
(***************************************************************************)
(* A client calls one of the functions that compute with digits, or bring  *)
(* numbers in and out: products, reductions, division by recursion,        *)
(* logarithms, primality and random numbers, texts, bytes and machine      *)
(* integers.                                                               *)
(***************************************************************************)
EXTENDS MpReduce, MpRecursion, MpLogs, MpPrimes, MpSources, MpText, MpMachine

ReductionOps == {"barrett", "montgomery", "dr", "2k", "2k_l", "normalization", "rho"}

(* The functions that keep the number they are given, and those that have  *)
(* changed it when they fail.                                              *)
ChangesOnFailure ==
  {"next_prime", "prime_rand", "rand", "read_radix", "fread", "from_ubin", "from_sbin", "unpack",
   "set_double"}

(* Every function has its frames; a divisor is long enough for the         *)
(* recursion.                                                              *)
ASSUME NumbersFramesAssumption ==
  \A f \in Frames :
    /\ f \in MulFrames \cup ReduceFrames \cup RecursionFrames \cup LogFrames \cup PrimeFrames
               \cup TextFrames \cup BytesFrames \cup MachineFrames \cup DoubleFrames \cup HashFrames
               \cup SourceFrames
    /\ f.op = "recursive" => \A v \in Contents(f) : SentHere(v[f.a], v[f.b])

Next ==
  \/ MulNext \/ ReduceNext \/ RecursionNext \/ LogNext
  \/ PrimeNext \/ SourceNext \/ TextNext \/ MachineNext

Spec == Init /\ [][Next]_vars

(* A digit, or a base, that is drawn again leaves everything as it was,    *)
(* and so does a system call that is interrupted; that it is not made      *)
(* again for ever is in the fairness of Next.  Of the candidates of        *)
(* mp_prime_rand a prime is drawn at last.                                 *)
FairSpec == Spec /\ WF_vars(Next) /\ SF_vars(prime_rand_found)

-----------------------------------------------------------------------------
TypeOK == CallTypeOK /\ MulTypeOK /\ ReduceTypeOK

(* The tests of primality, mp_prime_is_prime, the next prime, primes and   *)
(* numbers drawn are what their names say, but for what TestsCorrect and   *)
(* PrimesCorrect except; and they are drawn from bytes one source has      *)
(* given.                                                                  *)
PrimalityCorrect == TestsCorrect /\ PrimesCorrect /\ SourcesCorrect

(* What is written outside holds the number, what is read or converted is  *)
(* the number it was, as near as the format allows.                        *)
ConversionsCorrect == TextCorrect /\ MachineCorrect

(* What the loops of all functions keep: partial products and rests, the   *)
(* estimates of quotients and logarithms, the residues of the sieve, the   *)
(* bytes of a buffer that is being filled.                                 *)
LoopInvariant ==
  MulLoopInvariant /\ ReduceLoopInvariant /\ RecursionLoopInvariant /\ LogLoopInvariant
    /\ SieveInvariant /\ SourceLoopInvariant

(* A call that fails has changed nothing but its destination, and that     *)
(* only if it is a product, a reduction, a prime or a number drawn or      *)
(* read; and whether it fails or not its temporaries are cleared, and the  *)
(* device it reads is closed; in one function temporaries are cleared that *)
(* were never initialised, too.                                            *)
FailureLeaves ==
  pc = "done" =>
    /\ live = {}
    /\ RecursionClears
    /\ err # "OKAY" =>
         IF fr.op \in {"mul", "low", "high"} THEN MulFailure
         ELSE IF fr.op \in ReductionOps THEN ReduceFailure
         ELSE IF fr.op \in ChangesOnFailure THEN \A s \in Ints \ {fr.a} : val[s] = old[s]
         ELSE val = old

(* There is one candidate for a safe prime of two bits, three, and it is   *)
(* none.                                                                   *)
NoSafePrime == fr.op = "prime_rand" /\ fr.size = 2 /\ "SAFE" \in fr.flags

(* Every call returns: the corrections after an estimate come to an end,   *)
(* and so do the reductions that subtract until the number is below the    *)
(* modulus, the sieve, and the draws of mp_rand and mp_prime_rand, but for *)
(* safe primes of two bits.                                                *)
EveryCallReturns == ~ NoSafePrime => <>(pc = "done")
=============================================================================
