----------------------------- MODULE MpIntegers -----------------------------
(***************************************************************************)
(* A client calls one of the functions on integers.                        *)
(***************************************************************************)
EXTENDS MpGcd, MpDiv, MpRoots, MpInverse, MpPowers, MpResidues

ASSUME FramesAssumption ==
  \A f \in Frames :
    f \in GcdFrames \cup DivFrames \cup RootFrames \cup InvmodFrames \cup ExteuclidFrames
            \cup ExptFrames \cup ExptmodFrames
            \cup KroneckerFrames \cup IsSquareFrames \cup SqrtmodFrames

Next == GcdNext \/ DivNext \/ RootNext \/ InverseNext \/ PowerNext \/ ResidueNext

Spec == Init /\ [][Next]_vars

FairSpec == Spec /\ WF_vars(Next)

-----------------------------------------------------------------------------
TypeOK == CallTypeOK /\ DivTypeOK

(* mp_gcd and mp_lcm leave what IsGcd and IsLcm say, of operands of either *)
(* sign or zero, one of them replaced or not.                              *)
GcdAndLcmCorrect == GcdCorrect /\ LcmCorrect

(* mp_sqrt and mp_root_n leave the truncated root but for the cases that   *)
(* RootCorrect names.                                                      *)
RootsCorrect == SqrtCorrect /\ RootCorrect

(* mp_invmod leaves the inverse and mp_exteuclid a linear combination,     *)
(* whichever results are asked for; they refuse what has no answer.        *)
InversesCorrect == InvmodCorrect /\ ExteuclidCorrect

(* mp_expt_n and mp_exptmod leave the power.                               *)
PowersCorrect == ExptCorrect /\ ExptmodCorrect

(* mp_kronecker, mp_is_square and mp_sqrtmod_prime answer what their names *)
(* say.                                                                    *)
ResiduesCorrect == KroneckerCorrect /\ IsSquareCorrect /\ SqrtmodCorrect

(* What the loops of all functions keep: invariants of the numbers, and    *)
(* that the iterates of a root never pass it.                              *)
LoopInvariant ==
  GcdLoopInvariant /\ DivLoopInvariant /\ RootsLoopInvariant /\ InverseLoopInvariant
    /\ PowersLoopInvariant /\ ResiduesLoopInvariant

(* A call that fails leaves the client's structures as they were, but for  *)
(* the destination of mp_gcd, mp_lcm and mp_expt_n.                        *)
FailureLeaves ==
  pc = "done" /\ err # "OKAY" =>
    IF fr.op \in {"gcd", "lcm"} THEN GcdFailure
    ELSE IF fr.op = "expt" THEN ExptFailure
    ELSE val = old

(* Every temporary that is initialised is cleared, whatever fails: what    *)
(* testing with a leak checker demands of every function.                  *)
NoLeak == pc = "done" => live = {}

(* So it is but for one temporary of mp_gcd.                               *)
TemporariesCleared ==
  pc = "done" => IF fr.op \in {"gcd", "lcm"} THEN GcdCleared ELSE live = {}

(* Every call returns, but for the inverses that HalvesZero names and      *)
(* roots modulo a composite, of which the manual promises nothing.         *)
OthersReturn ==
  ~ HalvesZero /\ (fr.op = "sqrtmod" => IsPrime(old[fr.b]) \/ old[fr.b] < 3) => <>(pc = "done")
=============================================================================
