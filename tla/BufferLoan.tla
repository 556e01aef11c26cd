----------------------------- MODULE BufferLoan -----------------------------
(***************************************************************************)
(* What LCML promises to the OMX component above it, whatever the DSP, the  *)
(* slots and the mappings look like underneath: a buffer that is queued is  *)
(* on loan until it is given back, it is given back once, and an answer to  *)
(* a flush or a stop comes only when nothing that it is about is on loan.   *)
(***************************************************************************)
EXTENDS Naturals, FiniteSets

CONSTANTS
    Buffers,        \* the buffers of the component
    StreamOf        \* the stream each buffer is queued on

Streams == { StreamOf[b] : b \in Buffers }

VARIABLES
    lent,           \* queued and not yet given back
    asked           \* the streams of the flush or stop not answered yet

loanVars == <<lent, asked>>

\* What a request is about.
Concerned(R) == { b \in Buffers : StreamOf[b] \in R }

LoanInit ==
    /\ lent = {}
    /\ asked = {}

Lend(B) ==
    /\ B # {}
    /\ B \intersect lent = {}
    /\ lent' = lent \union B
    /\ UNCHANGED asked

GiveBack(B) ==
    /\ B # {}
    /\ B \subseteq lent
    /\ lent' = lent \ B
    /\ UNCHANGED asked

Ask(R) ==
    /\ asked = {}
    /\ asked' = R
    /\ UNCHANGED lent

Answer ==
    /\ asked # {}
    /\ lent \intersect Concerned(asked) = {}
    /\ asked' = {}
    /\ UNCHANGED lent

\* The handle is destroyed; what is still on loan is dropped with it.
Close ==
    /\ lent' = {}
    /\ asked' = {}

LoanNext ==
    \/ \E B \in SUBSET Buffers : Lend(B)
    \/ \E B \in SUBSET lent : GiveBack(B)
    \/ \E R \in (SUBSET Streams) \ {{}} : Ask(R)
    \/ Answer
    \/ Close

LoanSpec == LoanInit /\ [][LoanNext]_loanVars
=============================================================================
