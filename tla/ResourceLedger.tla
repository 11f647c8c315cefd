--------------------------------- MODULE ResourceLedger ---------------------------------
(***************************************************************************)
(* The ledger of resource bytes.  It is kept twice, by the C++ code and by *)
(* the Rust library; one of the two answers, and every so many operations  *)
(* all that both have counted is compared.  A test hook can reserve bytes  *)
(* in the shadow alone.                                                    *)
(***************************************************************************)
EXTENDS Naturals, FiniteSets, FiniteSetsExt

CONSTANTS Classes,
          Most,                   \* the largest size; the limit of a class unless one is set
          VerificationInterval,   \* operations between comparisons
          MaxOps,                 \* bound: operations
          Injections              \* bound: reservations in the shadow alone

LedgerAssumption == /\ Most \in Nat \ {0} /\ VerificationInterval \in Nat \ {0}
                    /\ MaxOps \in Nat /\ Injections \in Nat /\ IsFiniteSet(Classes)

VARIABLES cpp, rust,   \* the two ledgers
          ops,         \* operations done
          mismatch,    \* whether a mismatch was recorded
          injected     \* ops at the injections that took effect

ledgerVars == <<cpp, rust, ops, mismatch, injected>>

(* Counters that no decision and no property reads are left out; errors    *)
(* says whether there was any.                                             *)
NewLedger == [limit |-> [c \in Classes |-> Most],
        current |-> [c \in Classes |-> 0],
        peak |-> [c \in Classes |-> 0],
        reservations |-> [c \in Classes |-> 0],
        errors |-> [c \in Classes |-> 0],
        total |-> 0, totalPeak |-> 0]

LedgerInit == cpp = NewLedger /\ rust = NewLedger /\ ops = 0 /\ mismatch = FALSE /\ injected = {}

Larger(m, n) == IF m > n THEN m ELSE n
-----------------------------------------------------------------------------
(* The C++ ledger.                                                         *)
Grants(l, c, n) == n <= l.limit[c] /\ l.current[c] <= l.limit[c] - n /\ n <= Most - l.total

Reserved(l, c, n) ==
    IF ~Grants(l, c, n) THEN l
    ELSE [l EXCEPT !.current[c] = @ + n, !.peak[c] = Larger(@, l.current[c] + n),
                   !.reservations[c] = @ + 1,
                   !.total = @ + n, !.totalPeak = Larger(@, l.total + n)]

(* More is given back than was reserved: the class is emptied.             *)
ReleasedOfOne(l, c, n) ==   \* wrong on purpose
    IF n > l.current[c] \/ n > l.total
    THEN [l EXCEPT !.errors[c] = 1, !.current[c] = 0]
    ELSE [l EXCEPT !.current[c] = @ - n, !.total = @ - n]
Released(l, c, n) ==
    IF n > l.current[c] \/ n > l.total
    THEN [l EXCEPT !.errors[c] = 1, !.current[c] = 0,
                   !.total = @ - (IF l.total < l.current[c] THEN l.total ELSE l.current[c])]
    ELSE [l EXCEPT !.current[c] = @ - n, !.total = @ - n]

Limited(l, c, n) == [l EXCEPT !.limit[c] = n]
-----------------------------------------------------------------------------
(* The Rust ledger.                                                        *)
RustReserved(l, c, n) ==
    IF n > l.limit[c] \/ l.current[c] + n > l.limit[c] \/ l.total + n > Most THEN l
    ELSE LET now == l.current[c] + n
         IN [l EXCEPT !.current[c] = now, !.peak[c] = IF now > @ THEN now ELSE @,
                      !.reservations[c] = @ + 1,
                      !.total = l.total + n, !.totalPeak = IF l.total + n > @ THEN l.total + n ELSE @]

RustReleased(l, c, n) ==
    LET over == n > l.current[c] \/ n > l.total
        given == IF ~over THEN n ELSE IF l.current[c] < l.total THEN l.current[c] ELSE l.total
    IN [l EXCEPT !.current[c] = IF over THEN 0 ELSE @ - n, !.total = @ - given,
                 !.errors[c] = IF over THEN 1 ELSE @]

RustLimited(l, c, n) == [l EXCEPT !.limit[c] = n]
-----------------------------------------------------------------------------
CheckDue(n) == n % VerificationInterval = 0

WithinHardLimits(l) == \A c \in Classes : l.current[c] <= l.limit[c] /\ l.peak[c] <= l.limit[c]

Differs(l, m) == \/ l # m
                 \/ WithinHardLimits(l) # WithinHardLimits(m)

(* One operation on both ledgers; their answers are compared at once, the  *)
(* books when it is time.                                                  *)
Did(l, m, answersDiffer) ==
    /\ ops < MaxOps
    /\ cpp' = l /\ rust' = m /\ ops' = ops + 1
    /\ mismatch' = (mismatch \/ answersDiffer \/ (CheckDue(ops + 1) /\ Differs(l, m)))
    /\ UNCHANGED injected

SetHardLimit(c, n) == Did(Limited(cpp, c, n), RustLimited(rust, c, n), FALSE)

TryReserve(c, n) == Did(Reserved(cpp, c, n), RustReserved(rust, c, n),
                        Grants(cpp, c, n) # (RustReserved(rust, c, n) # rust))

Release(c, n) == Did(Released(cpp, c, n), RustReleased(rust, c, n), FALSE)

InjectShadowReservation(c, n) ==
    /\ Cardinality(injected) < Injections /\ ops \notin injected
    /\ RustReserved(rust, c, n) # rust
    /\ rust' = RustReserved(rust, c, n)
    /\ injected' = injected \cup {ops}
    /\ UNCHANGED <<cpp, ops, mismatch>>

LedgerNext == \E c \in Classes, n \in 0..Most :
            SetHardLimit(c, n) \/ TryReserve(c, n) \/ Release(c, n) \/ InjectShadowReservation(c, n)

LedgerSpec == LedgerInit /\ [][LedgerNext]_ledgerVars
-----------------------------------------------------------------------------
LedgerBooks == [limit : [Classes -> 0..Most], current : [Classes -> 0..Most], peak : [Classes -> 0..Most],
          reservations : [Classes -> Nat], errors : [Classes -> 0..1], total : 0..Most, totalPeak : 0..Most]

LedgerTypeOK == cpp \in LedgerBooks /\ rust \in LedgerBooks /\ mismatch \in BOOLEAN /\ injected \subseteq 0..MaxOps

(* The total is the sum of the classes, also after more was given back     *)
(* than was reserved.                                                      *)
TotalIsSum == \A l \in {cpp, rust} : l.total = MapThenSumSet(LAMBDA c : l.current[c], Classes)

(* The two ledgers agree unless bytes were injected into one.              *)
BackendsAgree == injected = {} => cpp = rust /\ ~mismatch

(* A divergence is recorded at the next comparison, whatever both ledgers  *)
(* did since to look alike again.                                          *)
DivergenceCaught == \A n \in injected : ops >= n + VerificationInterval => mismatch

(* Both ledgers count exactly and can be told from each other only if, and *)
(* not long after, one was tampered with.                                  *)
LedgersExact == LedgerTypeOK /\ TotalIsSum /\ BackendsAgree /\ DivergenceCaught

(* A class grows only within its limit; peaks are never lowered.           *)
LimitsHonoured == [][\A c \in Classes :
    /\ cpp'.current[c] > cpp.current[c] => cpp'.current[c] <= cpp.limit[c]
    /\ cpp'.peak[c] >= cpp.peak[c] /\ cpp'.peak[c] >= cpp'.current[c]
    /\ cpp'.totalPeak >= cpp'.total]_ledgerVars
================================================================================
