------------------------- MODULE TableCursorProofs -------------------------
(***************************************************************************)
(* What a paged scan returns, for any keys, page size, short pages,        *)
(* failing requests and changes of the table between the pages.            *)
(***************************************************************************)
EXTENDS TableCursor, FiniteSetTheorems, WellFoundedInduction, TLAPS

\* The row k is still to come in the current pass of the scan.
Ahead(k) ==
  /\ ~done
  /\ IF request # None THEN request.lower = None \/ k >= request.lower
                       ELSE next_key = None \/ k >= next_key

\* The strengthening: a row that is ahead has not been returned in this pass,
\* and a lasting row that is not ahead has.
ScanInv ==
  /\ request # None => ~done /\ request.upper = None
  /\ \A k \in Keys : Ahead(k) => got[k] <= failures
  /\ \A k \in lasting : Ahead(k) \/ got[k] > 0

IInv == TypeOK /\ ScanInv /\ OncePerPass

-----------------------------------------------------------------------------
(* The pages of the node *)

\* A set of keys has a least element.
LEMMA LeastIsLeast ==
  ASSUME NEW S, S \subseteq Nat, S # {}
  PROVE  Least(S) \in S /\ \A j \in S : Least(S) <= j
<1>1. PICK x \in S : \A y \in S : <<y, x>> \notin OpToRel(<, Nat)
  BY WFMin, NatLessThanWellFounded
<1>2. \A y \in S : ~(y < x)
  BY <1>1 DEF OpToRel
<1>3. \A y \in S : x <= y
  BY <1>2
<1>. QED
  BY <1>3 DEF Least

\* The first n rows of a range come before all others.
LEMMA FirstBeforeRest ==
  ASSUME NEW S, S \subseteq Nat, IsFiniteSet(S), NEW n \in Nat,
         NEW k \in FirstOf(S, n), NEW j \in S \ FirstOf(S, n)
  PROVE  k < j
<1> SUFFICES ASSUME j <= k PROVE FALSE
  BY DEF FirstOf
<1> DEFINE below(x) == {i \in S : i < x}
<1>0. k \in Nat /\ j \in Nat
  BY DEF FirstOf
<1>1. below(j) \subseteq below(k) /\ below(k) \subseteq S /\ below(j) \subseteq S
  <2>1. ASSUME NEW i \in S, i < j PROVE i < k
    BY <1>0, <2>1
  <2>. QED
    BY <2>1
<1>2. IsFiniteSet(below(k)) /\ IsFiniteSet(below(j))
  BY <1>1, FS_Subset
<1>3. Cardinality(below(j)) <= Cardinality(below(k))
  BY <1>1, <1>2, FS_Subset
<1>4. Cardinality(below(k)) \in Nat /\ Cardinality(below(j)) \in Nat
  BY <1>2, FS_CardinalityType
<1>5. Cardinality(below(k)) < n /\ ~(Cardinality(below(j)) < n)
  BY DEF FirstOf
<1>. QED
  BY <1>3, <1>4, <1>5

\* An answer to an open request: rows of the range, and the key before which
\* nothing is left out.
LEMMA Answered ==
  ASSUME TypeOK, request # None, request.upper = None, NEW a \in Answers(request)
  PROVE  /\ a.rows \subseteq InRange(request)
         /\ a.more \in BOOLEAN
         /\ ~a.more => a.rows = InRange(request)
         /\ a.more => /\ a.next_key \in InRange(request)
                      /\ \A k \in a.rows : k < a.next_key
                      /\ \A k \in InRange(request) \ a.rows : a.next_key <= k
<1> DEFINE S == InRange(request)
<1>1. request.limit \in Nat
  BY DEF TypeOK, Request
<1>2. PICK n \in Nat : a = [rows     |-> FirstOf(S, n),
                            more     |-> S \ FirstOf(S, n) # {},
                            next_key |-> IF S \ FirstOf(S, n) = {} THEN None
                                         ELSE Least(S \ FirstOf(S, n))]
  BY <1>1 DEF Answers
<1>3. S \subseteq Keys /\ S \subseteq Nat
  BY KeysAreNaturals DEF InRange, TypeOK
<1>4. IsFiniteSet(S)
  BY <1>3, KeysAreNaturals, FS_Subset
<1>5. FirstOf(S, n) \subseteq S
  BY DEF FirstOf
<1> HIDE DEF S
<1>6. a.rows \subseteq S /\ a.more \in BOOLEAN /\ (~a.more => a.rows = S)
  BY <1>2, <1>5
<1>7. ASSUME a.more
      PROVE  /\ a.next_key \in S
             /\ \A k \in a.rows : k < a.next_key
             /\ \A k \in S \ a.rows : a.next_key <= k
  <2> DEFINE rest == S \ FirstOf(S, n)
  <2>1. rest # {} /\ rest \subseteq Nat /\ a.next_key = Least(rest) /\ a.rows = FirstOf(S, n)
    BY <1>2, <1>3, <1>7
  <2>2. a.next_key \in rest /\ \A j \in rest : a.next_key <= j
    BY <2>1, LeastIsLeast
  <2>3. \A k \in a.rows : k < a.next_key
    BY <1>3, <1>4, <2>1, <2>2, FirstBeforeRest
  <2>. QED
    BY <2>1, <2>2, <2>3
<1>. QED
  BY <1>6, <1>7 DEF S

-----------------------------------------------------------------------------
(* The actions *)

LEMMA InvInit == Init => IInv
<1> SUFFICES ASSUME Init PROVE IInv
  OBVIOUS
<1>1. TypeOK
  <2>1. 0 \in 0..(MaxFailures + 2) /\ 0 \in 0..MaxFailures
    BY LimitsAssumption
  <2>2. got \in [Keys -> 0..(MaxFailures + 2)]
    BY <2>1 DEF Init
  <2>. QED
    BY <2>1, <2>2 DEF Init, TypeOK, Bound
<1>2. ScanInv
  BY DEF Init, ScanInv, Ahead
<1>3. OncePerPass
  BY DEF Init, OncePerPass
<1>. QED
  BY <1>1, <1>2, <1>3 DEF IInv

LEMMA NextPageStep == IInv /\ NextPage => IInv'
<1> SUFFICES ASSUME IInv, NextPage PROVE IInv'
  OBVIOUS
<1>1. /\ request = None /\ ~done /\ request' = params(next_key, None, RowsPerRequest)
      /\ next_key' = None /\ UNCHANGED <<rows, done, got, lasting, failures>>
  BY DEF NextPage
<1>2. /\ request'.lower = next_key /\ request'.upper = None
      /\ request' \in Request
  BY <1>1, LimitsAssumption DEF params, Request, IInv, TypeOK, Bound
<1>3. TypeOK'
  BY <1>1, <1>2 DEF IInv, TypeOK, Bound
<1>4. request' # None
  BY <1>2, NoneAssumption
<1>5. \A k : Ahead(k)' <=> Ahead(k)
  BY <1>1, <1>2, <1>4 DEF Ahead
<1>6. ScanInv' /\ OncePerPass'
  BY <1>1, <1>2, <1>4, <1>5 DEF IInv, ScanInv, OncePerPass
<1>. QED
  BY <1>3, <1>6 DEF IInv

LEMMA PageStep == IInv /\ Page => IInv'
<1> SUFFICES ASSUME IInv, Page PROVE IInv'
  OBVIOUS
<1>1. PICK a \in Answers(request) : request # None /\ PageArrives(a)
  BY DEF Page
<1>2. /\ request' = None /\ got' = Count(a.rows)
      /\ UNCHANGED <<rows, lasting, failures>>
      /\ a.more => next_key' = a.next_key /\ done' = done
      /\ ~a.more => done' = TRUE /\ next_key' = next_key
  BY <1>1 DEF PageArrives
<1>3. /\ ~done /\ request.upper = None /\ next_key = None
      /\ request.lower \in Bound
  BY <1>1 DEF IInv, ScanInv, TypeOK, Request
<1>4. /\ a.rows \subseteq InRange(request)
      /\ a.more \in BOOLEAN
      /\ ~a.more => a.rows = InRange(request)
      /\ a.more => /\ a.next_key \in InRange(request)
                   /\ \A k \in a.rows : k < a.next_key
                   /\ \A k \in InRange(request) \ a.rows : a.next_key <= k
  BY <1>1, <1>3, Answered DEF IInv
<1>5. InRange(request) = {k \in rows : Ahead(k)}
  BY <1>1, <1>3 DEF InRange, Ahead
<1>6. rows \subseteq Keys /\ lasting \subseteq rows /\ Keys \subseteq Nat /\ None \notin Keys
  BY KeysAreNaturals DEF IInv, TypeOK
<1>7. /\ failures \in Nat /\ MaxFailures \in Nat /\ failures <= MaxFailures
      /\ \A k \in Keys : got[k] \in 0..(MaxFailures + 2)
  BY LimitsAssumption DEF IInv, TypeOK
<1>8. \A k \in Keys : got'[k] = IF k \in a.rows /\ got[k] < MaxFailures + 2
                                THEN got[k] + 1 ELSE got[k]
  BY <1>2 DEF Count
<1>9. TypeOK'
  <2>1. got' \in [Keys -> 0..(MaxFailures + 2)]
    <3>1. \A k \in Keys : (IF k \in a.rows /\ got[k] < MaxFailures + 2
                           THEN got[k] + 1 ELSE got[k]) \in 0..(MaxFailures + 2)
      BY <1>7
    <3>. QED
      BY <1>2, <3>1 DEF Count
  <2>2. next_key' \in Bound /\ done' \in BOOLEAN /\ (done' => next_key' = None)
    <3>1. done = FALSE
      BY <1>3 DEF IInv, TypeOK
    <3>2. CASE a.more
      BY <1>2, <1>4, <1>5, <1>6, <3>1, <3>2 DEF Bound
    <3>3. CASE ~a.more
      BY <1>2, <1>3, <3>3 DEF Bound
    <3>. QED
      BY <3>2, <3>3
  <2>3. /\ rows' \subseteq Keys /\ lasting' \subseteq rows' /\ failures' \in 0..MaxFailures
        /\ request' = None
    BY <1>2 DEF IInv, TypeOK
  <2>. QED
    BY <2>1, <2>2, <2>3 DEF TypeOK
\* Nothing that was returned is ahead, and nothing else has been passed.
<1>10. ASSUME NEW k \in Keys, Ahead(k)'
       PROVE  Ahead(k) /\ k \notin a.rows
  <2>1. a.more /\ next_key' = a.next_key /\ a.next_key \in Keys /\ k >= a.next_key
    BY <1>2, <1>4, <1>5, <1>6, <1>10 DEF Ahead
  <2>2. request.lower = None \/ a.next_key >= request.lower
    BY <1>1, <1>4, <1>5, <2>1 DEF Ahead
  <2>5. k \in Nat /\ a.next_key \in Nat /\ (request.lower = None \/ request.lower \in Nat)
    BY <1>3, <1>6, <1>10, <2>1 DEF Bound
  <2>6. k >= a.next_key /\ (k \in a.rows => k < a.next_key)
    BY <1>4, <2>1
  <2>3. k >= request.lower \/ request.lower = None
    BY <2>2, <2>5, <2>6
  <2>4. k \notin a.rows
    BY <2>5, <2>6
  <2>. QED
    BY <1>1, <1>3, <2>3, <2>4 DEF Ahead
<1>11. ASSUME NEW k \in rows, Ahead(k)
       PROVE  k \in a.rows \/ Ahead(k)'
  <2>1. CASE a.more /\ k \notin a.rows
    <3>1. a.next_key <= k /\ a.next_key \in Keys
      BY <1>4, <1>5, <1>6, <1>11, <2>1
    <3>. QED
      BY <1>2, <1>3, <1>6, <2>1, <3>1 DEF Ahead
  <2>. QED
    BY <1>4, <1>5, <1>11, <2>1
<1>12. \A k \in Keys : Ahead(k)' => got'[k] <= failures'
  BY <1>2, <1>8, <1>10 DEF IInv, ScanInv
<1>13. \A k \in lasting' : Ahead(k)' \/ got'[k] > 0
  <2> TAKE k \in lasting'
  <2>1. k \in rows /\ k \in Keys /\ k \in lasting
    BY <1>2, <1>6
  <2>2. CASE k \in a.rows
    <3>1. got[k] <= failures
      BY <1>4, <1>5, <2>1, <2>2 DEF IInv, ScanInv
    <3>. QED
      BY <1>7, <1>8, <2>1, <2>2, <3>1
  <2>3. CASE k \notin a.rows
    <3>1. got'[k] = got[k]
      BY <1>8, <2>1, <2>3
    <3>. QED
      BY <1>11, <2>1, <2>3, <3>1 DEF IInv, ScanInv
  <2>. QED
    BY <2>2, <2>3
<1>14. OncePerPass'
  <2>1. ASSUME NEW k \in Keys PROVE got'[k] <= failures' + 1
    <3>1. CASE k \in a.rows
      <4>1. got[k] <= failures
        BY <1>4, <1>5, <3>1 DEF IInv, ScanInv
      <4>. QED
        BY <1>2, <1>7, <1>8, <4>1
    <3>2. CASE k \notin a.rows
      BY <1>2, <1>8, <3>2 DEF IInv, OncePerPass
    <3>. QED
      BY <3>1, <3>2
  <2>. QED
    BY <2>1 DEF OncePerPass
<1>. QED
  BY <1>2, <1>9, <1>12, <1>13, <1>14 DEF IInv, ScanInv

LEMMA PageFailsStep == IInv /\ PageFails => IInv'
<1> SUFFICES ASSUME IInv, PageFails PROVE IInv'
  OBVIOUS
<1>1. /\ request # None /\ failures < MaxFailures /\ request' = None
      /\ failures' = failures + 1
      /\ UNCHANGED <<rows, next_key, done, got, lasting>>
  BY DEF PageFails
<1>2. ~done /\ next_key = None
  BY <1>1 DEF IInv, ScanInv, TypeOK
<1>3. failures \in Nat /\ MaxFailures \in Nat /\ \A k \in Keys : got[k] \in Nat
  BY LimitsAssumption DEF IInv, TypeOK
<1>4. TypeOK'
  BY <1>1, <1>3 DEF IInv, TypeOK, Bound
<1>5. \A k : Ahead(k)'
  BY <1>1, <1>2 DEF Ahead
<1>6. \A k \in Keys : got'[k] <= failures'
  BY <1>1, <1>3 DEF IInv, OncePerPass
<1>7. \A k \in Keys : got'[k] <= failures' + 1
  BY <1>1, <1>3, <1>6
<1>. QED
  BY <1>1, <1>4, <1>5, <1>6, <1>7 DEF IInv, ScanInv, OncePerPass

LEMMA TableChangesStep == IInv /\ TableChanges => IInv'
<1> SUFFICES ASSUME IInv, TableChanges PROVE IInv'
  OBVIOUS
<1>1. /\ UNCHANGED <<request, next_key, done, got, failures>>
      /\ lasting' = lasting \cap rows'
      /\ rows' \subseteq Keys
  BY DEF TableChanges, IInv, TypeOK
<1>2. TypeOK'
  BY <1>1 DEF IInv, TypeOK
<1>3. \A k : Ahead(k)' <=> Ahead(k)
  BY <1>1 DEF Ahead
<1>. QED
  BY <1>1, <1>2, <1>3 DEF IInv, ScanInv, OncePerPass

LEMMA InvStep == IInv /\ [Next]_vars => IInv'
<1> SUFFICES ASSUME IInv, [Next]_vars PROVE IInv'
  OBVIOUS
<1>1. CASE UNCHANGED vars
  BY <1>1 DEF vars, IInv, TypeOK, ScanInv, OncePerPass, Ahead
<1>. QED
  BY <1>1, NextPageStep, PageStep, PageFailsStep, TableChangesStep
     DEF Next, Cursor, PageAfterDone

THEOREM Inductive == Spec => []IInv
BY InvInit, InvStep, PTL DEF Spec

\* The cursor holds no position while a request is under way, and every
\* variable keeps its shape.
THEOREM TypeCorrect == Spec => []TypeOK
<1>1. IInv => TypeOK
  BY DEF IInv
<1>. QED
  BY <1>1, Inductive, PTL

\* A finished scan has returned every row that was there all along, whatever
\* the page size, the failures and the changes of the table.
THEOREM ScanIsFull == Spec => []FullScan
<1>1. IInv => FullScan
  BY DEF IInv, ScanInv, FullScan, Ahead
<1>. QED
  BY <1>1, Inductive, PTL

\* A row comes at most once for the scan and once for every failed request.
THEOREM NoDuplicates == Spec => []OncePerPass
<1>1. IInv => OncePerPass
  BY DEF IInv
<1>. QED
  BY <1>1, Inductive, PTL

=============================================================================
