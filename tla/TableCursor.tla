---------------------------- MODULE TableCursor ----------------------------
(***************************************************************************)
(* TableCursor (cursor.rs): a paged scan of a contract table through       *)
(* get_table_rows, while the table changes between the pages and requests  *)
(* fail or are dropped.  Rows are abstracted to their primary keys.  The   *)
(* node is external: it returns the first rows of the requested range, up  *)
(* to the limit but fewer if it runs out of time, and the key to go on     *)
(* from.                                                                   *)
(***************************************************************************)
EXTENDS Naturals, FiniteSets

CONSTANTS Keys,           \* primary keys
          RowsPerRequest, \* rows_per_request
          MaxFailures,    \* bound on the failed requests of a behaviour
          None            \* an absent Option

ASSUME KeysAreNaturals == Keys \subseteq Nat /\ IsFiniteSet(Keys) /\ None \notin Keys

ASSUME LimitsAssumption ==
  RowsPerRequest \in Nat /\ MaxFailures \in Nat

VARIABLES rows,      \* primary keys in the table
          request,   \* parameters of the request next_page awaits, or None
          next_key,  \* the cursor's fields
          done,
          got,       \* got[k]: how often row k was returned (history)
          lasting,   \* keys in the table ever since the cursor was made (history)
          failures   \* failed requests (history)

vars == <<rows, request, next_key, done, got, lasting, failures>>

Bound   == Keys \cup {None}
Request == [lower : Bound, upper : Bound, limit : Nat]

ASSUME NoneAssumption == None \notin Request

\* Table::params
params(lower, upper, limit) == [lower |-> lower, upper |-> upper, limit |-> limit]

-----------------------------------------------------------------------------
(* External: get_table_rows *)

InRange(p) == {k \in rows : /\ p.lower # None => k >= p.lower
                            /\ p.upper # None => k <= p.upper}

FirstOf(S, n) == {k \in S : Cardinality({j \in S : j < k}) < n}

Least(S) == CHOOSE k \in S : \A j \in S : k <= j

\* The answers the node may give: at least one row, if there is one to give.
Answers(p) ==
  {LET rest == InRange(p) \ FirstOf(InRange(p), n)
   IN  [rows     |-> FirstOf(InRange(p), n),
        more     |-> rest # {},
        next_key |-> IF rest = {} THEN None ELSE Least(rest)]
   : n \in (IF p.limit = 0 THEN {0} ELSE 1..p.limit)}

-----------------------------------------------------------------------------
(* TableCursor *)

Init ==
  /\ rows \in SUBSET Keys
  /\ request = None
  /\ next_key = None
  /\ done = FALSE
  /\ got = [k \in Keys |-> 0]
  /\ lasting = rows
  /\ failures = 0

\* Mutant: the position stays in the cursor.
NextPage_Keeps ==
  /\ request = None /\ ~done
  /\ request' = params(next_key, None, RowsPerRequest)
  /\ UNCHANGED <<rows, next_key, done, got, lasting, failures>>

\* next_page up to its await: the position is taken out of the cursor.
NextPage ==
  /\ request = None /\ ~done
  /\ request' = params(next_key, None, RowsPerRequest)
  /\ next_key' = None
  /\ UNCHANGED <<rows, done, got, lasting, failures>>

\* Counted up to the number that would already be too many.
Count(page) ==
  [k \in Keys |-> IF k \in page /\ got[k] < MaxFailures + 2
                  THEN got[k] + 1 ELSE got[k]]

\* Mutant: a page that is not full is taken for the last one.
PageArrives_ShortIsLast(a) ==
  /\ request' = None
  /\ IF a.more /\ Cardinality(a.rows) = RowsPerRequest
     THEN next_key' = a.next_key /\ UNCHANGED done
     ELSE done' = TRUE /\ UNCHANGED next_key
  /\ got' = Count(a.rows)
  /\ UNCHANGED <<rows, lasting, failures>>

\* Mutant: the scan goes on from the last row instead of the one after it.
PageArrives_LastRow(a) ==
  /\ request' = None
  /\ IF a.more
     THEN next_key' = (CHOOSE k \in a.rows : \A j \in a.rows : j <= k) /\ UNCHANGED done
     ELSE done' = TRUE /\ UNCHANGED next_key
  /\ got' = Count(a.rows)
  /\ UNCHANGED <<rows, lasting, failures>>

\* The answer arrives: the rest of next_page.
PageArrives(a) ==
  /\ request' = None
  /\ IF a.more
     THEN next_key' = a.next_key /\ UNCHANGED done
     ELSE done' = TRUE /\ UNCHANGED next_key
  /\ got' = Count(a.rows)
  /\ UNCHANGED <<rows, lasting, failures>>

Page == request # None /\ \E a \in Answers(request) : PageArrives(a)

\* The request fails or the future of next_page is dropped: the position
\* taken is gone, and the next call starts from the first row.
PageFails ==
  /\ request # None /\ failures < MaxFailures
  /\ request' = None
  /\ failures' = failures + 1
  /\ UNCHANGED <<rows, next_key, done, got, lasting>>

\* next_page on a finished cursor returns no rows.
PageAfterDone == done /\ UNCHANGED vars

\* External: a transaction adds or removes a row.
TableChanges ==
  /\ \E k \in Keys : rows' \in {rows \cup {k}, rows \ {k}}
  /\ lasting' = lasting \cap rows'
  /\ UNCHANGED <<request, next_key, done, got, failures>>

Cursor == NextPage \/ Page \/ PageFails \/ PageAfterDone

Next == Cursor \/ TableChanges

Spec == Init /\ [][Next]_vars

\* The application asks for the next page until it is told there is none,
\* and the node answers.
FairSpec == Spec /\ WF_vars(NextPage \/ Page)

-----------------------------------------------------------------------------
(* What the cursor and the table promise. *)

\* Every variable keeps its shape, and the cursor has no position while a
\* request is under way.
TypeOK ==
  /\ rows \subseteq Keys
  /\ request = None \/ request \in Request
  /\ next_key \in Bound
  /\ done \in BOOLEAN
  /\ got \in [Keys -> 0..(MaxFailures + 2)]
  /\ lasting \subseteq rows
  /\ failures \in 0..MaxFailures
  /\ request # None \/ done => next_key = None

\* A finished scan has returned every row that was there all along, whatever
\* was added, removed or failed in between, and however short the pages were.
FullScan == done => \A k \in lasting : got[k] > 0

\* A row comes twice only if the scan had to start over: at most once for
\* the scan and once for every failed request.
OncePerPass == \A k \in Keys : got[k] <= failures + 1

\* If requests stop failing the scan ends, though the table keeps changing.
ScanEnds == <>done

=============================================================================
