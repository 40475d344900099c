---------------------------- MODULE SingleFlight ----------------------------
(***************************************************************************)
(* What the ABI cache promises on one executor thread, as long as the node *)
(* answers: the lookups of one account under way together are one request  *)
(* to the node, whoever is dropped; its answer is the answer of them all;  *)
(* and a lookup that begins later is answered at once from what is stored. *)
(* The two maps and the cells of the cache are not part of the promise.    *)
(***************************************************************************)
CONSTANTS Calls, Names, FromApp, None

VARIABLES stored,   \* stored[n]: provenance of the ABI stored for n, or None
          online,   \* TRUE iff there is a node to ask
          flight,   \* flight[n]: the calls whose request for n is under way
          answer,   \* answer[n]: the calls whose request for n was answered
          status,   \* status[c]: "idle", "asked" or "done"
          name,     \* name[c]: the account call c asks for
          result    \* result[c]: what call c returned

singleFlightVars == <<stored, online, flight, answer, status, name, result>>

Init ==
  /\ stored = [n \in Names |-> None]
  /\ online \in BOOLEAN
  /\ flight = [n \in Names |-> {}]
  /\ answer = [n \in Names |-> {}]
  /\ status = [c \in Calls |-> "idle"]
  /\ name = [c \in Calls |-> CHOOSE n \in Names : TRUE]
  /\ result = [c \in Calls |-> [kind |-> "none", from |-> None]]

Becomes(c, s) == status' = [status EXCEPT ![c] = s]

Return(c, kind, from) ==
  /\ Becomes(c, "done")
  /\ result' = [result EXCEPT ![c] = [kind |-> kind, from |-> from]]

\* A stored ABI is returned at once.
Hit(c, n) ==
  /\ status[c] = "idle" /\ stored[n] # None
  /\ name' = [name EXCEPT ![c] = n]
  /\ Return(c, "ok", stored[n])
  /\ UNCHANGED <<stored, online, flight, answer>>

Offline(c, n) ==
  /\ status[c] = "idle" /\ stored[n] = None /\ ~online
  /\ name' = [name EXCEPT ![c] = n]
  /\ Return(c, "no_client", None)
  /\ UNCHANGED <<stored, online, flight, answer>>

Ask(c, n) ==
  /\ status[c] = "idle" /\ stored[n] = None /\ online
  /\ name' = [name EXCEPT ![c] = n]
  /\ Becomes(c, "asked")
  /\ UNCHANGED <<stored, online, flight, answer, result>>

\* The one request for an account, by any of the calls that ask for it.
TakeOff(c) ==
  /\ status[c] = "asked"
  /\ flight[name[c]] = {} /\ answer[name[c]] = {}
  /\ flight' = [flight EXCEPT ![name[c]] = {c}]
  /\ UNCHANGED <<stored, online, answer, status, name, result>>

Land(c) ==
  /\ flight[name[c]] = {c}
  /\ flight' = [flight EXCEPT ![name[c]] = {}]
  /\ answer' = [answer EXCEPT ![name[c]] = {c}]
  /\ UNCHANGED <<stored, online, status, name, result>>

\* Every call that asked returns the one answer, and stores it.
Answered(c) ==
  /\ status[c] = "asked"
  /\ \E from \in Calls :
       /\ answer[name[c]] = {from}
       /\ stored' = [stored EXCEPT ![name[c]] = from]
       /\ Return(c, "ok", from)
  /\ UNCHANGED <<online, flight, answer, name>>

\* A call is dropped, and its request with it.
Drop(c) ==
  /\ status[c] = "asked"
  /\ flight' = [flight EXCEPT ![name[c]] = @ \ {c}]
  /\ Return(c, "dropped", None)
  /\ UNCHANGED <<stored, online, answer, name>>

SetAbi(n) ==
  /\ stored' = [stored EXCEPT ![n] = FromApp]
  /\ UNCHANGED <<online, flight, answer, status, name, result>>

Next ==
  \/ \E c \in Calls : TakeOff(c) \/ Land(c) \/ Answered(c) \/ Drop(c)
  \/ \E c \in Calls, n \in Names : Hit(c, n) \/ Offline(c, n) \/ Ask(c, n)
  \/ \E n \in Names : SetAbi(n)

Spec == Init /\ [][Next]_singleFlightVars

=============================================================================
