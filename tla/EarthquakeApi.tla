---------------------------- MODULE EarthquakeApi ----------------------------
(***************************************************************************)
(* api_lambda/lambda_function.py: the web API that the sensor posts to and *)
(* the Chainlink node reads, over one item of a DynamoDB table.            *)
(*                                                                         *)
(* Every invocation of the handler is a process of its own; they overlap,  *)
(* and any of them may be cut off (a timeout, an exception of the          *)
(* database's client), after its write as well as before.  get_item does   *)
(* not ask for a consistent read, so it may return what the item was       *)
(* before a write that the copy it reads has not seen.                     *)
(***************************************************************************)
CONSTANTS Clients,      \* whoever has a call under way, one at a time
          States,       \* the values of newState, each with its str()
          Integral,     \* those of which int(str(.)) is a number
          InitialItem,  \* what the item holds at first,
          NoItem,       \* this if there is no item yet
          NoState       \* the body of a POST without newState

ApiAssumption == /\ Integral \subseteq States
                 /\ InitialItem \in States \cup {NoItem}
                 /\ {NoItem, NoState} \cap States = {}

VARIABLES item,     \* the state last written
          stale,    \* what a read may still return in its place
          call      \* a client's call and how far it has got

vars == <<item, stale, call>>

Bodies  == States \cup {NoState}
Methods == {"GET", "POST", "DELETE"}    \* the last for any other
Phases  == {"idle", "sent", "change", "get", "ok", "error", "lost"}
Calls   == [phase : Phases, method : Methods, body : Bodies,
            answer : Integral \cup {NoItem}]

Idle == [phase |-> "idle", method |-> "GET", body |-> NoState,
         answer |-> NoItem]

Init == /\ item = InitialItem
        /\ stale = {}
        /\ call = [c \in Clients |-> Idle]

Go(c, phase) == call' = [call EXCEPT ![c].phase = phase]

\* A client makes a call, and later takes what came back
send(c, method, body) ==
  /\ call[c].phase = "idle"
  /\ call' = [call EXCEPT ![c].phase  = "sent",
                          ![c].method = method,
                          ![c].body   = body]
  /\ UNCHANGED <<item, stale>>

take(c) ==
  /\ call[c].phase \in {"ok", "error", "lost"}
  /\ call' = [call EXCEPT ![c] = Idle]
  /\ UNCHANGED <<item, stale>>

\* The branch on httpMethod.  For any other method return_body is unbound, and
\* without newState there is a KeyError.
lambda_handler(c) ==
  /\ call[c].phase = "sent"
  /\ Go(c, IF call[c].method = "GET" THEN "get"
           ELSE IF call[c].method = "POST" /\ call[c].body # NoState
                THEN "change" ELSE "error")
  /\ UNCHANGED <<item, stale>>

change_state(c) ==
  /\ call[c].phase = "change"
  /\ item' = call[c].body
  /\ stale' = (stale \cup {item}) \ {item'}
  /\ Go(c, "get")

\* int() of the item's string, or an exception
Answered(c, value) ==
  IF value \in Integral
  THEN call' = [call EXCEPT ![c].phase = "ok", ![c].answer = value]
  ELSE Go(c, "error")

\* mutation of get_state: what some invocation has read is kept and returned
get_stateCached(c) ==
  /\ call[c].phase = "get"
  /\ \E value \in IF \E d \in Clients : call[d].phase = "ok"
                 THEN {call[d].answer : d \in Clients} \ {NoItem}
                 ELSE {item} \cup stale : Answered(c, value)
  /\ UNCHANGED <<item, stale>>

get_state(c) ==
  /\ call[c].phase = "get"
  /\ \E value \in {item} \cup stale : Answered(c, value)
  /\ UNCHANGED <<item, stale>>

\* The invocation is cut off, or the client hears of neither call nor answer
fail(c) ==
  /\ call[c].phase \in {"sent", "change", "get"}
  /\ Go(c, "error")
  /\ UNCHANGED <<item, stale>>

lose(c) ==
  /\ call[c].phase \in {"sent", "ok", "error"}
  /\ Go(c, "lost")
  /\ UNCHANGED <<item, stale>>

\* A copy of the item catches up
propagate ==
  /\ \E value \in stale : stale' = stale \ {value}
  /\ UNCHANGED <<item, call>>

Handler(c) == lambda_handler(c) \/ change_state(c) \/ get_state(c)

TypeOK == /\ item \in States \cup {NoItem}
          /\ stale \subseteq (States \cup {NoItem}) \ {item}
          /\ call \in [Clients -> Calls]
=============================================================================
