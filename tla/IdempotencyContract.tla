------------------------ MODULE IdempotencyContract ------------------------
(***************************************************************************)
(* What the Idempotency-Key middleware promises to the clients that share  *)
(* one key, without saying how the store does it: the key is free, or one  *)
(* request holds it, or it remembers the answer of one request.  A held    *)
(* key is taken from its holder only after the holder stopped working.     *)
(***************************************************************************)
EXTENDS Naturals, FiniteSets

CONSTANTS
  Requests,  \* the requests that carry the key
  NoOne      \* no request

VARIABLES
  holder,    \* the request that holds the key, or NoOne
  answered,  \* the request whose answer the key remembers, or NoOne
  working,   \* the requests whose handler is running
  replayed   \* for each request, the request whose answer it was given

cvars == <<holder, answered, working, replayed>>

ContractInit ==
  /\ holder = NoOne
  /\ answered = NoOne
  /\ working = {}
  /\ replayed = [r \in Requests |-> NoOne]

\* A request takes the key and starts its handler.
Start(r) ==
  /\ working = {}
  /\ holder' = r
  /\ answered' = NoOne
  /\ working' = {r}
  /\ UNCHANGED replayed

\* A request takes the key without being told: it never starts its handler.
Strand(r) ==
  /\ working = {}
  /\ holder' = r
  /\ answered' = NoOne
  /\ UNCHANGED <<working, replayed>>

\* The handler ended: the key remembers its answer, is given back, or stays
\* held because the store could not be told.
Stop(r) ==
  /\ working = {r}
  /\ working' = {}
  /\ UNCHANGED replayed
  /\ \/ holder' = NoOne /\ answered' = r
     \/ holder' = NoOne /\ answered' = NoOne
     \/ holder' = r /\ answered' = NoOne

\* A request is given the remembered answer.
Replay(r) ==
  /\ answered # NoOne
  /\ replayed' = [replayed EXCEPT ![r] = answered]
  /\ UNCHANGED <<holder, answered, working>>

\* The key is forgotten.
Forget ==
  /\ working = {}
  /\ holder' = NoOne
  /\ answered' = NoOne
  /\ UNCHANGED <<working, replayed>>

ContractNext ==
  \/ \E r \in Requests : Start(r) \/ Strand(r) \/ Stop(r) \/ Replay(r)
  \/ Forget

ContractSpec == ContractInit /\ [][ContractNext]_cvars
=============================================================================
