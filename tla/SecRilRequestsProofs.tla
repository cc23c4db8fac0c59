------------------------ MODULE SecRilRequestsProofs -------------------------
(***************************************************************************)
(* Proofs about the request path of the RIL client library, for pools and  *)
(* id sets of any size.                                                    *)
(***************************************************************************)
EXTENDS SecRilRequests, WellFoundedInduction, TLAPS

USE PoolSizes, RequestBound, DistinctIds, NoHandlerIsNone DEF GiveUp, LastBit, Unhandled, Race

-----------------------------------------------------------------------------
(* Types. *)

TypeInv == TypeOK /\ CallerReady

\* Dropping a handler leaves a handler table.
LEMMA UnregisteredType ==
  ASSUME TypeOK, NEW id PROVE Unregistered(id) \in [HSlots -> [id : Ids \cup {NoId}, handler : Handlers \cup {NoHandler}]]
  BY DEF TypeOK, Unregistered, EmptyHandler

\* Storing a handler leaves a handler table.
LEMMA RegisterInType ==
  ASSUME TypeOK, NEW id \in Ids, NEW h \in Handlers, RegisterIn(id, h)
  PROVE  req_handlers' \in [HSlots -> [id : Ids \cup {NoId}, handler : Handlers \cup {NoHandler}]]
  BY DEF TypeOK, RegisterIn

\* The initial state has its type.
LEMMA InitType == Init => TypeInv
<1> SUFFICES ASSUME Init PROVE TypeInv
  OBVIOUS
<1> USE DEF Init
<1>1. /\ history \in [Slots -> [token : Tokens \cup {NoToken}, id : Ids \cup {NoId}]]
      /\ req_handlers \in [HSlots -> [id : Ids \cup {NoId}, handler : Handlers \cup {NoHandler}]]
  BY DEF EmptyRecord, EmptyHandler
<1>2. outcome \in [Requests -> [state : States, id : Ids \cup {NoId}, as : Ids \cup {NoId}]]
  BY DEF Unsent, States
<1>3. /\ token_pool \subseteq Tokens /\ b_del_handler \in BOOLEAN /\ link \in BOOLEAN
      /\ rild \subseteq [n : Requests, token : Tokens, id : Ids] /\ sent \in 0 .. MaxRequests
  <2>1. 0 \in 0 .. MaxRequests
    BY RequestBound
  <2>2. QED
    BY <2>1
<1>4. caller.pc = "idle" /\ raced = {} /\ caller.pc \in CallerPlaces /\ reader.pc \in ReaderPlaces
  BY DEF CallerIdle, ReaderIdle, CallerPlaces, ReaderPlaces
<1>5. QED
  BY <1>1, <1>2, <1>3, <1>4 DEF TypeInv, TypeOK, CallerReady, CallerIdle, ReaderIdle

\* Every call leaves the types as they are.
LEMMA CallType == TypeInv /\ Call => TypeInv'
<1> SUFFICES ASSUME TypeInv, Call PROVE TypeInv'
  OBVIOUS
<1> USE DEF TypeInv, CallerReady, CallerPlaces
<1>1. ASSUME NEW id \in Ids, NEW h \in Handlers \cup {NoHandler}, RegisterRequestCompleteHandler(id, h)
      PROVE  TypeInv'
  <2>1. req_handlers' \in [HSlots -> [id : Ids \cup {NoId}, handler : Handlers \cup {NoHandler}]]
    BY <1>1, UnregisteredType, RegisterInType DEF RegisterRequestCompleteHandler
  <2>2. QED
    BY <1>1, <2>1 DEF RegisterRequestCompleteHandler, TypeOK
<1>2. ASSUME NEW id \in SetIds, SetCall(id) PROVE TypeInv'
  BY <1>2, UnregisteredType DEF SetCall, TypeOK, CallerIdle, Ids
<1>3. CASE GetMute
  BY <1>3 DEF GetMute, TypeOK, CallerIdle, Ids
<1>4. CASE InvokeOemRequestHookRaw
  BY <1>4 DEF InvokeOemRequestHookRaw, TypeOK, CallerIdle, Ids
<1>5. QED
  BY <1>1, <1>2, <1>3, <1>4 DEF Call

\* So does every step of the calling thread.
LEMMA CallerType == TypeInv /\ CallerStep => TypeInv'
<1> SUFFICES ASSUME TypeInv, CallerStep PROVE TypeInv'
  OBVIOUS
<1> USE DEF TypeInv, TypeOK, CallerReady
<1> USE DEF CallerPlaces
<1>1. CASE AllocateTokenTest \/ AllocateTokenLoad
  <2>1. 1 \in Tokens
    BY DEF Tokens
  <2>2. CASE AllocateTokenTest /\ token_pool = Tokens
    BY <2>2 DEF AllocateTokenTest
  <2>3. CASE AllocateTokenTest /\ token_pool # Tokens
    BY <2>1, <2>3 DEF AllocateTokenTest
  <2>4. CASE AllocateTokenLoad
    BY <2>4 DEF AllocateTokenLoad
  <2>5. QED
    BY <1>1, <2>2, <2>3, <2>4
<1>11. CASE AllocateTokenScan
  <2>1. caller.pc = "scan" /\ caller.token \in Tokens
    BY <1>11 DEF AllocateTokenScan
  <2>2. caller.token < TOKEN_POOL_SIZE => caller.token + 1 \in Tokens
    BY <2>1 DEF Tokens
  <2>3. \/ caller' = [caller EXCEPT !.pc = "set"]
        \/ caller' = [caller EXCEPT !.token = @ + 1] /\ caller.token + 1 \in Tokens
        \/ caller' = [caller EXCEPT !.pc = "failed", !.token = NoToken]
    BY <1>11, <2>2 DEF AllocateTokenScan
  <2>4. QED
    BY <1>11, <2>1, <2>3 DEF AllocateTokenScan
<1>12. ASSUME NEW h \in Handlers \cup {NoHandler}, GetMuteRegisters(h) PROVE TypeInv'
  <2>1. req_handlers' \in [HSlots -> [id : Ids \cup {NoId}, handler : Handlers \cup {NoHandler}]]
    BY <1>12, UnregisteredType, RegisterInType DEF GetMuteRegisters, Ids
  <2>2. QED
    BY <1>12, <2>1 DEF GetMuteRegisters
<1>2. CASE AllocateTokenStore
  BY <1>2 DEF AllocateTokenStore, AddToken
<1>3. CASE RecordReqHistory
  BY <1>3 DEF RecordReqHistory
<1>4. CASE WriteRequest
  BY <1>4 DEF WriteRequest, CallerIdle, Requests, States
<1>5. CASE WriteFails
  BY <1>5 DEF WriteFails
<1>6. CASE CallerFreeLoad
  BY <1>6 DEF CallerFreeLoad
<1>7. CASE CallerFreeStore
  BY <1>7 DEF CallerFreeStore, FreeToken
<1>8. CASE CallerClear
  BY <1>8 DEF CallerClear, ClearReqHistory, EmptyRecord
<1>9. CASE CallFailed
  BY <1>9, UnregisteredType DEF CallFailed, CallerIdle
<1>10. QED
  BY <1>1, <1>11, <1>12, <1>2, <1>3, <1>4, <1>5, <1>6, <1>7, <1>8, <1>9 DEF CallerStep

\* So does every step of the reader.
LEMMA ReaderType == TypeInv /\ ReaderStep => TypeInv'
<1> SUFFICES ASSUME TypeInv, ReaderStep PROVE TypeInv'
  OBVIOUS
<1> USE DEF TypeInv, TypeOK, CallerReady
<1>1. ASSUME NEW r \in rild, NEW err \in BOOLEAN, Receive(r, err) PROVE TypeInv'
  <2>1. r \in [n : Requests, token : Tokens, id : Ids] /\ r.n \in Nat
    BY DEF Requests
  <2>2. outcome' \in [Requests -> [state : States, id : Ids \cup {NoId}, as : Ids \cup {NoId}]]
    BY <1>1, <2>1 DEF Receive, States
  <2>3. reader' \in [pc : ReaderPlaces, n : Nat,
                     token : Tokens \cup {NoToken}, id : Ids \cup {NoId}, pool : SUBSET Tokens]
    BY <1>1, <2>1 DEF Receive, ReaderIdle, ReaderPlaces
  <2>4. QED
    BY <1>1, <2>2, <2>3 DEF Receive
<1>2. CASE Dispatch
  <2>1. ASSUME NEW j \in HSlots PROVE req_handlers[j].id \in Ids \cup {NoId}
    OBVIOUS
  <2>2. outcome' \in [Requests -> [state : States, id : Ids \cup {NoId}, as : Ids \cup {NoId}]]
    <3>1. "served" \in States /\ "nohandler" \in States
      BY DEF States
    <3>2. ASSUME NEW j \in HSlots,
                 outcome' = [outcome EXCEPT ![reader.n] = [@ EXCEPT !.state = "served", !.as = req_handlers[j].id]]
          PROVE  outcome' \in [Requests -> [state : States, id : Ids \cup {NoId}, as : Ids \cup {NoId}]]
      <4>1. outcome' = [n \in Requests |-> IF n = reader.n
                          THEN [outcome[n] EXCEPT !.state = "served", !.as = req_handlers[j].id]
                          ELSE outcome[n]]
        BY <3>2
      <4>2. ASSUME NEW n \in Requests
            PROVE  [outcome[n] EXCEPT !.state = "served", !.as = req_handlers[j].id]
                     \in [state : States, id : Ids \cup {NoId}, as : Ids \cup {NoId}]
        <5>1. outcome[n] \in [state : States, id : Ids \cup {NoId}, as : Ids \cup {NoId}]
          OBVIOUS
        <5>2. req_handlers[j].id \in Ids \cup {NoId}
          BY <2>1
        <5>3. QED
          BY <3>1, <5>1, <5>2
      <4>3. QED
        BY <4>1, <4>2
    <3>3. CASE outcome' = [outcome EXCEPT ![reader.n].state = "nohandler"]
      <4>1. outcome' = [n \in Requests |-> IF n = reader.n THEN [outcome[n] EXCEPT !.state = "nohandler"]
                                                          ELSE outcome[n]]
        BY <3>3
      <4>2. ASSUME NEW n \in Requests
            PROVE  [outcome[n] EXCEPT !.state = "nohandler"]
                     \in [state : States, id : Ids \cup {NoId}, as : Ids \cup {NoId}]
        <5>1. outcome[n] \in [state : States, id : Ids \cup {NoId}, as : Ids \cup {NoId}]
          OBVIOUS
        <5>2. QED
          BY <3>1, <5>1
      <4>3. QED
        BY <4>1, <4>2
    <3>4. QED
      BY <1>2, <3>2, <3>3 DEF Dispatch
  <2>3. reader' \in [pc : ReaderPlaces, n : Nat,
                     token : Tokens \cup {NoToken}, id : Ids \cup {NoId}, pool : SUBSET Tokens]
    BY <1>2, <2>1 DEF Dispatch, ReaderPlaces
  <2>4. QED
    BY <1>2, <2>2, <2>3 DEF Dispatch
<1>3. CASE DeleteHandler
  <2>1. req_handlers' \in [HSlots -> [id : Ids \cup {NoId}, handler : Handlers \cup {NoHandler}]]
    BY <1>3, UnregisteredType DEF DeleteHandler, ReaderPlaces
  <2>2. QED
    BY <1>3, <2>1 DEF DeleteHandler, ReaderPlaces
<1>4. CASE TestDelete \/ ResetDelete \/ ReaderFreeLoad
  <2>1. CASE TestDelete
    BY <2>1 DEF TestDelete, ReaderPlaces
  <2>2. CASE ResetDelete
    BY <2>2 DEF ResetDelete, ReaderPlaces
  <2>3. CASE ReaderFreeLoad
    BY <2>3 DEF ReaderFreeLoad, ReaderPlaces
  <2>4. QED
    BY <1>4, <2>1, <2>2, <2>3
<1>5. CASE ReaderFreeStore
  BY <1>5 DEF ReaderFreeStore, FreeToken, ReaderPlaces
<1>6. CASE ReaderClear
  BY <1>6 DEF ReaderClear, ClearReqHistory, EmptyRecord, ReaderIdle, ReaderPlaces
<1>7. QED
  BY <1>1, <1>2, <1>3, <1>4, <1>5, <1>6 DEF ReaderStep

\* The variables of the client keep their types in every interleaving of calls
\* and responses.
THEOREM TypeCorrect == Spec => []TypeOK
<1>1. TypeInv /\ UNCHANGED vars => TypeInv'
  BY DEF vars, TypeInv, TypeOK, CallerReady
<1>2. TypeInv /\ [Next]_vars => TypeInv'
  BY <1>1, CallType, CallerType, ReaderType DEF Next
<1>3. TypeInv => TypeOK
  BY DEF TypeInv
<1>4. QED
  BY <1>2, <1>3, InitType, PTL DEF Spec
-----------------------------------------------------------------------------
(* The pool when calls and responses do overlap: a bit may be lost or left set *)
(* by a store that comes too late, but a store that frees leaves a free bit,   *)
(* and one that fills the pool has a token in hand.                            *)

\* A full pool has a token that is on its way to be freed.
FullIsUsed == token_pool = Tokens => rild # {} \/ CallerHolds # {} \/ ReaderHolds # {}

\* The strengthening that is inductive in every interleaving.
RetryInv == TypeInv /\ (reader.pc # "idle" => reader.token \in Tokens) /\ FullIsUsed

USE DEF CallerHolds, ReaderHolds

LEMMA RetryStarts == Init => RetryInv
<1>1. Init => 1 \in Tokens /\ token_pool = {}
  BY DEF Init, Tokens
<1>2. QED
  BY <1>1, InitType DEF Init, ReaderIdle, RetryInv, FullIsUsed

LEMMA RetrySteps == RetryInv /\ [Next]_vars => RetryInv'
<1> SUFFICES ASSUME RetryInv, [Next]_vars PROVE RetryInv'
  OBVIOUS
<1>1. TypeInv'
  BY CallType, CallerType, ReaderType DEF RetryInv, Next, vars, TypeInv, TypeOK, CallerReady
<1> USE DEF RetryInv, FullIsUsed
<1>2. CASE UNCHANGED vars
  BY <1>1, <1>2 DEF vars
<1>3. CASE Call
  BY <1>1, <1>3 DEF Call, RegisterRequestCompleteHandler, SetCall, GetMute,
     InvokeOemRequestHookRaw, CallerIdle
<1>4. CASE CallerStep
  <2>1. CASE AllocateTokenTest \/ AllocateTokenScan \/ AllocateTokenLoad
    BY <1>1, <2>1 DEF AllocateTokenTest, AllocateTokenScan, AllocateTokenLoad, TypeInv, TypeOK
  <2>11. ASSUME NEW h \in Handlers \cup {NoHandler}, GetMuteRegisters(h) PROVE RetryInv'
    BY <1>1, <2>11 DEF GetMuteRegisters, TypeInv, TypeOK
  <2>2. CASE AllocateTokenStore
    BY <1>1, <2>2 DEF AllocateTokenStore, TypeInv, TypeOK
  <2>3. CASE RecordReqHistory
    BY <1>1, <2>3 DEF RecordReqHistory, TypeInv, TypeOK
  <2>4. CASE WriteRequest
    BY <1>1, <2>4 DEF WriteRequest
  <2>5. CASE WriteFails
    BY <1>1, <2>5 DEF WriteFails, TypeInv, TypeOK
  <2>6. CASE CallerFreeLoad
    BY <1>1, <2>6 DEF CallerFreeLoad, TypeInv, TypeOK
  <2>7. CASE CallerFreeStore
    <3>1. caller.token \in Tokens /\ caller.token \notin token_pool'
      BY <2>7 DEF CallerFreeStore, FreeToken, TypeInv, CallerReady
    <3>2. QED
      BY <1>1, <2>7, <3>1 DEF CallerFreeStore
  <2>8. CASE CallerClear
    BY <1>1, <2>8 DEF CallerClear
  <2>9. CASE CallFailed
    BY <1>1, <2>9 DEF CallFailed
  <2>10. QED
    BY <1>4, <2>1, <2>11, <2>2, <2>3, <2>4, <2>5, <2>6, <2>7, <2>8, <2>9 DEF CallerStep
<1>5. CASE ReaderStep
  <2>1. ASSUME NEW r \in rild, NEW err \in BOOLEAN, Receive(r, err) PROVE RetryInv'
    <3>1. r.token \in Tokens /\ UNCHANGED << token_pool, caller >>
      BY <2>1 DEF Receive, TypeInv, TypeOK
    <3>2. CASE r.token \notin token_pool /\ UNCHANGED reader
      BY <1>1, <2>1, <3>1, <3>2
    <3>3. CASE reader' = [ReaderIdle EXCEPT !.pc = IF err THEN "free" ELSE "find", !.n = r.n, !.token = r.token]
      BY <1>1, <3>1, <3>3 DEF ReaderIdle
    <3>4. QED
      BY <2>1, <3>2, <3>3 DEF Receive
  <2>2. CASE Dispatch
    BY <1>1, <2>2 DEF Dispatch, TypeInv, TypeOK
  <2>3. CASE TestDelete \/ ResetDelete \/ DeleteHandler
    BY <1>1, <2>3 DEF TestDelete, ResetDelete, DeleteHandler, TypeInv, TypeOK
  <2>4. CASE ReaderFreeLoad
    BY <1>1, <2>4 DEF ReaderFreeLoad, TypeInv, TypeOK
  <2>5. CASE ReaderFreeStore
    <3>1. reader.token \in Tokens /\ reader.token \notin token_pool'
      BY <2>5 DEF ReaderFreeStore, FreeToken
    <3>2. QED
      BY <1>1, <2>5, <3>1 DEF ReaderFreeStore, TypeInv, TypeOK
  <2>6. CASE ReaderClear
    BY <1>1, <2>6 DEF ReaderClear, ReaderIdle
  <2>7. QED
    BY <1>5, <2>1, <2>2, <2>3, <2>4, <2>5, <2>6 DEF ReaderStep
<1>6. QED
  BY <1>2, <1>3, <1>4, <1>5 DEF Next

\* Whatever order the loads and the stores of the two threads take, and however many
\* tokens they leak: a pool that is full when both threads are out of the library waits
\* for an answer, and a caller told RIL_CLIENT_ERR_AGAIN can succeed later.
THEOREM RetryMaySucceed == Spec => []RetryCanSucceed
<1>1. RetryInv => RetryCanSucceed
  BY DEF RetryInv, FullIsUsed, RetryCanSucceed
<1>2. QED
  BY <1>1, RetryStarts, RetrySteps, PTL DEF Spec
-----------------------------------------------------------------------------
(* What always holds: where each request is, whatever becomes of its token. *)

\* A step that leaves the pool, the history and the requests alone.
Unrouted == UNCHANGED << token_pool, history, rild, sent, outcome >>

\* The calls and the steps of the two threads that are of this kind.
Quiet ==
  \/ Call
  \/ \E h \in Handlers \cup {NoHandler} : GetMuteRegisters(h)
  \/ AllocateTokenTest \/ AllocateTokenScan \/ AllocateTokenLoad
  \/ WriteFails \/ CallerFreeLoad \/ CallFailed
  \/ TestDelete \/ ResetDelete \/ DeleteHandler \/ ReaderFreeLoad

\* They move one thread, and neither to where it holds another token.
LEMMA QuietMoves ==
  ASSUME TypeOK, Quiet
  PROVE  /\ Unrouted /\ raced' = raced /\ (link' = link \/ link' = FALSE)
         /\ reader' = reader \/ /\ reader.pc \in {"del", "reset", "drop", "free"}
                                /\ reader'.pc \in {"reset", "drop", "free", "freestore"}
                                /\ reader'.n = reader.n /\ reader'.token = reader.token
<1>1. reader \in [pc : ReaderPlaces, n : Nat, token : Tokens \cup {NoToken},
                  id : Ids \cup {NoId}, pool : SUBSET Tokens]
  BY DEF TypeOK
<1>2. CASE Call
  BY <1>2 DEF Call, Unrouted, RegisterRequestCompleteHandler, SetCall, GetMute, InvokeOemRequestHookRaw
<1>3. CASE \E h \in Handlers \cup {NoHandler} : GetMuteRegisters(h)
  BY <1>3 DEF GetMuteRegisters, Unrouted
<1>4. CASE \/ AllocateTokenTest \/ AllocateTokenScan \/ AllocateTokenLoad
           \/ WriteFails \/ CallerFreeLoad \/ CallFailed
  BY <1>4 DEF AllocateTokenTest, AllocateTokenScan, AllocateTokenLoad, WriteFails, CallerFreeLoad,
              CallFailed, Unrouted
<1>5. CASE TestDelete \/ ResetDelete \/ DeleteHandler \/ ReaderFreeLoad
  BY <1>1, <1>5 DEF TestDelete, ResetDelete, DeleteHandler, ReaderFreeLoad, Unrouted
<1>6. QED
  BY <1>2, <1>3, <1>4, <1>5 DEF Quiet

\* Taking apart a step that is not one of them.
LEMMA StepKinds ==
  ASSUME Next
  PROVE  \/ Quiet
         \/ AllocateTokenStore \/ RecordReqHistory \/ WriteRequest \/ CallerFreeStore \/ CallerClear
         \/ \E r \in rild, err \in BOOLEAN : Receive(r, err)
         \/ Dispatch \/ ReaderFreeStore \/ ReaderClear
  BY DEF Next, CallerStep, ReaderStep, Quiet

\* The reader takes an answer, to serve it, to end it as an error, or to reject it.
LEMMA ReceiveStep ==
  ASSUME Always, NEW r \in rild, NEW err \in BOOLEAN, Receive(r, err)
  PROVE  /\ reader.pc = "idle" /\ rild' = rild \ {r} /\ r.n \in Requests /\ r.token \in Tokens
         /\ UNCHANGED << token_pool, history, caller, link, sent, raced >>
         /\ outcome[r.n].state = "pending" /\ outcome[r.n].id = r.id /\ r.n <= sent /\ r.id \in Ids
         /\ \A q \in rild' : q \in rild /\ q.n # r.n
         /\ \/ /\ r.token \notin token_pool /\ UNCHANGED reader
               /\ outcome' = [outcome EXCEPT ![r.n].state = "rejected"]
            \/ /\ r.token \in token_pool /\ reader'.n = r.n /\ reader'.token = r.token
               /\ \/ reader'.pc = "find" /\ outcome' = outcome
                  \/ reader'.pc = "free" /\ outcome' = [outcome EXCEPT ![r.n].state = "error"]
<1>1. /\ reader.pc = "idle" /\ rild' = rild \ {r}
      /\ UNCHANGED << token_pool, history, caller, link, sent, raced >>
  BY DEF Receive
<1>2. /\ r.n \in Requests /\ r.token \in Tokens /\ r.id \in Ids
      /\ outcome[r.n].state = "pending" /\ outcome[r.n].id = r.id /\ r.n <= sent
  BY DEF Always, TypeOK, OutcomeExact
<1>3. \A q \in rild' : q \in rild /\ q.n # r.n
  BY <1>1 DEF Always, OutcomeExact
<1>4. CASE r.token \notin token_pool
  BY <1>1, <1>2, <1>3, <1>4 DEF Receive
<1>5. CASE r.token \in token_pool
  <2>1. /\ reader' = [ReaderIdle EXCEPT !.pc = IF err THEN "free" ELSE "find", !.n = r.n, !.token = r.token]
        /\ outcome' = IF err THEN [outcome EXCEPT ![r.n].state = "error"] ELSE outcome
    BY <1>5 DEF Receive
  <2>2. /\ reader'.n = r.n /\ reader'.token = r.token
        /\ reader'.pc = (IF err THEN "free" ELSE "find")
    BY <2>1 DEF ReaderIdle
  <2>3. QED
    BY <1>1, <1>2, <1>3, <1>5, <2>1, <2>2
<1>6. QED
  BY <1>4, <1>5

\* A request ends as served, under some id.
ServedAs(n, id) == outcome' = [outcome EXCEPT ![n] = [@ EXCEPT !.state = "served", !.as = id]]

\* The reader serves an answer under the id of a record of its token, or finds nobody.
LEMMA DispatchStep ==
  ASSUME Always, Dispatch
  PROVE  /\ reader.pc = "find" /\ reader'.pc \in {"del", "free"}
         /\ reader'.n = reader.n /\ reader'.token = reader.token
         /\ UNCHANGED << token_pool, history, caller, link, rild, sent, raced >>
         /\ reader.n \in Requests /\ reader.n <= sent /\ outcome[reader.n].state = "pending"
         /\ \/ /\ outcome' = [outcome EXCEPT ![reader.n] = [@ EXCEPT !.state = "nohandler"]]
               /\ \A i \in Slots, j \in HSlots : ~ Found(reader.token, i, j)
            \/ \E i \in Slots, j \in HSlots :
                 /\ Found(reader.token, i, j) /\ req_handlers[j].id \in Ids
                 /\ ServedAs(reader.n, req_handlers[j].id)
<1>0. /\ reader.pc = "find"
      /\ \/ \E i \in Slots, j \in HSlots :
              /\ Found(reader.token, i, j)
              /\ reader' = [reader EXCEPT !.pc = "del", !.id = req_handlers[j].id]
              /\ ServedAs(reader.n, req_handlers[j].id)
         \/ /\ \A i \in Slots, j \in HSlots : ~ Found(reader.token, i, j)
            /\ reader' = [reader EXCEPT !.pc = "free"]
            /\ outcome' = [outcome EXCEPT ![reader.n].state = "nohandler"]
      /\ UNCHANGED << token_pool, history, caller, link, rild, sent, raced >>
  BY Zenon DEF Dispatch, ServedAs, Unhandled
<1>1. reader \in [pc : ReaderPlaces, n : Nat, token : Tokens \cup {NoToken},
                  id : Ids \cup {NoId}, pool : SUBSET Tokens]
  BY DEF Always, TypeOK
<1>2. /\ reader.pc = "find" /\ reader'.pc \in {"del", "free"}
      /\ reader'.n = reader.n /\ reader'.token = reader.token
      /\ UNCHANGED << token_pool, history, caller, link, rild, sent, raced >>
  BY <1>0, <1>1
<1>3. reader.n \in Requests /\ reader.n <= sent /\ outcome[reader.n].state = "pending" /\ reader.token \in Tokens
  BY <1>2 DEF Always, OutcomeExact
<1>4. ASSUME NEW i \in Slots, NEW j \in HSlots, Found(reader.token, i, j)
      PROVE  req_handlers[j].id \in Ids
  <2>1. history[i].token = reader.token /\ req_handlers[j].id = history[i].id
    BY <1>4 DEF Found, FirstHandler
  <2>2. history[i].token # NoToken
    BY <1>3, <2>1 DEF Tokens, NoToken
  <2>3. QED
    BY <2>1, <2>2 DEF Always, RecordsNamed
<1>5. CASE outcome' = [outcome EXCEPT ![reader.n].state = "nohandler"]
           /\ \A i \in Slots, j \in HSlots : ~ Found(reader.token, i, j)
  BY <1>2, <1>3, <1>5
<1>6. CASE \E i \in Slots, j \in HSlots :
             /\ Found(reader.token, i, j)
             /\ ServedAs(reader.n, req_handlers[j].id)
  BY <1>2, <1>3, <1>4, <1>6
<1>7. QED
  BY <1>0, <1>5, <1>6

\* Nothing happens to a request but its own answer.
LEMMA OutcomeAfter ==
  ASSUME Always, NEW n \in Requests, NEW how \in States,
         outcome' = [outcome EXCEPT ![n].state = how]
  PROVE  /\ \A m \in Requests : m # n => outcome'[m] = outcome[m]
         /\ outcome'[n].state = how /\ outcome'[n].id = outcome[n].id /\ outcome'[n].as = outcome[n].as
  BY DEF Always, TypeOK

LEMMA OutcomeServed ==
  ASSUME Always, NEW n \in Requests, NEW id,
         ServedAs(n, id)
  PROVE  /\ \A m \in Requests : m # n => outcome'[m] = outcome[m]
         /\ outcome'[n].state = "served" /\ outcome'[n].id = outcome[n].id /\ outcome'[n].as = id
<1>1. outcome[n] \in [state : States, id : Ids \cup {NoId}, as : Ids \cup {NoId}]
  BY DEF Always, TypeOK
<1>2. /\ outcome'[n] = [outcome[n] EXCEPT !.state = "served", !.as = id]
      /\ \A m \in Requests : m # n => outcome'[m] = outcome[m]
  BY DEF Always, TypeOK, ServedAs
<1>3. QED
  BY <1>1, <1>2

\* An answer that is taken leaves every other request where it is.
LEMMA OutcomeKept ==
  ASSUME Always, NEW n \in Requests, n <= sent, sent' = sent, rild' \subseteq rild,
         \A m \in Requests : m # n => outcome'[m] = outcome[m],
         outcome'[n].id = outcome[n].id,
         outcome'[n].state = "pending" => outcome'[n] = outcome[n],
         \A q \in rild' : q.n # n,
         reader'.pc # "idle" => /\ reader'.n = n /\ reader'.token \in Tokens
                                /\ outcome[n].id \in Ids,
         reader'.pc = "find" => outcome'[n].state = "pending"
  PROVE  OutcomeExact'
<1>1. \A m \in Requests : m > sent => m # n
  BY DEF Always, TypeOK, Requests
<1>2. \A q \in rild' : q \in rild /\ q.n \in Requests
  BY DEF Always, TypeOK
<1>3. QED
  BY <1>1, <1>2 DEF Always, OutcomeExact

LEMMA AlwaysStarts == Init => Always
<1> SUFFICES ASSUME Init PROVE Always
  OBVIOUS
<1>1. TypeOK /\ CallerReady
  BY InitType DEF TypeInv
<1>2. reader.pc = "idle" /\ rild = {} /\ \A i \in Slots : history[i].token = NoToken
  BY DEF Init, ReaderIdle, EmptyRecord
<1>3. \A n \in Requests : outcome[n] = Unsent /\ outcome[n].state = "unused"
  BY DEF Init, Unsent
<1>4. QED
  BY <1>1, <1>2, <1>3 DEF Always, OutcomeExact, RecordsNamed

\* A cleared history has the records it had, or fewer.
LEMMA ClearedIsNamed ==
  ASSUME Always, NEW t, ClearReqHistory(t)
  PROVE  RecordsNamed'
<1>1. ASSUME NEW i \in Slots, history' = [history EXCEPT ![i] = EmptyRecord]
      PROVE  RecordsNamed'
  BY <1>1 DEF Always, TypeOK, RecordsNamed, EmptyRecord
<1>2. QED
  BY <1>1 DEF ClearReqHistory, Always, RecordsNamed

\* Every request is at its place after every step.
LEMMA AlwaysSteps == Always /\ [Next]_vars => Always'
<1> SUFFICES ASSUME Always, [Next]_vars PROVE Always'
  OBVIOUS
<1>1. TypeOK' /\ CallerReady'
  BY CallType, CallerType, ReaderType DEF Always, Next, vars, TypeInv, TypeOK, CallerReady
<1>2. CASE UNCHANGED vars
  BY <1>1, <1>2 DEF vars, Always, OutcomeExact, RecordsNamed
<1>3. CASE Quiet
  <2>1. /\ Unrouted
        /\ reader' = reader \/ /\ reader.pc \in {"del", "reset", "drop", "free"}
                               /\ reader'.pc \in {"reset", "drop", "free", "freestore"}
                               /\ reader'.n = reader.n /\ reader'.token = reader.token
    BY <1>3, QuietMoves DEF Always
  <2>2. QED
    BY <1>1, <2>1 DEF Unrouted, Always, OutcomeExact, RecordsNamed
<1>4. CASE AllocateTokenStore \/ CallerFreeStore
  BY <1>1, <1>4 DEF AllocateTokenStore, CallerFreeStore, Always, OutcomeExact, RecordsNamed
<1>5. CASE RecordReqHistory
  <2>1. caller.id \in Ids /\ UNCHANGED << reader, rild, sent, outcome >>
    BY <1>5 DEF RecordReqHistory, Always, CallerReady
  <2>2. RecordsNamed'
    BY <1>5, <2>1 DEF RecordReqHistory, Always, TypeOK, RecordsNamed
  <2>3. QED
    BY <1>1, <2>1, <2>2 DEF Always, OutcomeExact
<1>6. CASE WriteRequest
  <2> DEFINE new == [n |-> sent + 1, token |-> caller.token, id |-> caller.id]
  <2>1. /\ rild' = rild \cup {new} /\ sent' = sent + 1 /\ UNCHANGED << history, reader >>
        /\ new.n = sent + 1 /\ new.id = caller.id
    BY <1>6 DEF WriteRequest
  <2>2. /\ sent \in Nat /\ sent + 1 \in Requests
        /\ \A r \in rild : r.n \in Requests /\ r.n <= sent
    BY <1>6 DEF WriteRequest, Always, TypeOK, CallerReady, Requests, OutcomeExact
  <2>3. /\ outcome'[sent + 1] = [state |-> "pending", id |-> caller.id, as |-> NoId]
        /\ \A n \in Requests : n # sent + 1 => outcome'[n] = outcome[n]
    BY <1>6, <2>2 DEF WriteRequest, Always, TypeOK
  <2>4. \A r \in rild' : r = new \/ (r \in rild /\ r.n # new.n)
    BY <2>1, <2>2 DEF Requests
  <2>5. \A n \in Requests : n > sent + 1 => n > sent /\ n # sent + 1
    BY <2>2 DEF Requests
  <2>6. OutcomeExact'
    BY <2>1, <2>2, <2>3, <2>4, <2>5 DEF Always, OutcomeExact, Requests
  <2>7. QED
    BY <1>1, <2>1, <2>6 DEF Always, RecordsNamed
<1>7. CASE CallerClear
  <2>1. RecordsNamed'
    BY <1>7, ClearedIsNamed DEF CallerClear
  <2>2. QED
    BY <1>1, <1>7, <2>1 DEF CallerClear, Always, OutcomeExact
<1>8. ASSUME NEW r \in rild, NEW err \in BOOLEAN, Receive(r, err) PROVE Always'
  <2>1. /\ UNCHANGED << history, sent >> /\ rild' = rild \ {r} /\ r.n \in Requests /\ r.n <= sent
        /\ r.token \in Tokens /\ r.id \in Ids /\ outcome[r.n].id = r.id
        /\ \A q \in rild' : q.n # r.n
    BY <1>8, ReceiveStep
  <2>2. CASE UNCHANGED reader /\ outcome' = [outcome EXCEPT ![r.n].state = "rejected"]
    <3>1. "rejected" \in States
      BY DEF States
    <3>2. reader'.pc = "idle"
      BY <1>8, <2>2, ReceiveStep
    <3>3. OutcomeExact'
      BY <2>1, <2>2, <3>1, <3>2, OutcomeAfter, OutcomeKept
    <3>4. QED
      BY <1>1, <2>1, <3>3 DEF Always, RecordsNamed
  <2>3. CASE reader'.n = r.n /\ reader'.token = r.token /\ reader'.pc = "find" /\ outcome' = outcome
    <3>1. outcome[r.n].state = "pending"
      BY <1>8, ReceiveStep
    <3>2. OutcomeExact'
      BY <2>1, <2>3, <3>1, OutcomeKept
    <3>3. QED
      BY <1>1, <2>1, <3>2 DEF Always, RecordsNamed
  <2>4. CASE /\ reader'.n = r.n /\ reader'.token = r.token /\ reader'.pc = "free"
             /\ outcome' = [outcome EXCEPT ![r.n].state = "error"]
    <3>1. "error" \in States
      BY DEF States
    <3>2. OutcomeExact'
      BY <2>1, <2>4, <3>1, OutcomeAfter, OutcomeKept
    <3>3. QED
      BY <1>1, <2>1, <3>2 DEF Always, RecordsNamed
  <2>5. QED
    BY <1>8, <2>2, <2>3, <2>4, ReceiveStep
<1>9. CASE Dispatch
  <2> DEFINE n == reader.n
  <2>1. /\ reader.pc = "find" /\ reader'.pc \in {"del", "free"} /\ reader'.n = n
        /\ reader'.token = reader.token /\ UNCHANGED << history, rild, sent >>
        /\ n \in Requests /\ n <= sent
    BY <1>9, DispatchStep
  <2>2. /\ reader.token \in Tokens /\ outcome[n].id \in Ids /\ \A q \in rild' : q.n # n
    BY <2>1 DEF Always, OutcomeExact
  <2>3. /\ \A m \in Requests : m # n => outcome'[m] = outcome[m]
        /\ outcome'[n].id = outcome[n].id /\ outcome'[n].state # "pending"
    <3>1. CASE outcome' = [outcome EXCEPT ![n].state = "nohandler"]
      BY <2>1, <3>1, OutcomeAfter DEF States
    <3>2. ASSUME NEW id, ServedAs(n, id)
          PROVE  /\ \A m \in Requests : m # n => outcome'[m] = outcome[m]
                 /\ outcome'[n].id = outcome[n].id /\ outcome'[n].state # "pending"
      BY <2>1, <3>2, OutcomeServed
    <3>3. QED
      BY <1>9, <3>1, <3>2, DispatchStep
  <2>4. OutcomeExact'
    <3> HIDE DEF n
    <3>1. QED
      BY <2>1, <2>2, <2>3, OutcomeKept
  <2>5. QED
    BY <1>1, <2>1, <2>4 DEF Always, RecordsNamed
<1>10. CASE ReaderFreeStore
  <2>1. /\ reader.pc = "freestore" /\ reader'.pc = "clear" /\ reader'.n = reader.n
        /\ reader'.token = reader.token /\ UNCHANGED << history, rild, sent, outcome >>
    BY <1>10 DEF ReaderFreeStore, Always, TypeOK
  <2>2. QED
    BY <1>1, <2>1 DEF Always, OutcomeExact, RecordsNamed
<1>11. CASE ReaderClear
  <2>1. RecordsNamed'
    BY <1>11, ClearedIsNamed DEF ReaderClear
  <2>2. reader'.pc = "idle" /\ UNCHANGED << rild, sent, outcome >>
    BY <1>11 DEF ReaderClear, ReaderIdle
  <2>3. QED
    BY <1>1, <2>1, <2>2 DEF Always, OutcomeExact
<1>12. QED
  BY <1>2, <1>3, <1>4, <1>5, <1>6, <1>7, <1>8, <1>9, <1>10, <1>11, StepKinds

-----------------------------------------------------------------------------
(* What holds while neither race has happened.  A token is in one place at a *)
(* time (with the caller, on the wire or with the reader), its bit is set    *)
(* while it is there, and the history has one record for it, with the id of  *)
(* its request.  Both threads may be anywhere.                               *)

USE DEF WireTokens, Recorded

\* The empty client.
LEMMA UnracedStarts == Init => Unraced
<1> SUFFICES ASSUME Init PROVE Unraced
  OBVIOUS
<1>1. caller.pc = "idle" /\ reader.pc = "idle" /\ rild = {} /\ token_pool = {}
  BY DEF Init, CallerIdle, ReaderIdle
<1>2. \A i \in Slots : history[i] = EmptyRecord /\ history[i].token = NoToken
  BY DEF Init, EmptyRecord
<1>3. \A n \in Requests : outcome[n].state = "unused"
  BY DEF Init, Unsent
<1>4. PoolExact /\ TokensApart
  BY <1>1 DEF PoolExact, TokensApart
<1>5. HistoryExact
  BY <1>1, <1>2 DEF HistoryExact
<1>6. OwnHandler /\ NoneRejected
  BY <1>3 DEF OwnHandler, NoneRejected
<1>7. QED
  BY <1>4, <1>5, <1>6 DEF Unraced

\* Where the caller goes in a step that leaves pool, history and requests alone.
LEMMA QuietCaller ==
  ASSUME TypeOK, Quiet
  PROVE  \/ caller' = caller
         \/ /\ caller.pc \in {"idle", "register", "alloc", "scan", "failed"}
            /\ caller'.pc \in {"idle", "register", "alloc", "failed"}
         \/ /\ caller.pc = "alloc" /\ token_pool # Tokens
            /\ caller'.pc = "scan" /\ caller'.token = 1
         \/ /\ caller.pc = "scan" /\ caller.token \in token_pool
            /\ caller'.pc = "scan" /\ caller'.token = caller.token + 1
         \/ /\ caller.pc = "scan" /\ caller.token \notin token_pool
            /\ caller'.pc = "set" /\ caller'.token = caller.token
         \/ /\ << caller.pc, caller'.pc >> \in {<< "set", "store" >>, << "write", "free" >>, << "free", "freestore" >>}
            /\ caller'.token = caller.token /\ caller'.id = caller.id
<1>1. caller \in [pc : CallerPlaces, id : Ids \cup {NoId}, token : Tokens \cup {NoToken},
                  pool : SUBSET Tokens]
  BY DEF TypeOK
<1>2. CASE Call
  BY <1>2 DEF Call, RegisterRequestCompleteHandler, SetCall, GetMute, InvokeOemRequestHookRaw, CallerIdle
<1>3. CASE \E h \in Handlers \cup {NoHandler} : GetMuteRegisters(h)
  BY <1>1, <1>3 DEF GetMuteRegisters
<1>4. CASE AllocateTokenTest
  <2>1. CASE token_pool = Tokens
    BY <1>1, <1>4, <2>1 DEF AllocateTokenTest
  <2>2. CASE token_pool # Tokens
    BY <1>1, <1>4, <2>2 DEF AllocateTokenTest
  <2>3. QED
    BY <2>1, <2>2
<1>5. CASE AllocateTokenScan
  BY <1>1, <1>5 DEF AllocateTokenScan
<1>6. CASE AllocateTokenLoad \/ WriteFails \/ CallerFreeLoad
  BY <1>1, <1>6 DEF AllocateTokenLoad, WriteFails, CallerFreeLoad
<1>7. CASE CallFailed
  BY <1>7 DEF CallFailed, CallerIdle
<1>8. CASE TestDelete \/ ResetDelete \/ DeleteHandler \/ ReaderFreeLoad
  BY <1>8 DEF TestDelete, ResetDelete, DeleteHandler, ReaderFreeLoad
<1>9. QED
  BY <1>2, <1>3, <1>4, <1>5, <1>6, <1>7, <1>8 DEF Quiet

\* Such a step keeps what the threads hold.
LEMMA QuietUnraced == ASSUME Always, Unraced, Quiet PROVE Unraced'
<1>1. /\ Unrouted
      /\ reader' = reader \/ /\ reader.pc \in {"del", "reset", "drop", "free"}
                             /\ reader'.pc \in {"reset", "drop", "free", "freestore"}
                             /\ reader'.n = reader.n /\ reader'.token = reader.token
  BY QuietMoves DEF Always
<1>2. /\ \/ caller' = caller
         \/ /\ caller.pc \in {"idle", "register", "alloc", "scan", "failed"}
            /\ caller'.pc \in {"idle", "register", "alloc", "failed"}
         \/ /\ caller.pc = "alloc" /\ token_pool # Tokens
            /\ caller'.pc = "scan" /\ caller'.token = 1
         \/ /\ caller.pc = "scan" /\ caller.token \in token_pool
            /\ caller'.pc = "scan" /\ caller'.token = caller.token + 1
         \/ /\ caller.pc = "scan" /\ caller.token \notin token_pool
            /\ caller'.pc = "set" /\ caller'.token = caller.token
         \/ /\ << caller.pc, caller'.pc >> \in {<< "set", "store" >>, << "write", "free" >>, << "free", "freestore" >>}
            /\ caller'.token = caller.token /\ caller'.id = caller.id
  BY QuietCaller DEF Always
<1>3. ReaderHolds' = ReaderHolds /\ CallerHolds' = CallerHolds /\ WireTokens' = WireTokens
  BY <1>1, <1>2 DEF Unrouted
<1>4. PoolExact'
  <2>1. ASSUME caller.pc = "alloc", token_pool # Tokens, caller'.token = 1
        PROVE  \E t \in Tokens : t >= caller'.token /\ t \notin token_pool
    <3>1. PICK t \in Tokens : t \notin token_pool
      BY <2>1 DEF Always, TypeOK
    <3>2. t >= 1
      BY DEF Tokens
    <3>3. QED
      BY <2>1, <3>1, <3>2
  <2>2. ASSUME caller.pc = "scan", caller.token \in token_pool, caller'.token = caller.token + 1
        PROVE  \E t \in Tokens : t >= caller'.token /\ t \notin token_pool
    <3>1. PICK t \in Tokens : t >= caller.token /\ t \notin token_pool
      BY <2>2 DEF Unraced, PoolExact
    <3>2. caller.token \in Tokens /\ t # caller.token
      BY <2>2, <3>1 DEF Always, CallerReady
    <3>3. t >= caller'.token
      BY <2>2, <3>1, <3>2 DEF Tokens
    <3>4. QED
      BY <3>1, <3>3
  <2>3. token_pool' = WireTokens' \cup CallerHolds' \cup ReaderHolds'
    BY <1>1, <1>3 DEF Unrouted, Unraced, PoolExact
  <2>4. caller'.pc = "scan" => \E t \in Tokens : t >= caller'.token /\ t \notin token_pool'
    BY <1>1, <1>2, <2>1, <2>2 DEF Unrouted, Unraced, PoolExact
  <2>5. caller'.pc \in {"set", "store"} => caller'.token \notin token_pool'
    BY <1>1, <1>2 DEF Unrouted, Unraced, PoolExact
  <2>6. QED
    BY <2>3, <2>4, <2>5 DEF PoolExact
<1>5. TokensApart'
  <2>1. caller.token \notin token_pool => caller.token \notin WireTokens
    BY DEF Unraced, PoolExact
  <2>2. QED
    BY <1>1, <1>2, <1>3, <2>1 DEF Unrouted, Unraced, TokensApart
<1>6. HistoryExact'
  BY <1>1, <1>2 DEF Unrouted, Unraced, HistoryExact
<1>7. OwnHandler' /\ NoneRejected'
  BY <1>1 DEF Unrouted, Unraced, OwnHandler, NoneRejected
<1>8. QED
  BY <1>4, <1>5, <1>6, <1>7 DEF Unraced

\* ClearReqHistory removes the record of a token that is in the history once,
\* and touches no other.
LEMMA ClearedHistory ==
  ASSUME TypeOK, HistoryExact, NEW t \in Tokens, ClearReqHistory(t)
  PROVE  \A i \in Slots : IF history[i].token = t THEN history'[i] = EmptyRecord
                                                ELSE history'[i] = history[i]
<1>1. \A i, j \in Slots : history[i].token = t /\ history[j].token = t => i = j
  BY DEF HistoryExact, Tokens, NoToken
<1>2. CASE \E i \in Slots : FirstWith(i, t) /\ history' = [history EXCEPT ![i] = EmptyRecord]
  BY <1>1, <1>2 DEF FirstWith, TypeOK
<1>3. CASE (\A i \in Slots : history[i].token # t) /\ UNCHANGED history
  BY <1>3
<1>4. QED
  BY <1>2, <1>3 DEF ClearReqHistory

\* The caller records its token, sends its request, and gives both back.
LEMMA CallerUnraced ==
  ASSUME Always, Unraced, raced' = {},
         AllocateTokenStore \/ RecordReqHistory \/ WriteRequest \/ CallerFreeStore \/ CallerClear
  PROVE  Unraced'
<1>1. /\ reader' = reader /\ PoolExact /\ TokensApart /\ HistoryExact /\ OwnHandler /\ NoneRejected
      /\ caller \in [pc : CallerPlaces, id : Ids \cup {NoId}, token : Tokens \cup {NoToken},
                     pool : SUBSET Tokens]
  BY DEF Unraced, Always, TypeOK, AllocateTokenStore, RecordReqHistory, WriteRequest, CallerFreeStore,
         CallerClear
<1>2. caller.token \in Tokens /\ caller.token # NoToken /\ caller.id \in Ids
  BY DEF Always, CallerReady, Tokens, NoToken, AllocateTokenStore, RecordReqHistory, WriteRequest,
         CallerFreeStore, CallerClear
<1>3. CASE AllocateTokenStore
  <2>1. /\ caller.pc = "store" /\ caller'.pc = "record" /\ caller'.token = caller.token
        /\ token_pool' = token_pool \cup {caller.token}
        /\ UNCHANGED << history, rild, sent, outcome >>
    BY <1>1, <1>3 DEF AllocateTokenStore, AddToken
  <2>2. caller.token \notin token_pool
    BY <1>1, <2>1 DEF PoolExact
  <2>3. PoolExact' /\ TokensApart'
    BY <1>1, <2>1, <2>2 DEF PoolExact, TokensApart
  <2>4. HistoryExact' /\ OwnHandler' /\ NoneRejected'
    BY <1>1, <2>1 DEF HistoryExact, OwnHandler, NoneRejected
  <2>5. QED
    BY <2>3, <2>4 DEF Unraced
<1>4. CASE RecordReqHistory
  <2>1. /\ caller.pc = "record" /\ caller'.pc \in {"write", "free"}
        /\ caller'.token = caller.token /\ caller'.id = caller.id
        /\ UNCHANGED << token_pool, rild, sent, outcome >>
        /\ ~ (reader.pc = "clear" /\ reader.token = caller.token)
    BY <1>1, <1>4 DEF RecordReqHistory
  <2>2. reader.pc # "idle" => caller.token # reader.token
    BY <1>1, <2>1 DEF TokensApart, Always, TypeOK, ReaderPlaces
  <2>3. PoolExact' /\ TokensApart'
    BY <1>1, <2>1, <2>2 DEF PoolExact, TokensApart
  <2>4. OwnHandler' /\ NoneRejected'
    BY <1>1, <2>1 DEF OwnHandler, NoneRejected
  <2>5. HistoryExact'
    <3>1. \A i \in Slots : history[i].token # caller.token
      BY <1>1, <1>2, <2>1, <2>2 DEF HistoryExact, TokensApart, EmptyRecord
    <3>2. ASSUME NEW i \in Slots, FirstFree(i), caller'.pc = "write",
                 history' = [history EXCEPT ![i] = [token |-> caller.token, id |-> caller.id]]
          PROVE  HistoryExact'
      <4>1. history'[i] = [token |-> caller.token, id |-> caller.id] /\ history[i].token = NoToken
        BY <3>2 DEF Always, TypeOK, FirstFree
      <4>2. \A j \in Slots : j # i => history'[j] = history[j]
        BY <3>2 DEF Always, TypeOK
      <4>3. /\ \A r \in rild : r.token # NoToken
            /\ reader.pc # "idle" => reader.token # NoToken
        BY DEF Always, TypeOK, OutcomeExact, Tokens, NoToken
      <4>4. QED
        BY <1>1, <2>1, <2>2, <3>1, <3>2, <4>1, <4>2, <4>3 DEF HistoryExact
    <3>3. CASE caller'.pc = "free" /\ UNCHANGED history
      BY <1>1, <2>1, <3>3 DEF HistoryExact
    <3>4. QED
      BY <1>1, <1>4, <3>2, <3>3 DEF RecordReqHistory
  <2>6. QED
    BY <2>3, <2>4, <2>5 DEF Unraced
<1>5. CASE WriteRequest
  <2> DEFINE new == [n |-> sent + 1, token |-> caller.token, id |-> caller.id]
  <2>1. /\ caller.pc = "write" /\ caller'.pc = "idle"
        /\ rild' = rild \cup {new} /\ new.token = caller.token /\ new.id = caller.id
        /\ UNCHANGED << token_pool, history >>
    BY <1>5 DEF WriteRequest, CallerIdle
  <2>2. /\ sent + 1 \in Requests /\ sent \in Nat
        /\ outcome'[sent + 1] = [state |-> "pending", id |-> caller.id, as |-> NoId]
        /\ \A n \in Requests : n # sent + 1 => outcome'[n] = outcome[n]
    BY <1>5 DEF WriteRequest, Always, TypeOK, CallerReady, Requests
  <2>3. WireTokens' = WireTokens \cup {caller.token}
    BY <2>1
  <2>4. PoolExact'
    <3>1. CallerHolds = {caller.token} /\ CallerHolds' = {} /\ ReaderHolds' = ReaderHolds
      BY <1>1, <2>1
    <3>2. QED
      BY <1>1, <2>1, <2>3, <3>1 DEF PoolExact
  <2>5. TokensApart'
    <3>1. \A r \in rild' : r = new \/ (r \in rild /\ r.token # new.token)
      BY <1>1, <2>1 DEF TokensApart
    <3>2. reader.pc # "idle" => reader.token # caller.token
      BY <1>1, <2>1 DEF TokensApart
    <3>3. QED
      BY <1>1, <2>1, <2>3, <3>1, <3>2 DEF TokensApart
  <2>6. HistoryExact'
    <3>1. \A r \in rild' : Recorded(r.token, r.id)'
      BY <1>1, <2>1 DEF HistoryExact
    <3>2. reader.pc # "idle" => outcome'[reader.n] = outcome[reader.n]
      BY <2>2 DEF Always, OutcomeExact, Requests
    <3>3. QED
      BY <1>1, <2>1, <2>3, <3>1, <3>2 DEF HistoryExact
  <2>7. OwnHandler' /\ NoneRejected'
    BY <1>1, <2>2 DEF OwnHandler, NoneRejected
  <2>8. QED
    BY <2>4, <2>5, <2>6, <2>7 DEF Unraced
<1>6. CASE CallerFreeStore
  <2>1. /\ caller.pc = "freestore" /\ caller'.pc = "clear" /\ caller'.token = caller.token
        /\ token_pool' = token_pool \ {caller.token}
        /\ UNCHANGED << history, rild, sent, outcome >>
    BY <1>1, <1>6 DEF CallerFreeStore, FreeToken
  <2>2. PoolExact'
    <3>1. caller.token \notin WireTokens \cup ReaderHolds
      BY <1>1, <2>1 DEF TokensApart
    <3>2. CallerHolds = {caller.token} /\ CallerHolds' = {} /\ ReaderHolds' = ReaderHolds
      BY <1>1, <2>1
    <3>3. QED
      BY <1>1, <2>1, <3>1, <3>2 DEF PoolExact
  <2>3. TokensApart' /\ HistoryExact' /\ OwnHandler' /\ NoneRejected'
    BY <1>1, <2>1 DEF TokensApart, HistoryExact, OwnHandler, NoneRejected
  <2>4. QED
    BY <2>2, <2>3 DEF Unraced
<1>7. CASE CallerClear
  <2>1. /\ caller.pc = "clear" /\ caller'.pc = "failed" /\ caller'.token = caller.token
        /\ UNCHANGED << token_pool, rild, sent, outcome >>
    BY <1>1, <1>7 DEF CallerClear
  <2>2. PoolExact' /\ TokensApart'
    BY <1>1, <2>1 DEF PoolExact, TokensApart
  <2>3. HistoryExact'
    <3>1. /\ \A r \in rild : r.token # caller.token
          /\ reader.pc # "idle" => reader.token # caller.token
      BY <1>1, <2>1 DEF TokensApart
    <3>2. \A i \in Slots : IF history[i].token = caller.token THEN history'[i] = EmptyRecord
                                                           ELSE history'[i] = history[i]
      BY <1>1, <1>2, <1>7, ClearedHistory DEF CallerClear, Always
    <3>3. \A r \in rild : Recorded(r.token, r.id)'
      BY <1>1, <3>1, <3>2 DEF HistoryExact
    <3>4. reader.pc # "idle" => Recorded(reader.token, outcome[reader.n].id)'
      BY <1>1, <2>1, <3>1, <3>2 DEF HistoryExact
    <3>5. QED
      BY <1>1, <2>1, <3>2, <3>3, <3>4 DEF HistoryExact, EmptyRecord
  <2>4. OwnHandler' /\ NoneRejected'
    BY <1>1, <2>1 DEF OwnHandler, NoneRejected
  <2>5. QED
    BY <2>2, <2>3, <2>4 DEF Unraced
<1>8. QED
  BY <1>3, <1>4, <1>5, <1>6, <1>7

\* The search finds the record of the response's own request.
LEMMA FoundIsOwn ==
  ASSUME Always, Unraced, reader.pc = "find", NEW i \in Slots, NEW j \in HSlots, Found(reader.token, i, j)
  PROVE  req_handlers[j].id = outcome[reader.n].id
<1>1. history[i].token = reader.token /\ req_handlers[j].id = history[i].id
  BY DEF Found, FirstHandler
<1>2. PICK h \in Slots : history[h] = [token |-> reader.token, id |-> outcome[reader.n].id]
  BY DEF Unraced, HistoryExact
<1>3. reader.token # NoToken
  BY DEF Always, OutcomeExact, Tokens, NoToken
<1>4. h = i
  BY <1>1, <1>2, <1>3 DEF Unraced, HistoryExact
<1>5. QED
  BY <1>1, <1>2, <1>4

\* The search for the first fitting slot ends at one: a non-empty set of
\* handler slots has a smallest member.
LEMMA FirstSlot == ASSUME NEW S, S \subseteq HSlots, S # {}
                   PROVE  \E j \in S : \A k \in HSlots : k < j => k \notin S
<1>1. S \subseteq Nat
  BY DEF HSlots
<1>2. \E j \in S : \A k \in S : ~ (<< k, j >> \in OpToRel(<, Nat))
  BY <1>1, NatLessThanWellFounded, WFMin
<1>3. PICK j \in S : \A k \in S : ~ (<< k, j >> \in OpToRel(<, Nat))
  BY <1>2
<1>4. \A k \in S : ~ (k < j)
  BY <1>1, <1>3 DEF OpToRel
<1>5. QED
  BY <1>4

\* If the table has a handler for the request of the response in hand, the
\* search finds one.
LEMMA SearchFinds ==
  ASSUME Always, Unraced, reader.pc = "find", HasHandler(outcome[reader.n].id)
  PROVE  \E i \in Slots, j \in HSlots : Found(reader.token, i, j)
<1> DEFINE id == outcome[reader.n].id
           S == {j \in HSlots : req_handlers[j].id = id}
<1>1. PICK i \in Slots : history[i] = [token |-> reader.token, id |-> id]
  BY DEF Unraced, HistoryExact
<1>2. \A h \in Slots : history[h].token = reader.token => h = i
  BY <1>1 DEF Always, OutcomeExact, Unraced, HistoryExact, Tokens, NoToken
<1>3. PICK j \in S : \A k \in HSlots : k < j => k \notin S
  <2>1. S \subseteq HSlots /\ S # {}
    BY DEF HasHandler
  <2> HIDE DEF S
  <2>2. QED
    BY <2>1, FirstSlot
<1>4. \A h \in Slots : ~ (h < i /\ history[h].token = reader.token)
  BY <1>2 DEF Slots
<1>5. Found(reader.token, i, j)
  BY <1>1, <1>3, <1>4 DEF Found, FirstHandler
<1>6. QED
  BY <1>3, <1>5

\* The reader takes an answer, serves it, and gives its token and record back.
LEMMA ReaderUnraced ==
  ASSUME Always, Unraced, raced' = {},
         \/ \E r \in rild, err \in BOOLEAN : Receive(r, err)
         \/ Dispatch \/ ReaderFreeStore \/ ReaderClear
  PROVE  Unraced'
<1>1. /\ caller' = caller /\ PoolExact /\ TokensApart /\ HistoryExact /\ OwnHandler /\ NoneRejected
      /\ reader \in [pc : ReaderPlaces, n : Nat, token : Tokens \cup {NoToken},
                     id : Ids \cup {NoId}, pool : SUBSET Tokens]
  BY DEF Unraced, Always, TypeOK, Receive, Dispatch, ReaderFreeStore, ReaderClear
<1>2. reader.pc # "idle" => reader.token \in Tokens
  BY DEF Always, OutcomeExact
<1>3. ASSUME NEW r \in rild, NEW err \in BOOLEAN, Receive(r, err) PROVE Unraced'
  <2>1. r.token \in token_pool
    BY <1>1 DEF PoolExact
  <2>2. /\ reader.pc = "idle" /\ reader'.pc \in {"find", "free"} /\ reader'.n = r.n
        /\ reader'.token = r.token /\ rild' = rild \ {r} /\ UNCHANGED << token_pool, history >>
        /\ r.n \in Requests /\ outcome[r.n].id = r.id
        /\ outcome' = outcome \/ outcome' = [outcome EXCEPT ![r.n].state = "error"]
    BY <1>3, <2>1, ReceiveStep
  <2>3. /\ \A n \in Requests : outcome'[n].id = outcome[n].id /\ outcome'[n].as = outcome[n].as
        /\ \A n \in Requests : outcome'[n].state = outcome[n].state \/ outcome'[n].state = "error"
    BY <2>2, OutcomeAfter DEF States
  <2>4. \A q \in rild' : q \in rild /\ q.token # r.token
    BY <1>1, <2>2 DEF TokensApart
  <2>5. WireTokens' = WireTokens \ {r.token} /\ r.token \in WireTokens
    BY <2>2, <2>4
  <2>6. PoolExact'
    <3>1. ReaderHolds = {} /\ ReaderHolds' = {r.token} /\ CallerHolds' = CallerHolds
      BY <1>1, <2>2
    <3>2. QED
      BY <1>1, <2>2, <2>5, <3>1 DEF PoolExact
  <2>7. TokensApart'
    <3>1. ReaderHolds' = {r.token}
      BY <2>2
    <3>2. /\ caller.pc \in {"set", "store", "record", "write", "free", "freestore", "clear"} =>
               caller.token # r.token
      BY <1>1, <2>5 DEF TokensApart
    <3>3. QED
      BY <1>1, <2>2, <2>4, <2>5, <3>1, <3>2 DEF TokensApart
  <2>8. HistoryExact'
    <3>1. Recorded(reader'.token, outcome'[reader'.n].id)
      BY <1>1, <2>2, <2>3 DEF HistoryExact
    <3>2. QED
      BY <1>1, <2>2, <2>4, <2>5, <3>1 DEF HistoryExact
  <2>9. OwnHandler' /\ NoneRejected'
    BY <1>1, <2>3 DEF OwnHandler, NoneRejected
  <2>10. QED
    BY <2>6, <2>7, <2>8, <2>9 DEF Unraced
<1>4. CASE Dispatch
  <2>1. /\ reader.pc = "find" /\ reader'.pc \in {"del", "free"}
        /\ reader'.n = reader.n /\ reader'.token = reader.token
        /\ UNCHANGED << token_pool, history, rild >> /\ reader.n \in Requests
    BY <1>4, DispatchStep
  <2>2. PoolExact' /\ TokensApart'
    BY <1>1, <2>1 DEF PoolExact, TokensApart
  <2>3. /\ \A n \in Requests : outcome'[n].id = outcome[n].id
        /\ \A n \in Requests : n # reader.n => outcome'[n] = outcome[n]
        /\ \/ outcome'[reader.n].state = "nohandler"
           \/ outcome'[reader.n].state = "served" /\ outcome'[reader.n].as = outcome[reader.n].id
    <3>1. ASSUME outcome' = [outcome EXCEPT ![reader.n].state = "nohandler"]
          PROVE  /\ \A n \in Requests : outcome'[n].id = outcome[n].id
                 /\ \A n \in Requests : n # reader.n => outcome'[n] = outcome[n]
                 /\ outcome'[reader.n].state = "nohandler"
      BY <2>1, <3>1, OutcomeAfter DEF States
    <3>2. ASSUME NEW i \in Slots, NEW j \in HSlots, Found(reader.token, i, j),
                 ServedAs(reader.n, req_handlers[j].id)
          PROVE  /\ \A n \in Requests : outcome'[n].id = outcome[n].id
                 /\ \A n \in Requests : n # reader.n => outcome'[n] = outcome[n]
                 /\ outcome'[reader.n].state = "served" /\ outcome'[reader.n].as = outcome[reader.n].id
      <4>1. req_handlers[j].id = outcome[reader.n].id
        BY <2>1, <3>2, FoundIsOwn
      <4>2. /\ \A n \in Requests : n # reader.n => outcome'[n] = outcome[n]
            /\ outcome'[reader.n].state = "served" /\ outcome'[reader.n].id = outcome[reader.n].id
            /\ outcome'[reader.n].as = req_handlers[j].id
        BY <2>1, <3>2, OutcomeServed
      <4>3. QED
        BY <4>1, <4>2
    <3>3. QED
      BY <1>4, <3>1, <3>2, DispatchStep
  <2>4. HistoryExact'
    BY <1>1, <2>1, <2>3 DEF HistoryExact
  <2>5. OwnHandler' /\ NoneRejected'
    BY <1>1, <2>3 DEF OwnHandler, NoneRejected
  <2>6. QED
    BY <2>2, <2>4, <2>5 DEF Unraced
<1>5. CASE ReaderFreeStore
  <2>1. /\ reader.pc = "freestore" /\ reader'.pc = "clear"
        /\ reader'.n = reader.n /\ reader'.token = reader.token
        /\ token_pool' = token_pool \ {reader.token}
        /\ UNCHANGED << history, rild, sent, outcome >>
    BY <1>1, <1>5 DEF ReaderFreeStore, FreeToken
  <2>2. PoolExact'
    <3>1. reader.token \notin WireTokens \cup CallerHolds
      BY <1>1, <2>1 DEF TokensApart
    <3>2. ReaderHolds = {reader.token} /\ ReaderHolds' = {} /\ CallerHolds' = CallerHolds
      BY <1>1, <2>1
    <3>3. QED
      BY <1>1, <2>1, <3>1, <3>2 DEF PoolExact
  <2>3. TokensApart' /\ HistoryExact' /\ OwnHandler' /\ NoneRejected'
    BY <1>1, <2>1 DEF TokensApart, HistoryExact, OwnHandler, NoneRejected
  <2>4. QED
    BY <2>2, <2>3 DEF Unraced
<1>6. CASE ReaderClear
  <2>1. reader.pc = "clear" /\ reader'.pc = "idle" /\ UNCHANGED << token_pool, rild, sent, outcome >>
    BY <1>6 DEF ReaderClear, ReaderIdle
  <2>2. PoolExact' /\ TokensApart'
    BY <1>1, <2>1 DEF PoolExact, TokensApart
  <2>3. HistoryExact'
    <3>1. /\ \A r \in rild : r.token # reader.token
          /\ caller.pc \in {"write", "free", "freestore", "clear"} => caller.token # reader.token
      BY <1>1, <2>1 DEF TokensApart
    <3>2. \A i \in Slots : IF history[i].token = reader.token THEN history'[i] = EmptyRecord
                                                           ELSE history'[i] = history[i]
      BY <1>1, <1>2, <1>6, <2>1, ClearedHistory DEF ReaderClear, Always
    <3>3. \A r \in rild : Recorded(r.token, r.id)'
      BY <1>1, <3>1, <3>2 DEF HistoryExact
    <3>4. caller.pc = "write" => Recorded(caller.token, caller.id)'
      BY <1>1, <3>1, <3>2 DEF HistoryExact
    <3>5. QED
      BY <1>1, <2>1, <3>2, <3>3, <3>4 DEF HistoryExact, EmptyRecord
  <2>4. OwnHandler' /\ NoneRejected'
    BY <1>1, <2>1 DEF OwnHandler, NoneRejected
  <2>5. QED
    BY <2>2, <2>3, <2>4 DEF Unraced
<1>7. QED
  BY <1>3, <1>4, <1>5, <1>6

\* A race that has happened stays.
LEMMA RacesStay == ASSUME [Next]_vars, TypeOK, raced' = {} PROVE raced = {}
<1>1. CASE Quiet
  BY <1>1, QuietMoves
<1>2. CASE ~ Quiet /\ Next
  BY <1>2, StepKinds DEF AllocateTokenStore, RecordReqHistory, WriteRequest, CallerFreeStore, CallerClear,
     Receive, Dispatch, ReaderFreeStore, ReaderClear
<1>3. QED
  BY <1>1, <1>2 DEF vars

LEMMA InitInv == Init => IInv
  BY AlwaysStarts, UnracedStarts DEF IInv

\* The strengthening is inductive.
LEMMA StepInv == IInv /\ [Next]_vars => IInv'
<1> SUFFICES ASSUME IInv, [Next]_vars PROVE IInv'
  OBVIOUS
<1>1. Always /\ Always' /\ TypeOK
  BY AlwaysSteps DEF IInv, Always
<1>2. ASSUME raced' = {} PROVE Unraced'
  <2>1. Unraced
    BY <1>1, <1>2, RacesStay DEF IInv
  <2>2. CASE UNCHANGED vars
    BY <2>1, <2>2 DEF vars, Unraced, PoolExact, TokensApart, HistoryExact, OwnHandler, NoneRejected
  <2>3. CASE Next
    BY <1>1, <1>2, <2>1, <2>3, StepKinds, QuietUnraced, CallerUnraced, ReaderUnraced
  <2>4. QED
    BY <2>2, <2>3
<1>3. QED
  BY <1>1, <1>2 DEF IInv

-----------------------------------------------------------------------------
(* What follows from the strengthening. *)

\* A response is handed to the handler of the request it answers
\* (FindReqHistory and FindReqHandler), in every interleaving of calls and answers in
\* which neither race has happened.
THEOREM ResponsesReachTheirHandler == Spec => []RoutedRight
<1>1. IInv => RoutedRight
  BY DEF IInv, Unraced, RoutedRight
<1>2. QED
  BY <1>1, InitInv, StepInv, PTL DEF Spec

\* AllocateToken fails only when every token is with RILD or with the reader.
LEMMA AgainMeansFull == ASSUME Always, Unraced PROVE AgainOnlyWhenFull
<1>1. caller.pc = "alloc" => CallerHolds = {}
  BY DEF CallerHolds
<1>2. QED
  BY <1>1 DEF Unraced, PoolExact, AgainOnlyWhenFull

\* FreeToken and ClearReqHistory leave no token and no record behind.
LEMMA NothingLeaks == ASSUME Always, Unraced PROVE NothingLeftBehind
<1>1. ASSUME Always, Unraced, caller.pc = "idle", reader.pc = "idle"
      PROVE  /\ token_pool = WireTokens
             /\ {history[i] : i \in Slots} \ {EmptyRecord} = {[token |-> r.token, id |-> r.id] : r \in rild}
             /\ \A i, j \in Slots : i # j /\ history[i] # EmptyRecord => history[i] # history[j]
  <2>1. PoolExact /\ HistoryExact /\ TypeOK
    BY <1>1 DEF Always, Unraced
  <2>2. token_pool = WireTokens
    BY <1>1, <2>1 DEF PoolExact
  <2>3. \A i \in Slots : history[i] = EmptyRecord \/ history[i].token \in WireTokens
    BY <1>1, <2>1 DEF HistoryExact
  <2>4. NoToken \notin WireTokens
    BY <2>1 DEF TypeOK, Tokens, NoToken
  <2>5. \A i, j \in Slots : i # j /\ history[i] # EmptyRecord => history[i] # history[j]
    <3>1. \A i, j \in Slots : history[i].token = history[j].token /\ history[i].token # NoToken => i = j
      BY <2>1 DEF HistoryExact
    <3>2. \A i \in Slots : history[i] # EmptyRecord => history[i].token # NoToken
      BY <2>3, <2>4
    <3>3. QED
      BY <3>1, <3>2
  <2>6. \A r \in rild : \E i \in Slots : history[i] = [token |-> r.token, id |-> r.id]
    BY <2>1 DEF HistoryExact
  <2>7. \A r \in rild : [token |-> r.token, id |-> r.id] # EmptyRecord
    BY <2>4 DEF EmptyRecord
  <2>8. ASSUME NEW i \in Slots, history[i] # EmptyRecord
        PROVE  \E r \in rild : history[i] = [token |-> r.token, id |-> r.id]
    <3>1. PICK r \in rild : r.token = history[i].token
      BY <2>3, <2>8
    <3>2. PICK j \in Slots : history[j] = [token |-> r.token, id |-> r.id]
      BY <2>6
    <3>3. i = j
      BY <2>1, <2>4, <3>1, <3>2 DEF HistoryExact
    <3>4. QED
      BY <3>2, <3>3
  <2>9. {history[i] : i \in Slots} \ {EmptyRecord} = {[token |-> r.token, id |-> r.id] : r \in rild}
    <3>1. ASSUME NEW x \in {history[i] : i \in Slots} \ {EmptyRecord}
          PROVE  x \in {[token |-> r.token, id |-> r.id] : r \in rild}
      BY <2>8
    <3>2. ASSUME NEW x \in {[token |-> r.token, id |-> r.id] : r \in rild}
          PROVE  x \in {history[i] : i \in Slots} \ {EmptyRecord}
      <4>1. PICK r \in rild : x = [token |-> r.token, id |-> r.id]
        OBVIOUS
      <4>2. PICK i \in Slots : history[i] = x
        BY <2>6, <4>1
      <4>3. x # EmptyRecord
        BY <2>7, <4>1
      <4>4. QED
        BY <4>2, <4>3
    <3>3. QED
      BY <3>1, <3>2
  <2>10. QED
    BY <2>2, <2>5, <2>9
<1>2. QED
  BY <1>1 DEF NothingLeftBehind

\* The pool and the history together, what AllocateToken, FreeToken and the error
\* labels keep however the two threads interleave short of the two races: no answer is
\* rejected, no call is refused without need, and nothing is left behind.
THEOREM PoolsAreSound == Spec => []PoolsSound
<1>1. Unraced => NoneRejected
  BY DEF Unraced
<1>2. IInv => PoolsSound
  BY <1>1, AgainMeansFull, NothingLeaks DEF IInv, PoolsSound
<1>3. QED
  BY <1>2, InitInv, StepInv, PTL DEF Spec

-----------------------------------------------------------------------------
(* The abstract promise. *)

\* What a step does to the requests: nothing, or it is the request sent, or the one
\* whose answer is taken.
LEMMA OutcomeStep ==
  ASSUME IInv, [Next]_vars
  PROVE  \/ /\ UNCHANGED outcome
            /\ link' = link \/ (link' = FALSE /\ raced' = raced)
            /\ raced = {} \/ raced' # {}
         \/ link' = link /\ raced' = raced /\ \E n \in Requests :
              \/ /\ link /\ outcome[n] = Unsent
                 /\ \E id \in Ids : outcome' = [outcome EXCEPT ![n] = [state |-> "pending", id |-> id, as |-> NoId]]
              \/ /\ outcome[n].state = "pending"
                 /\ \/ \E id \in Ids :
                         /\ raced = {} => id = outcome[n].id
                         /\ ServedAs(n, id)
                    \/ outcome' = [outcome EXCEPT ![n] = [@ EXCEPT !.state = "error"]]
                    \/ raced # {} /\ outcome' = [outcome EXCEPT ![n] = [@ EXCEPT !.state = "rejected"]]
                    \/ /\ outcome' = [outcome EXCEPT ![n] = [@ EXCEPT !.state = "nohandler"]]
                       /\ raced = {} => ~ HasHandler(outcome[n].id)
<1>0. Always /\ TypeOK /\ (raced = {} => Unraced)
  BY DEF IInv, Always
<1>1. CASE Quiet
  BY <1>0, <1>1, QuietMoves DEF Unrouted
<1>2. CASE WriteRequest
  <2>1. sent + 1 \in Requests /\ sent + 1 > sent /\ caller.id \in Ids
    BY <1>0, <1>2 DEF WriteRequest, Always, TypeOK, CallerReady, Requests
  <2>2. outcome[sent + 1] = Unsent
    BY <1>0, <2>1 DEF Always, OutcomeExact
  <2>3. QED
    BY <1>2, <2>1, <2>2 DEF WriteRequest
<1>3. CASE \/ AllocateTokenStore \/ RecordReqHistory \/ CallerFreeStore \/ CallerClear
           \/ ReaderFreeStore \/ ReaderClear
  <2>1. UNCHANGED << outcome, link >>
    BY <1>3 DEF AllocateTokenStore, RecordReqHistory, CallerFreeStore, CallerClear, ReaderFreeStore, ReaderClear
  <2>2. raced = {} \/ raced' # {}
    BY <1>3 DEF AllocateTokenStore, RecordReqHistory, CallerFreeStore, CallerClear, ReaderFreeStore,
                ReaderClear, Race
  <2>3. QED
    BY <2>1, <2>2
<1>4. ASSUME NEW r \in rild, NEW err \in BOOLEAN, Receive(r, err)
      PROVE  /\ link' = link /\ raced' = raced /\ r.n \in Requests /\ outcome[r.n].state = "pending"
             /\ \/ UNCHANGED outcome
                \/ outcome' = [outcome EXCEPT ![r.n] = [@ EXCEPT !.state = "error"]]
                \/ raced # {} /\ outcome' = [outcome EXCEPT ![r.n] = [@ EXCEPT !.state = "rejected"]]
  <2>1. raced = {} => r.token \in token_pool
    BY <1>0 DEF Unraced, PoolExact
  <2>2. /\ link' = link /\ raced' = raced /\ r.n \in Requests /\ outcome[r.n].state = "pending"
        /\ \/ /\ r.token \notin token_pool
              /\ outcome' = [outcome EXCEPT ![r.n].state = "rejected"]
           \/ outcome' = outcome
           \/ outcome' = [outcome EXCEPT ![r.n].state = "error"]
    BY <1>0, <1>4, ReceiveStep
  <2>3. QED
    BY <2>1, <2>2
<1>5. CASE Dispatch
  <2>1. /\ reader.pc = "find" /\ link' = link /\ raced' = raced
        /\ reader.n \in Requests /\ outcome[reader.n].state = "pending"
    BY <1>0, <1>5, DispatchStep
  <2>2. ASSUME NEW i \in Slots, NEW j \in HSlots, Found(reader.token, i, j), raced = {}
        PROVE  req_handlers[j].id = outcome[reader.n].id
    BY <1>0, <2>1, <2>2, FoundIsOwn
  <2>3. ASSUME raced = {}, \A i \in Slots, j \in HSlots : ~ Found(reader.token, i, j)
        PROVE  ~ HasHandler(outcome[reader.n].id)
    BY <1>0, <2>1, <2>3, SearchFinds
  <2>4. \/ /\ outcome' = [outcome EXCEPT ![reader.n] = [@ EXCEPT !.state = "nohandler"]]
           /\ \A i \in Slots, j \in HSlots : ~ Found(reader.token, i, j)
        \/ \E i \in Slots, j \in HSlots :
             /\ Found(reader.token, i, j) /\ req_handlers[j].id \in Ids
             /\ ServedAs(reader.n, req_handlers[j].id)
    BY <1>0, <1>5, DispatchStep
  <2>5. QED
    BY <2>1, <2>2, <2>3, <2>4
<1>6. CASE UNCHANGED vars
  BY <1>6 DEF vars
<1>7. CASE \E r \in rild, err \in BOOLEAN : Receive(r, err)
  BY <1>4, <1>7
<1>8. QED
  BY <1>1, <1>2, <1>3, <1>5, <1>6, <1>7, StepKinds

\* A response goes unhandled only if its request has no handler at that moment
\* (FindReqHandler): the search never misses one, unless the threads have raced.
THEOREM NoHandlerMissed == Spec => HandlerFound
<1> DEFINE A == \A n \in Requests :
                  raced = {} /\ outcome'[n].state = "nohandler" /\ outcome[n].state # "nohandler"
                    => ~ HasHandler(outcome[n].id)
<1>1. IInv /\ [Next]_vars => [A]_vars
  <2> SUFFICES ASSUME IInv, [Next]_vars, NEW n \in Requests, raced = {},
                      outcome'[n].state = "nohandler", outcome[n].state # "nohandler"
               PROVE  ~ HasHandler(outcome[n].id)
    OBVIOUS
  <2>1. outcome \in [Requests -> [state : States, id : Ids \cup {NoId}, as : Ids \cup {NoId}]]
    BY DEF IInv, Always, TypeOK
  <2>2. ASSUME NEW m \in Requests, NEW id \in Ids,
               outcome' = [outcome EXCEPT ![m] = [state |-> "pending", id |-> id, as |-> NoId]]
        PROVE  FALSE
    BY <2>1, <2>2
  <2>3. ASSUME NEW m \in Requests, NEW id, ServedAs(m, id) PROVE FALSE
    <3>1. /\ \A k \in Requests : k # m => outcome'[k] = outcome[k]
          /\ outcome'[m].state = "served"
      BY <2>3, OutcomeServed DEF IInv
    <3>2. QED
      BY <3>1
  <2>4. ASSUME NEW m \in Requests, outcome' = [outcome EXCEPT ![m] = [@ EXCEPT !.state = "nohandler"]],
               ~ HasHandler(outcome[m].id)
        PROVE  ~ HasHandler(outcome[n].id)
    <3>1. m = n
      BY <2>1, <2>4
    <3>2. QED
      BY <2>4, <3>1, Zenon
  <2>5. ASSUME NEW m \in Requests, outcome' = [outcome EXCEPT ![m] = [@ EXCEPT !.state = "error"]] PROVE FALSE
    BY <2>1, <2>5
  <2>6. QED
    BY <2>1, <2>2, <2>3, <2>4, <2>5, OutcomeStep
<1>2. QED
  BY <1>1, InitInv, StepInv, PTL DEF Spec, HandlerFound

\* The client with its tokens, history and threads implements the promise, in every
\* interleaving: a request is answered at most once, and under the id it was sent with
\* while the threads have not raced.
THEOREM ImplementsPromise == Spec => KeepsPromise
<1>1. Init => Promise!Init
  BY DEF Init, Promise!Init, Unsent, Promise!Unsent
<1> DEFINE Seen == << outcome, link, raced = {} >>
<1>2. IInv /\ [Next]_vars => [Promise!Next]_Seen
  <2> SUFFICES ASSUME IInv, [Next]_vars PROVE Promise!Next \/ UNCHANGED Seen
    OBVIOUS
  <2>1. ASSUME UNCHANGED outcome, link' = link \/ (link' = FALSE /\ raced' = raced), raced = {} \/ raced' # {}
        PROVE  Promise!Next \/ UNCHANGED Seen
    <3>1. CASE link' = link /\ (raced' = {}) = (raced = {})
      BY <2>1, <3>1, Zenon
    <3>2. CASE link' = FALSE /\ (raced' = {}) = (raced = {})
      <4>1. Promise!Lost
        BY <2>1, <3>2, Zenon DEF Promise!Lost
      <4>2. QED
        BY <4>1, Zenon DEF Promise!Next
    <3>3. CASE link' = link /\ raced' # {}
      <4>1. (raced' = {}) = FALSE
        BY <3>3
      <4>2. Promise!Race
        BY <2>1, <3>3, <4>1, Zenon DEF Promise!Race
      <4>3. QED
        BY <4>2, Zenon DEF Promise!Next
    <3>4. (raced' = {}) = (raced = {}) \/ raced' # {}
      BY <2>1
    <3>5. QED
      BY <2>1, <3>1, <3>2, <3>3, <3>4
  <2>2. ASSUME NEW n \in Requests, NEW id \in Ids, link' = link, raced' = raced, link, outcome[n] = Unsent,
               outcome' = [outcome EXCEPT ![n] = [state |-> "pending", id |-> id, as |-> NoId]]
        PROVE  Promise!Next
    <3>1. Promise!Accept(n, id)
      BY <2>2, Zenon DEF Promise!Accept, Promise!Unsent, Unsent
    <3>2. QED
      BY <3>1, Zenon DEF Promise!Next
  <2>3. ASSUME NEW n \in Requests, NEW id \in Ids, link' = link, raced' = raced,
               outcome[n].state = "pending", raced = {} => id = outcome[n].id,
               ServedAs(n, id)
        PROVE  Promise!Next
    <3>1. CASE raced = {}
      <4>1. Promise!Serve(n)
        BY <2>3, <3>1, Zenon DEF Promise!Serve, ServedAs
      <4>2. QED
        BY <4>1, Zenon DEF Promise!Next
    <3>2. CASE raced # {}
      <4>1. Promise!Misdeliver(n, id)
        BY <2>3, <3>2, Zenon DEF Promise!Misdeliver, ServedAs
      <4>2. QED
        BY <4>1, Zenon DEF Promise!Next
    <3>3. QED
      BY <3>1, <3>2
  <2>4. ASSUME NEW n \in Requests, NEW how \in {"nohandler", "error"}, link' = link, raced' = raced,
               outcome[n].state = "pending", outcome' = [outcome EXCEPT ![n] = [@ EXCEPT !.state = how]]
        PROVE  Promise!Next
    <3>1. Promise!Finish(n, how)
      BY <2>4, Zenon DEF Promise!Finish
    <3>2. QED
      BY <3>1, Zenon DEF Promise!Next
  <2>5. ASSUME NEW n \in Requests, link' = link, raced' = raced, raced # {}, outcome[n].state = "pending",
               outcome' = [outcome EXCEPT ![n] = [@ EXCEPT !.state = "rejected"]]
        PROVE  Promise!Next
    <3>1. Promise!Reject(n)
      BY <2>5, Zenon DEF Promise!Reject
    <3>2. QED
      BY <3>1, Zenon DEF Promise!Next
  <2>6. QED
    BY <2>1, <2>2, <2>3, <2>4, <2>5, OutcomeStep, ZenonT(60)
<1>3. QED
  BY <1>1, <1>2, InitInv, StepInv, PTL DEF Spec, KeepsPromise, Promise!Spec
=============================================================================
