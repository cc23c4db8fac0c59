--------------------------- MODULE SecRilRequests ---------------------------
(***************************************************************************)
(* The request path of the RIL client library                              *)
(* (src/ril/libsecril-client/secril-client.cpp): tokens, the request       *)
(* history, the table of completion handlers and the reader thread that    *)
(* routes a solicited response to the handler of its request.              *)
(*                                                                         *)
(* Two threads work on one RilClientPrv and the library has no lock: the   *)
(* caller (libaudio calls with its own lock held, so there is one at a     *)
(* time) and the reader started by Connect_RILD.  Their steps interleave   *)
(* freely: `token_pool |= t' and `token_pool &= ~t' are a load and a       *)
(* store, AllocateToken loads the pool again for every bit it tests, and   *)
(* the flag of GetMute is read, cleared and acted on in three steps.  A    *)
(* search of the history or of the handler table is one step.  A record is *)
(* written by one thread and looked for by the other only when the token   *)
(* is in two hands, and which slot it takes matters only then; the slots   *)
(* of two ids are independent, and a search that meets a slot half written *)
(* finds no handler, as it does before the registration.                   *)
(*                                                                         *)
(* The history variable raced says which of the two races of the threads   *)
(* have happened: a store to token_pool that undid one of the other thread *)
(* ("update"), and a token taken by a call while the reader has still to   *)
(* clear its record ("reuse").                                             *)
(*                                                                         *)
(* The connection itself is module SecRilConnection; here it is either up  *)
(* or gone (link).                                                         *)
(***************************************************************************)
EXTENDS Naturals

CONSTANTS
  TOKEN_POOL_SIZE,  \* tokens, and slots of the request history
  REQ_POOL_SIZE,    \* slots of the handler table
  SetIds,           \* request ids of the Set* calls
  OemRaw,           \* REQ_OEM_HOOK_RAW, sent by InvokeOemRequestHookRaw
  GetMuteId,        \* REQ_GET_CALL_MUTE
  Handlers,         \* handler functions a client can register
  NoHandler,        \* the NULL handler
  NoId,             \* the id of an empty slot (0)
  MaxRequests       \* bound: requests that reach RILD

Tokens == 1 .. TOKEN_POOL_SIZE
Slots == 1 .. TOKEN_POOL_SIZE
HSlots == 1 .. REQ_POOL_SIZE
Ids == SetIds \cup {OemRaw, GetMuteId}
Requests == 1 .. MaxRequests
NoToken == 0

ASSUME PoolSizes == TOKEN_POOL_SIZE \in Nat \ {0} /\ REQ_POOL_SIZE \in Nat \ {0}
ASSUME RequestBound == MaxRequests \in Nat
ASSUME DistinctIds == /\ OemRaw \notin SetIds /\ GetMuteId \notin SetIds
                      /\ OemRaw # GetMuteId /\ NoId \notin Ids
ASSUME NoHandlerIsNone == NoHandler \notin Handlers

VARIABLES
  token_pool,     \* the set bits of token_pool
  history,        \* Slots -> [token, id]
  req_handlers,   \* HSlots -> [id, handler]
  b_del_handler,  \* the flag GetMute raises
  caller,         \* [pc, id, token, pool]: the calling thread and its locals
  reader,         \* [pc, n, token, id, pool]: the reader thread and its locals
  link,           \* FALSE once a failed write has closed the socket
  rild,           \* requests RILD has read and not answered: [n, token, id]
  sent,           \* number of requests written
  outcome,        \* Requests -> [state, id, as]: what became of the request, the
                  \* id it was sent with and the id it was served as (history)
  raced           \* the races that have happened (history)

vars == << token_pool, history, req_handlers, b_del_handler, caller, reader,
           link, rild, sent, outcome, raced >>

EmptyRecord == [token |-> NoToken, id |-> NoId]
EmptyHandler == [id |-> NoId, handler |-> NoHandler]
CallerIdle == [pc |-> "idle", id |-> NoId, token |-> NoToken, pool |-> {}]
ReaderIdle == [pc |-> "idle", n |-> 0, token |-> NoToken, id |-> NoId, pool |-> {}]

Unsent == [state |-> "unused", id |-> NoId, as |-> NoId]
States == {"unused", "pending", "served", "nohandler", "error", "rejected"}

-----------------------------------------------------------------------------
(* Searches: the loops stop at the first slot that fits.  Definitions named  *)
(* X_Slip are X with a plausible mistake; no action uses them.               *)

\* Slot i is where RecordReqHistory stores a new record.
FirstFree(i) == /\ history[i].token = NoToken
                /\ \A j \in Slots : j < i => history[j].token # NoToken

\* Slot i is the one ClearReqHistory clears for token t.
FirstWith_Slip(i, t) == /\ history[i].token # NoToken
                        /\ \A j \in Slots : j < i => history[j].token = NoToken
FirstWith(i, t) == /\ history[i].token = t
                   /\ \A j \in Slots : j < i => history[j].token # t

\* Handler slot j is the first one of an id.
FirstHandler_Slip(j, id) == /\ req_handlers[j].id = id /\ j < REQ_POOL_SIZE
                            /\ \A k \in HSlots : k < j => req_handlers[k].id # id
FirstHandler(j, id) == /\ req_handlers[j].id = id
                       /\ \A k \in HSlots : k < j => req_handlers[k].id # id

\* The bits of token_pool after `token_pool |= t' and `token_pool &= ~t'.
AddToken(pool, t) == pool \cup {t}
FreeToken_Slip(pool, t) == pool
FreeToken(pool, t) == pool \ {t}

\* History slot i and handler slot j are what FindReqHandler returns for t.
Found(t, i, j) ==
  /\ history[i].token = t
  /\ FirstHandler(j, history[i].id)
  /\ \A h \in Slots : h < i /\ history[h].token = t =>
       \A k \in HSlots : req_handlers[k].id # history[h].id

HasHandler(id) == \E j \in HSlots : req_handlers[j].id = id

\* The handler table after RegisterRequestCompleteHandler(id, NULL).  The scan
\* keeps the last slot that matches.
Unregistered(id) ==
  [j \in HSlots |->
     IF req_handlers[j].id = id /\ \A k \in HSlots : k > j => req_handlers[k].id # id
     THEN EmptyHandler ELSE req_handlers[j]]

\* RegisterRequestCompleteHandler(id, h) with h not NULL: update the matching
\* slot, else take the first empty one, else RIL_CLIENT_ERR_RESOURCE.
RegisterIn(id, h) ==
  \/ \E j \in HSlots :
       /\ req_handlers[j].id = id
       /\ \A k \in HSlots : k > j => req_handlers[k].id # id
       /\ req_handlers' = [req_handlers EXCEPT ![j].handler = h]
  \/ /\ ~ HasHandler(id)
     /\ \E j \in HSlots :
          /\ req_handlers[j].id = NoId
          /\ \A k \in HSlots : k < j => req_handlers[k].id # NoId
          /\ req_handlers' = [req_handlers EXCEPT ![j] = [id |-> id, handler |-> h]]
  \/ /\ ~ HasHandler(id) /\ ~ HasHandler(NoId)
     /\ UNCHANGED req_handlers

-----------------------------------------------------------------------------
(* The calling thread. *)

Race(kind, happened) == raced' = IF happened THEN raced \cup {kind} ELSE raced

RegisterRequestCompleteHandler(id, h) ==
  /\ caller.pc = "idle"
  /\ IF h = NoHandler THEN req_handlers' = Unregistered(id) ELSE RegisterIn(id, h)
  /\ UNCHANGED << token_pool, history, b_del_handler, caller, reader, link, rild, sent, outcome, raced >>

\* Every Set* call: drop a handler of that id, then send.
SetCall(id) ==
  /\ caller.pc = "idle"
  /\ sent < MaxRequests
  /\ req_handlers' = Unregistered(id)
  /\ caller' = [CallerIdle EXCEPT !.pc = "alloc", !.id = id]
  /\ UNCHANGED << token_pool, history, b_del_handler, reader, link, rild, sent, outcome, raced >>

\* GetMute raises its flag, then registers the handler it was given.
GetMute ==
  /\ caller.pc = "idle"
  /\ sent < MaxRequests
  /\ b_del_handler' = TRUE
  /\ caller' = [CallerIdle EXCEPT !.pc = "register", !.id = GetMuteId]
  /\ UNCHANGED << token_pool, history, req_handlers, reader, link, rild, sent, outcome, raced >>

GetMuteRegisters(h) ==
  /\ caller.pc = "register"
  /\ IF h = NoHandler THEN req_handlers' = Unregistered(GetMuteId) ELSE RegisterIn(GetMuteId, h)
  /\ caller' = [caller EXCEPT !.pc = "alloc"]
  /\ UNCHANGED << token_pool, history, b_del_handler, reader, link, rild, sent, outcome, raced >>

InvokeOemRequestHookRaw ==
  /\ caller.pc = "idle"
  /\ sent < MaxRequests
  /\ caller' = [CallerIdle EXCEPT !.pc = "alloc", !.id = OemRaw]
  /\ UNCHANGED << token_pool, history, req_handlers, b_del_handler, reader, link, rild, sent, outcome, raced >>

LastBit_Slip == TOKEN_POOL_SIZE + 1
LastBit == TOKEN_POOL_SIZE

\* AllocateToken: a full pool is RIL_CLIENT_ERR_AGAIN; else its bits are tested in
\* turn, until one is found clear.
AllocateTokenTest ==
  /\ caller.pc = "alloc"
  /\ caller' = IF token_pool = Tokens THEN [caller EXCEPT !.pc = "failed"]
                                      ELSE [caller EXCEPT !.pc = "scan", !.token = 1]
  /\ UNCHANGED << token_pool, history, req_handlers, b_del_handler, reader, link, rild, sent, outcome, raced >>

AllocateTokenScan ==
  /\ caller.pc = "scan"
  /\ \/ caller.token \notin token_pool /\ caller' = [caller EXCEPT !.pc = "set"]
     \/ /\ caller.token \in token_pool /\ caller.token < LastBit
        /\ caller' = [caller EXCEPT !.token = @ + 1]
     \/ /\ caller.token \in token_pool /\ caller.token >= LastBit
        /\ caller' = [caller EXCEPT !.pc = "failed", !.token = NoToken]
  /\ UNCHANGED << token_pool, history, req_handlers, b_del_handler, reader, link, rild, sent, outcome, raced >>

\* The load and the store of `|='.
AllocateTokenLoad ==
  /\ caller.pc = "set"
  /\ caller' = [caller EXCEPT !.pc = "store", !.pool = token_pool]
  /\ UNCHANGED << token_pool, history, req_handlers, b_del_handler, reader, link, rild, sent, outcome, raced >>

AllocateTokenStore ==
  /\ caller.pc = "store"
  /\ token_pool' = AddToken(caller.pool, caller.token)
  /\ Race("update", token_pool # caller.pool)
  /\ caller' = [caller EXCEPT !.pc = "record", !.pool = {}]
  /\ UNCHANGED << history, req_handlers, b_del_handler, reader, link, rild, sent, outcome >>

RecordReqHistory ==
  /\ caller.pc = "record"
  /\ Race("reuse", reader.pc = "clear" /\ reader.token = caller.token)
  /\ \/ \E i \in Slots :
          /\ FirstFree(i)
          /\ history' = [history EXCEPT ![i] = [token |-> caller.token, id |-> caller.id]]
          /\ caller' = [caller EXCEPT !.pc = "write"]
     \/ /\ \A i \in Slots : history[i].token # NoToken
        /\ caller' = [caller EXCEPT !.pc = "free"]
        /\ UNCHANGED history
  /\ UNCHANGED << token_pool, req_handlers, b_del_handler, reader, link, rild, sent, outcome >>

\* Both blockingWrite calls succeed: RILD has the request.
WriteRequest ==
  /\ caller.pc = "write"
  /\ link
  /\ sent' = sent + 1
  /\ rild' = rild \cup {[n |-> sent + 1, token |-> caller.token, id |-> caller.id]}
  /\ outcome' = [outcome EXCEPT ![sent + 1] = [state |-> "pending", id |-> caller.id, as |-> NoId]]
  /\ caller' = CallerIdle
  /\ UNCHANGED << token_pool, history, req_handlers, b_del_handler, reader, link, raced >>

\* After a failed write the request is given up.
GiveUp_Slip == UNCHANGED caller
GiveUp == caller' = [caller EXCEPT !.pc = "free"]

\* A write fails (peer gone, or EAGAIN on the non-blocking socket): blockingWrite
\* closes the descriptor.
WriteFails ==
  /\ caller.pc = "write"
  /\ link' = FALSE
  /\ GiveUp
  /\ UNCHANGED << token_pool, history, req_handlers, b_del_handler, reader, rild, sent, outcome, raced >>

\* The error label of SendOemRequestHookRaw: FreeToken, then ClearReqHistory.
CallerFreeLoad ==
  /\ caller.pc = "free"
  /\ caller' = [caller EXCEPT !.pc = "freestore", !.pool = token_pool]
  /\ UNCHANGED << token_pool, history, req_handlers, b_del_handler, reader, link, rild, sent, outcome, raced >>

CallerFreeStore ==
  /\ caller.pc = "freestore"
  /\ token_pool' = FreeToken(caller.pool, caller.token)
  /\ Race("update", token_pool # caller.pool)
  /\ caller' = [caller EXCEPT !.pc = "clear", !.pool = {}]
  /\ UNCHANGED << history, req_handlers, b_del_handler, reader, link, rild, sent, outcome >>

\* ClearReqHistory(t) on the history.
ClearReqHistory_Slip(t) == UNCHANGED history
ClearReqHistory(t) ==
  \/ \E i \in Slots : FirstWith(i, t) /\ history' = [history EXCEPT ![i] = EmptyRecord]
  \/ (\A i \in Slots : history[i].token # t) /\ UNCHANGED history

CallerClear ==
  /\ caller.pc = "clear"
  /\ ClearReqHistory(caller.token)
  /\ caller' = [caller EXCEPT !.pc = "failed"]
  /\ UNCHANGED << token_pool, req_handlers, b_del_handler, reader, link, rild, sent, outcome, raced >>

\* The Set* calls and GetMute unregister again on any error; InvokeOem... does not.
CallFailed ==
  /\ caller.pc = "failed"
  /\ req_handlers' = IF caller.id = OemRaw THEN req_handlers ELSE Unregistered(caller.id)
  /\ caller' = CallerIdle
  /\ UNCHANGED << token_pool, history, b_del_handler, reader, link, rild, sent, outcome, raced >>

-----------------------------------------------------------------------------
(* The reader thread: processRxBuffer and processSolicited. *)

\* A response arrives, in any order.  IsValidToken rejects one whose bit is
\* clear; an error response skips the handler.
Receive(r, err) ==
  /\ reader.pc = "idle"
  /\ link
  /\ rild' = rild \ {r}
  /\ \/ /\ r.token \notin token_pool
        /\ outcome' = [outcome EXCEPT ![r.n].state = "rejected"]
        /\ UNCHANGED reader
     \/ /\ r.token \in token_pool
        /\ reader' = [ReaderIdle EXCEPT !.pc = IF err THEN "free" ELSE "find",
                                        !.n = r.n, !.token = r.token]
        /\ outcome' = IF err THEN [outcome EXCEPT ![r.n].state = "error"] ELSE outcome
  /\ UNCHANGED << token_pool, history, req_handlers, b_del_handler, caller, link, sent, raced >>

\* FindReqHandler returns NULL.
Unhandled_Slip == FALSE
Unhandled ==
  /\ \A i \in Slots, j \in HSlots : ~ Found(reader.token, i, j)
  /\ reader' = [reader EXCEPT !.pc = "free"]
  /\ outcome' = [outcome EXCEPT ![reader.n].state = "nohandler"]

\* FindReqHandler and the call of the handler it returns.
Dispatch ==
  /\ reader.pc = "find"
  /\ \/ \E i \in Slots, j \in HSlots :
          /\ Found(reader.token, i, j)
          /\ reader' = [reader EXCEPT !.pc = "del", !.id = req_handlers[j].id]
          /\ outcome' = [outcome EXCEPT ![reader.n] =
                            [@ EXCEPT !.state = "served", !.as = req_handlers[j].id]]
     \/ Unhandled
  /\ UNCHANGED << token_pool, history, req_handlers, b_del_handler, caller, link, rild, sent, raced >>

\* After the handler: the flag of GetMute is read and cleared, and whichever id was
\* found loses its handler.
TestDelete ==
  /\ reader.pc = "del"
  /\ reader' = [reader EXCEPT !.pc = IF b_del_handler THEN "reset" ELSE "free"]
  /\ UNCHANGED << token_pool, history, req_handlers, b_del_handler, caller, link, rild, sent, outcome, raced >>

ResetDelete ==
  /\ reader.pc = "reset"
  /\ b_del_handler' = FALSE
  /\ reader' = [reader EXCEPT !.pc = "drop"]
  /\ UNCHANGED << token_pool, history, req_handlers, caller, link, rild, sent, outcome, raced >>

DeleteHandler ==
  /\ reader.pc = "drop"
  /\ req_handlers' = Unregistered(reader.id)
  /\ reader' = [reader EXCEPT !.pc = "free"]
  /\ UNCHANGED << token_pool, history, b_del_handler, caller, link, rild, sent, outcome, raced >>

\* The error label of processSolicited: FreeToken, then ClearReqHistory.
ReaderFreeLoad ==
  /\ reader.pc = "free"
  /\ reader' = [reader EXCEPT !.pc = "freestore", !.pool = token_pool]
  /\ UNCHANGED << token_pool, history, req_handlers, b_del_handler, caller, link, rild, sent, outcome, raced >>

ReaderFreeStore ==
  /\ reader.pc = "freestore"
  /\ token_pool' = FreeToken(reader.pool, reader.token)
  /\ Race("update", token_pool # reader.pool)
  /\ reader' = [reader EXCEPT !.pc = "clear", !.pool = {}]
  /\ UNCHANGED << history, req_handlers, b_del_handler, caller, link, rild, sent, outcome >>

ReaderClear ==
  /\ reader.pc = "clear"
  /\ ClearReqHistory(reader.token)
  /\ reader' = ReaderIdle
  /\ UNCHANGED << token_pool, req_handlers, b_del_handler, caller, link, rild, sent, outcome, raced >>

-----------------------------------------------------------------------------
Init ==
  /\ token_pool = {}
  /\ history = [i \in Slots |-> EmptyRecord]
  /\ req_handlers = [j \in HSlots |-> EmptyHandler]
  /\ b_del_handler = FALSE
  /\ caller = CallerIdle
  /\ reader = ReaderIdle
  /\ link = TRUE
  /\ rild = {}
  /\ sent = 0
  /\ outcome = [n \in Requests |-> Unsent]
  /\ raced = {}

CallerStep == \/ \E h \in Handlers \cup {NoHandler} : GetMuteRegisters(h)
              \/ AllocateTokenTest \/ AllocateTokenScan \/ AllocateTokenLoad
              \/ AllocateTokenStore \/ RecordReqHistory
              \/ WriteRequest \/ WriteFails
              \/ CallerFreeLoad \/ CallerFreeStore \/ CallerClear \/ CallFailed

ReaderStep == \/ \E r \in rild, err \in BOOLEAN : Receive(r, err)
              \/ Dispatch \/ TestDelete \/ ResetDelete \/ DeleteHandler
              \/ ReaderFreeLoad \/ ReaderFreeStore \/ ReaderClear

Call == \/ \E id \in Ids, h \in Handlers \cup {NoHandler} : RegisterRequestCompleteHandler(id, h)
        \/ \E id \in SetIds : SetCall(id)
        \/ GetMute \/ InvokeOemRequestHookRaw

Next == Call \/ CallerStep \/ ReaderStep

Spec == Init /\ [][Next]_vars

\* A thread that has something to do runs, and RILD answers what it has read.
FairSpec == Spec /\ WF_vars(CallerStep) /\ WF_vars(ReaderStep)

-----------------------------------------------------------------------------
CallerPlaces == {"idle", "register", "alloc", "scan", "set", "store", "record", "write",
                 "free", "freestore", "clear", "failed"}
ReaderPlaces == {"idle", "find", "del", "reset", "drop", "free", "freestore", "clear"}

TypeOK ==
  /\ token_pool \subseteq Tokens
  /\ history \in [Slots -> [token : Tokens \cup {NoToken}, id : Ids \cup {NoId}]]
  /\ req_handlers \in [HSlots -> [id : Ids \cup {NoId}, handler : Handlers \cup {NoHandler}]]
  /\ b_del_handler \in BOOLEAN
  /\ caller \in [pc : CallerPlaces, id : Ids \cup {NoId}, token : Tokens \cup {NoToken},
                 pool : SUBSET Tokens]
  /\ reader \in [pc : ReaderPlaces, n : Nat, token : Tokens \cup {NoToken},
                 id : Ids \cup {NoId}, pool : SUBSET Tokens]
  /\ link \in BOOLEAN
  /\ rild \subseteq [n : Requests, token : Tokens, id : Ids]
  /\ sent \in 0 .. MaxRequests
  /\ outcome \in [Requests -> [state : States, id : Ids \cup {NoId}, as : Ids \cup {NoId}]]
  /\ raced \subseteq {"update", "reuse"}

\* The tokens on the way and those a thread has in hand with their bit set.
WireTokens == {r.token : r \in rild}
CallerHolds == IF caller.pc \in {"record", "write", "free", "freestore"} THEN {caller.token} ELSE {}
ReaderHolds == IF reader.pc \in {"find", "del", "reset", "drop", "free", "freestore"}
               THEN {reader.token} ELSE {}

\* A response is handed to the handler of the request it answers: the id
\* FindReqHandler finds for the token is the id the request was sent with.
OwnHandler == \A n \in Requests : outcome[n].state = "served" => outcome[n].as = outcome[n].id

\* Overlapping calls and answers misroute only through one of the two races: while no
\* store of token_pool has undone another and no token has been taken before its record
\* was cleared, each response goes to the handler of its own request.
RoutedRight == raced = {} => OwnHandler

\* No response to a request that was sent is turned away as carrying an
\* invalid token.
NoneRejected == \A n \in Requests : outcome[n].state # "rejected"

\* A response goes unhandled only if its own id has no handler at that moment.
HandlerFound ==
  [][ \A n \in Requests :
        raced = {} /\ outcome'[n].state = "nohandler" /\ outcome[n].state # "nohandler"
          => ~ HasHandler(outcome[n].id) ]_vars

\* A call meets a full pool only while every token belongs to a request RILD has to
\* answer or the reader is answering, and one that does not finds a clear bit, whatever
\* the reader frees while it looks.
AgainOnlyWhenFull ==
  /\ caller.pc = "alloc" /\ token_pool = Tokens => Tokens \subseteq WireTokens \cup ReaderHolds
  /\ caller.pc = "scan" => \E t \in Tokens : t >= caller.token /\ t \notin token_pool

\* A caller told RIL_CLIENT_ERR_AGAIN can succeed by retrying: a full pool waits
\* for some answer.  (Tokens may leak, but never the last one.)
RetryCanSucceed ==
  caller.pc = "idle" /\ reader.pc = "idle" /\ token_pool = Tokens => rild # {}

\* Nothing is left behind: with no call and no response in hand, the history
\* holds one record for each unanswered request and no other.
NothingLeftBehind ==
  caller.pc = "idle" /\ reader.pc = "idle" =>
    /\ token_pool = WireTokens
    /\ {history[i] : i \in Slots} \ {EmptyRecord} = {[token |-> r.token, id |-> r.id] : r \in rild}
    /\ \A i, j \in Slots : i # j /\ history[i] # EmptyRecord => history[i] # history[j]

\* While neither race has happened, the pool of tokens and the history are sound however
\* the two threads interleave: no answer is rejected, no caller is turned away without
\* need, and nothing is left behind.
PoolsSound == raced = {} => NoneRejected /\ AgainOnlyWhenFull /\ NothingLeftBehind

\* Refuted.  A registered handler goes only by a call that unregisters or replaces it,
\* or when the response of its own GetMute has been delivered.
HandlerKept ==
  [][ \A id \in Ids \ {GetMuteId} :
        HasHandler(id) /\ ~ HasHandler(id)' => reader.pc # "drop" ]_vars

\* Refuted.  Once every request has been answered the pool is empty again, whatever the
\* threads did to each other.
TokensReturned == caller.pc = "idle" /\ reader.pc = "idle" /\ rild = {} => token_pool = {}

\* Every request RILD has read is answered and done with, unless a failed write
\* has closed the socket.
EveryRequestResolved ==
  \A n \in Requests : outcome[n].state = "pending" ~> outcome[n].state # "pending" \/ ~ link

\* Every call returns: the caller is never stuck in the library.
CallReturns == caller.pc # "idle" ~> caller.pc = "idle"

\* The abstract promise of the library: in every interleaving a request is answered at
\* most once, and under its own id while neither race has happened.
Promise == INSTANCE RilCalls WITH call <- outcome, up <- link, sound <- raced = {}
KeepsPromise == Promise!Spec

-----------------------------------------------------------------------------
(* The inductive strengthening: what always holds, and what holds while      *)
(* neither race has happened.                                                *)

\* What a call holds once it has started.
CallerReady ==
  /\ caller.pc # "idle" => caller.id \in Ids
  /\ caller.pc \notin {"idle", "failed"} => sent < MaxRequests
  /\ caller.pc \notin {"idle", "register", "alloc", "failed"} => caller.token \in Tokens

\* The history variable follows the requests: each is on the wire, with the reader, or
\* done with.
OutcomeExact ==
  /\ \A r, q \in rild : r.n = q.n => r = q
  /\ \A n \in Requests : n > sent => outcome[n] = Unsent
  /\ \A r \in rild : r.n <= sent /\ outcome[r.n].state = "pending" /\ outcome[r.n].id = r.id
  /\ \A n \in Requests : outcome[n].state = "pending" => outcome[n].as = NoId
  /\ reader.pc # "idle" => /\ reader.n \in Requests /\ reader.n <= sent
                           /\ reader.token \in Tokens /\ outcome[reader.n].id \in Ids
                           /\ \A r \in rild : r.n # reader.n
  /\ reader.pc = "find" => outcome[reader.n].state = "pending"

\* A bit is set for each token in use and no other, and the bit a call has chosen is
\* clear until it sets it.
PoolExact ==
  /\ token_pool = WireTokens \cup CallerHolds \cup ReaderHolds
  /\ caller.pc = "scan" => \E t \in Tokens : t >= caller.token /\ t \notin token_pool
  /\ caller.pc \in {"set", "store"} => caller.token \notin token_pool

\* A token is in one place.
TokensApart ==
  /\ \A r, q \in rild : r.token = q.token => r = q
  /\ caller.pc \in {"set", "store", "record", "write", "free", "freestore", "clear"} =>
       caller.token \notin WireTokens
  /\ caller.pc = "record" => caller.token \notin ReaderHolds
  /\ caller.pc \in {"write", "free", "freestore", "clear"} /\ reader.pc # "idle" =>
       caller.token # reader.token
  /\ reader.pc # "idle" => reader.token \notin WireTokens

Recorded(t, id) == \E i \in Slots : history[i] = [token |-> t, id |-> id]

\* The history has one record for each request that is out and nothing else.
HistoryExact ==
  /\ \A i, j \in Slots : history[i].token = history[j].token /\ history[i].token # NoToken => i = j
  /\ \A r \in rild : Recorded(r.token, r.id)
  /\ caller.pc = "write" => Recorded(caller.token, caller.id)
  /\ reader.pc # "idle" => Recorded(reader.token, outcome[reader.n].id)
  /\ \A i \in Slots :
       \/ history[i] = EmptyRecord
       \/ history[i].token \in WireTokens
       \/ caller.pc \in {"write", "free", "freestore", "clear"} /\ history[i].token = caller.token
       \/ reader.pc # "idle" /\ history[i].token = reader.token

\* A record has the id of a request.
RecordsNamed == \A i \in Slots : history[i].token # NoToken => history[i].id \in Ids

Always == TypeOK /\ CallerReady /\ OutcomeExact /\ RecordsNamed
Unraced == PoolExact /\ TokensApart /\ HistoryExact /\ OwnHandler /\ NoneRejected

IInv == Always /\ (raced = {} => Unraced)
=============================================================================
