------------------------------ MODULE RilCalls ------------------------------
(***************************************************************************)
(* What the RIL client promises its caller, without tokens, histories or   *)
(* threads: a request that was accepted is answered at most once, and its  *)
(* answer is delivered under the id the request was sent with              *)
(* (src/ril/libsecril-client/secril-client.h, the handler registration).   *)
(* The second half is kept while the client is sound; from the first race  *)
(* of its two threads on an answer may be delivered under another id or be *)
(* turned away.                                                            *)
(***************************************************************************)
CONSTANTS Ids, NoId, Requests

VARIABLES call,  \* Requests -> [state, id, as]
          up,    \* the connection has not been closed
          sound  \* the threads have not raced

Unsent == [state |-> "unused", id |-> NoId, as |-> NoId]

Init == call = [n \in Requests |-> Unsent] /\ up = TRUE /\ sound = TRUE

Accept(n, id) ==
  /\ up
  /\ call[n] = Unsent
  /\ call' = [call EXCEPT ![n] = [state |-> "pending", id |-> id, as |-> NoId]]
  /\ UNCHANGED << up, sound >>

\* Delivered to the handler of the id the request was sent with.
Serve(n) ==
  /\ call[n].state = "pending"
  /\ call' = [call EXCEPT ![n] = [@ EXCEPT !.state = "served", !.as = call[n].id]]
  /\ UNCHANGED << up, sound >>

\* Answered with nobody to deliver it to, or answered with an error.
Finish(n, how) ==
  /\ call[n].state = "pending"
  /\ call' = [call EXCEPT ![n] = [@ EXCEPT !.state = how]]
  /\ UNCHANGED << up, sound >>

\* Only once the threads have raced: delivered as the answer of another request, or
\* turned away.
Misdeliver(n, id) ==
  /\ ~ sound /\ call[n].state = "pending"
  /\ call' = [call EXCEPT ![n] = [@ EXCEPT !.state = "served", !.as = id]]
  /\ UNCHANGED << up, sound >>

Reject(n) ==
  /\ ~ sound /\ call[n].state = "pending"
  /\ call' = [call EXCEPT ![n] = [@ EXCEPT !.state = "rejected"]]
  /\ UNCHANGED << up, sound >>

Lost == up' = FALSE /\ UNCHANGED << call, sound >>

Race == sound' = FALSE /\ UNCHANGED << call, up >>

Next == \/ \E n \in Requests, id \in Ids : Accept(n, id)
        \/ \E n \in Requests : Serve(n)
        \/ \E n \in Requests, how \in {"nohandler", "error"} : Finish(n, how)
        \/ \E n \in Requests : Reject(n) \/ \E id \in Ids : Misdeliver(n, id)
        \/ Lost \/ Race

Spec == Init /\ [][Next]_<< call, up, sound >>
=============================================================================
