-------------------------- MODULE SecRilConnection --------------------------
(***************************************************************************)
(* The connection of the RIL client library to RILD                        *)
(* (src/ril/libsecril-client/secril-client.cpp): Connect_RILD,             *)
(* Disconnect_RILD, CloseClient_RILD, the close() of a failed write and    *)
(* the reader thread RxReaderFunc, which share sock, b_connect, p_rs and   *)
(* the command pipe without a lock.                                        *)
(*                                                                         *)
(* The caller is libaudio: it connects only when isConnected_RILD says no  *)
(* (AudioHardware::connectRILDIfRequired).  Connections are numbered; the  *)
(* socket, the pipe, the record stream and the reader of connection k are  *)
(* all called k.  A descriptor number the kernel hands out again is not    *)
(* modelled.  After free() of the client nothing more is modelled.         *)
(***************************************************************************)
EXTENDS Naturals

CONSTANT MaxConnects  \* bound: sockets a run opens

ASSUME ConnectBound == MaxConnects \in Nat \ {0}

Conns == 1 .. MaxConnects
None == 0               \* sock = -1, a null p_rs, no thread

VARIABLES
  sock,        \* client_prv->sock
  b_connect,   \* client_prv->b_connect
  p_rs,        \* client_prv->p_rs
  pipefd,      \* client_prv->pipefd
  tid_reader,  \* client_prv->tid_reader
  opened,      \* sockets opened so far
  sockOpen,    \* sockets this process has open
  pipeOpen,    \* pipes this process has open
  pipeData,    \* pipes that hold the "close" command
  streams,     \* record streams allocated and not freed
  hungup,      \* sockets whose other end RILD has closed
  caller,      \* [pc, closing]
  task,        \* Conns -> where reader k is
  ready,       \* Conns -> what select() returned to reader k
  joined,      \* threads pthread_join has reaped
  freed,       \* CloseClient_RILD has freed the client
  overtaken,   \* history: readers that were in their loop when a new socket was connected
  robbed       \* history: record streams that the reader of another connection freed

conn == << sock, b_connect, p_rs, pipefd, tid_reader >>
kernel == << sockOpen, pipeOpen, pipeData, hungup >>
threads == << task, ready, joined >>
history == << overtaken, robbed >>
vars == << conn, kernel, threads, opened, streams, caller, freed, history >>

At(pc) == ~ freed /\ caller.pc = pc
GoTo(pc) == caller' = [caller EXCEPT !.pc = pc]

\* Reader k goes by the client's socket, pipe and flag.
Reading(k) == task[k] \in {"top", "select", "read", "command", "close", "notify"}

\* It is inside its while loop, of which what follows b_connect = 0 is a part: there it
\* frees the record stream and calls the error callback.
InLoop(k) == Reading(k) \/ task[k] \in {"free", "callback"}

-----------------------------------------------------------------------------
(* The caller. *)

\* Definitions named X_Slip are X with a plausible mistake; no action uses them.

\* libaudio asks isConnected_RILD before it connects.
MayConnect_Slip == TRUE
MayConnect == ~ b_connect

\* connectRILDIfRequired and the first step of Connect_RILD: the socket.
Connect ==
  /\ At("idle")
  /\ MayConnect
  /\ opened < MaxConnects
  /\ \/ /\ sock' = opened + 1
        /\ opened' = opened + 1
        /\ sockOpen' = sockOpen \cup {opened + 1}
        /\ GoTo("flag")
        /\ overtaken' = overtaken \cup {k \in Conns : InLoop(k)}
     \/ /\ sock' = None
        /\ UNCHANGED << opened, sockOpen, caller, overtaken >>
  /\ UNCHANGED << b_connect, p_rs, pipefd, tid_reader, pipeOpen, pipeData, hungup, threads, streams, freed, robbed >>

\* b_connect = 1, then fcntl(O_NONBLOCK), whose failure closes the socket.
ConnectFlag ==
  /\ At("flag")
  /\ b_connect' = TRUE
  /\ \/ GoTo("stream") /\ UNCHANGED sockOpen
     \/ GoTo("idle") /\ sockOpen' = sockOpen \ {sock}
  /\ UNCHANGED << sock, p_rs, pipefd, tid_reader, pipeOpen, pipeData, hungup, threads, opened, streams, freed, history >>

\* record_stream_new, then pipe().
ConnectPipe ==
  /\ At("stream")
  /\ p_rs' = sock
  /\ streams' = streams \cup {sock}
  /\ \/ /\ pipefd' = sock
        /\ pipeOpen' = pipeOpen \cup {sock}
        /\ GoTo("thread")
        /\ UNCHANGED sockOpen
     \/ /\ sockOpen' = sockOpen \ {sock}
        /\ GoTo("idle")
        /\ UNCHANGED << pipefd, pipeOpen >>
  /\ UNCHANGED << sock, b_connect, tid_reader, pipeData, hungup, threads, opened, freed, history >>

\* fcntl on the pipe, then pthread_create; a failure of the latter clears the
\* whole client.
ConnectThread ==
  /\ At("thread")
  /\ GoTo("idle")
  /\ \/ /\ tid_reader' = sock
        /\ task' = [task EXCEPT ![sock] = "top"]
        /\ UNCHANGED << sock, b_connect, p_rs, pipefd, sockOpen, pipeOpen >>
     \/ /\ sockOpen' = sockOpen \ {sock}
        /\ pipeOpen' = pipeOpen \ {pipefd}
        /\ \/ UNCHANGED << sock, b_connect, p_rs, pipefd, tid_reader >>
           \/ /\ sock' = None /\ b_connect' = FALSE
              /\ p_rs' = None /\ pipefd' = None /\ tid_reader' = None
        /\ UNCHANGED task
  /\ UNCHANGED << pipeData, hungup, ready, joined, opened, streams, freed, history >>

\* A Set* call whose blockingWrite fails: the descriptor is closed, sock and
\* b_connect stay as they are.
WriteFails ==
  /\ At("idle")
  /\ sock # None
  /\ sockOpen' = sockOpen \ {sock}
  /\ UNCHANGED << conn, pipeOpen, pipeData, hungup, threads, opened, streams, caller, freed, history >>

\* The "close" command is written to the pipe, if it is open.
CommandSent_Slip == pipeData
CommandSent == pipeData \cup (pipeOpen \cap {pipefd})

\* Disconnect_RILD, by itself or from CloseClient_RILD.
Disconnect(closing) ==
  /\ At("idle")
  /\ \/ /\ sock = None
        /\ caller' = [pc |-> IF closing THEN "release" ELSE "idle", closing |-> closing]
        /\ UNCHANGED pipeData
     \/ /\ sock # None
        /\ pipeData' = CommandSent
        /\ caller' = [pc |-> "unflag", closing |-> closing]
  /\ UNCHANGED << conn, sockOpen, pipeOpen, hungup, threads, opened, streams, freed, history >>

DisconnectFlag ==
  /\ At("unflag")
  /\ b_connect' = FALSE
  /\ GoTo("join")
  /\ UNCHANGED << sock, p_rs, pipefd, tid_reader, kernel, threads, opened, streams, freed, history >>

Reaped == {tid_reader} \ {None}

\* pthread_join waits for the reader; joining no thread, or one that has been
\* joined before, is undefined and taken to return.
Join ==
  /\ At("join")
  /\ tid_reader \in Conns \ joined => task[tid_reader] = "exited"
  /\ joined' = joined \cup Reaped
  /\ GoTo(IF caller.closing THEN "release" ELSE "idle")
  /\ UNCHANGED << conn, kernel, task, ready, opened, streams, freed, history >>

\* free() of the client at the end of CloseClient_RILD.
Release ==
  /\ At("release")
  /\ freed' = TRUE
  /\ GoTo("closed")
  /\ UNCHANGED << conn, kernel, threads, opened, streams, history >>

-----------------------------------------------------------------------------
(* The reader thread k. *)

TaskAt(k, pc) == ~ freed /\ task[k] = pc
TaskTo(k, pc) == task' = [task EXCEPT ![k] = pc]

Loop(k) ==
  /\ TaskAt(k, "top")
  /\ TaskTo(k, IF b_connect THEN "select" ELSE "exited")
  /\ UNCHANGED << conn, kernel, ready, joined, opened, streams, caller, freed, history >>

\* select() on the socket and the pipe: it fails on a closed descriptor, returns
\* with RILD's data or end of stream, with the command, or with both.  One that
\* was waiting when a write closed the socket goes on waiting for it.
Select(k, data) ==
  /\ TaskAt(k, "select")
  /\ \/ /\ sock \notin sockOpen \/ pipefd \notin pipeOpen
        /\ TaskTo(k, "top")
        /\ UNCHANGED ready
     \/ /\ sock # None /\ pipefd \in pipeOpen
        /\ LET sockReady == data \/ sock \in hungup
               pipeReady == pipefd \in pipeData
           IN /\ sockReady \/ pipeReady
              /\ ready' = [ready EXCEPT ![k] = pipeReady]
              /\ TaskTo(k, IF sockReady THEN "read" ELSE "command")
  /\ UNCHANGED << conn, kernel, joined, opened, streams, caller, freed, history >>

EndOfStream_Slip == sock \notin sockOpen
EndOfStream == sock \in hungup \/ sock \notin sockOpen

\* Read records until EAGAIN, or until the end of stream or a fatal error.
ReadSock(k) ==
  /\ TaskAt(k, "read")
  /\ TaskTo(k, IF EndOfStream THEN "close"
               ELSE IF ready[k] THEN "command" ELSE "top")
  /\ UNCHANGED << conn, kernel, ready, joined, opened, streams, caller, freed, history >>

CloseSock(k) ==
  /\ TaskAt(k, "close")
  /\ sockOpen' = sockOpen \ {sock}
  /\ sock' = None
  /\ TaskTo(k, IF sock = None THEN "free" ELSE "notify")
  /\ UNCHANGED << b_connect, p_rs, pipefd, tid_reader, pipeOpen, pipeData, hungup, ready, joined,
                  opened, streams, caller, freed, history >>

Unflag(k) ==
  /\ TaskAt(k, "notify")
  /\ b_connect' = FALSE
  /\ TaskTo(k, "free")
  /\ UNCHANGED << sock, p_rs, pipefd, tid_reader, kernel, ready, joined, opened, streams, caller, freed, history >>

\* record_stream_free(p_rs), of whatever p_rs points to now.
FreeStream(k) ==
  /\ TaskAt(k, "free")
  /\ streams' = streams \ {p_rs}
  /\ robbed' = robbed \cup ({p_rs} \ {k, None})
  /\ TaskTo(k, "callback")
  /\ UNCHANGED << conn, kernel, ready, joined, opened, caller, freed, overtaken >>

\* The error callback, if there is one, then the thread ends.
ErrorCallback(k) ==
  /\ TaskAt(k, "callback")
  /\ TaskTo(k, "exited")
  /\ UNCHANGED << conn, kernel, ready, joined, opened, streams, caller, freed, history >>

\* The "close" command of Disconnect_RILD.
Command(k) ==
  /\ TaskAt(k, "command")
  /\ TaskTo(k, "top")
  /\ sockOpen' = sockOpen \ {sock}
  /\ pipeOpen' = pipeOpen \ {pipefd}
  /\ sock' = None
  /\ b_connect' = FALSE
  /\ UNCHANGED << p_rs, pipefd, tid_reader, pipeData, hungup, ready, joined, opened, streams, caller, freed, history >>

-----------------------------------------------------------------------------
\* RILD closes its end.
HangUp ==
  /\ ~ freed
  /\ sock # None /\ sock \notin hungup
  /\ hungup' = hungup \cup {sock}
  /\ UNCHANGED << conn, sockOpen, pipeOpen, pipeData, threads, opened, streams, caller, freed, history >>

Init ==
  /\ sock = None /\ b_connect = FALSE /\ p_rs = None /\ pipefd = None /\ tid_reader = None
  /\ opened = 0
  /\ sockOpen = {} /\ pipeOpen = {} /\ pipeData = {} /\ hungup = {} /\ streams = {}
  /\ caller = [pc |-> "idle", closing |-> FALSE]
  /\ task = [k \in Conns |-> "none"]
  /\ ready = [k \in Conns |-> FALSE]
  /\ joined = {}
  /\ freed = FALSE
  /\ overtaken = {} /\ robbed = {}

CallerStep == ConnectFlag \/ ConnectPipe \/ ConnectThread \/ DisconnectFlag \/ Join \/ Release

Reader(k) == \/ Loop(k) \/ Select(k, FALSE) \/ ReadSock(k) \/ Command(k)
             \/ CloseSock(k) \/ Unflag(k) \/ FreeStream(k) \/ ErrorCallback(k)

Next == \/ Connect \/ WriteFails \/ \E closing \in BOOLEAN : Disconnect(closing)
        \/ CallerStep
        \/ \E k \in Conns : Reader(k) \/ Select(k, TRUE)
        \/ HangUp

Spec == Init /\ [][Next]_vars

\* A runnable thread runs; nobody has to call, to hang up or to send.
FairSpec == Spec /\ WF_vars(CallerStep) /\ \A k \in Conns : WF_vars(Reader(k))

-----------------------------------------------------------------------------
CallerPCs == {"idle", "flag", "stream", "thread", "unflag", "join", "release", "closed"}
TaskPCs == {"none", "top", "select", "read", "command", "close", "notify", "free", "callback", "exited"}

TypeOK ==
  /\ sock \in Conns \cup {None} /\ p_rs \in Conns \cup {None}
  /\ pipefd \in Conns \cup {None} /\ tid_reader \in Conns \cup {None}
  /\ b_connect \in BOOLEAN /\ freed \in BOOLEAN
  /\ opened \in 0 .. MaxConnects
  /\ sockOpen \subseteq Conns /\ pipeOpen \subseteq Conns /\ pipeData \subseteq Conns
  /\ streams \subseteq Conns /\ hungup \subseteq Conns /\ joined \subseteq Conns
  /\ overtaken \subseteq Conns /\ robbed \subseteq Conns
  /\ caller \in [pc : CallerPCs, closing : BOOLEAN]
  /\ task \in [Conns -> TaskPCs]
  /\ ready \in [Conns -> BOOLEAN]

\* The client belongs to one reader: what a reader finds in it from the top of its loop
\* to the end (socket, pipe, thread, record stream) is its own connection's, no other
\* reader is in its loop, and the stream is there until it frees it itself.  The excepted
\* are named by the history: a reader is overtaken when a call connects again after its
\* b_connect = 0, so then only its free and its callback are left of it, and the stream
\* it frees may be the new connection's, which is robbed.
Current(k) == InLoop(k) /\ k \notin overtaken
ReaderOwnsConnection ==
  /\ \A k \in Conns : Current(k) =>
       /\ sock \in {k, None} /\ pipefd = k /\ tid_reader = k /\ p_rs = k
       /\ task[k] # "callback" /\ k \notin robbed => k \in streams
       /\ \A j \in Conns \ {k} : ~ Current(j)
  /\ \A k \in overtaken : task[k] \in {"free", "callback", "exited"}
  /\ robbed # {} => overtaken # {}

\* The connection is sound: its variables have their types and one reader owns it.
ConnectionSound == TypeOK /\ ReaderOwnsConnection

\* Disconnect_RILD and CloseClient_RILD return: the reader they join stops.
DisconnectReturns == caller.pc \in {"unflag", "join"} ~> caller.pc \in {"idle", "closed"}

\* When RILD hangs up on a connection with a reader, isConnected_RILD comes to
\* say so, unless a failed write has closed the socket first.
HangUpNoticed ==
  \A k \in Conns :
    (InLoop(k) /\ sock = k /\ k \in hungup) ~> (~ b_connect \/ k \notin sockOpen \/ freed)

\* Refuted.  A record stream is freed by the reader it was made for, and no two readers
\* are in their loops.
StreamKept == \A k \in Conns : Reading(k) => k \in streams
OneInLoop == \A j, k \in Conns : InLoop(j) /\ InLoop(k) => j = k

\* Refuted.  "check whether RILD is connected": a client whose socket is closed does not
\* say it is connected for ever.
ClosedNoticed ==
  (b_connect /\ sock \notin sockOpen /\ ~ freed) ~> (~ b_connect \/ sock \in sockOpen \/ freed)

\* Refuted.  "Disconnect connection to RIL deamon(socket close)": the socket is closed when
\* Disconnect_RILD has returned.
DisconnectClosesSocket ==
  [][ caller.pc = "join" /\ caller'.pc # "join" => sockOpen' = {} ]_vars

\* Refuted.  "Stop RILD multi-client": the reader has ended when the client is freed.
ReaderGoneWhenFreed == freed => \A k \in Conns : task[k] \in {"none", "exited"}
=============================================================================
