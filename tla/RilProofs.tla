------------------------------ MODULE RilProofs ------------------------------
(***************************************************************************)
(* Proofs about the connection of the RIL client and about the RIL shim.   *)
(*                                                                         *)
(* SecRilConnection: no reconnection changes the client under a reader     *)
(* that still reads, for any number of connections, hang-ups, failed       *)
(* writes and disconnections; one that only has its record stream to free  *)
(* and its callback to make can be overtaken, and only then is a stream    *)
(* freed by another connection's reader.                                   *)
(*                                                                         *)
(* RilShim: requests are handed over one to one, no response in an old     *)
(* layout gets through, the vendor gets its own arguments, and the waits   *)
(* of a library that was patched fit its clock, for any set of tokens,     *)
(* any vendor's library and lists of any length.                           *)
(***************************************************************************)
EXTENDS SecRilConnection, RilShim, SequenceTheorems, TLAPS

-----------------------------------------------------------------------------
(* The connection.                                                         *)

NoReader == \A k \in Conns : ~ Current(k)

\* Connect_RILD runs without a reader, and works on the socket it has opened.
Connecting ==
  caller.pc \in {"flag", "stream", "thread"} =>
    /\ NoReader
    /\ sock = opened /\ opened \in Conns
    /\ caller.pc # "flag" => b_connect
    /\ caller.pc = "thread" => /\ pipefd = sock /\ p_rs = sock
                               /\ sock \notin robbed => sock \in streams

\* A connection whose reader has not been started: nobody has joined or told it.
Unstarted(k) == k > opened \/ (k = opened /\ caller.pc \in {"flag", "stream", "thread"})
Fresh ==
  /\ \A k \in Conns : Unstarted(k) =>
       /\ task[k] = "none" /\ k \notin joined /\ k \notin pipeData /\ k \notin overtaken
  /\ tid_reader # None => task[tid_reader] # "none"
  /\ pipefd <= opened

\* A reader in its loop is alone, has what is its own, and has not been joined.
Owned == ReaderOwnsConnection /\ \A k \in Conns : Current(k) => k \notin joined

\* It is told to close only by a Disconnect_RILD that waits for it, and only then, or
\* by its own doing, can the client say that it is not connected.
Told(k) ==
  /\ k \in pipeData => caller.pc \in {"unflag", "join"}
  /\ b_connect \/ caller.pc \in {"unflag", "join"}
  /\ task[k] \in {"read", "command"} /\ ready[k] => k \in pipeData
  /\ task[k] = "command" => ready[k]
Commanded == \A k \in Conns : Reading(k) => Told(k)

\* The inductive invariant.
IInv == TypeOK /\ Connecting /\ Fresh /\ Owned /\ Commanded

USE DEF None, InLoop, Reading, Current

\* There is no connection yet.
LEMMA InitInv == Init => IInv
<1> SUFFICES ASSUME Init PROVE IInv
  OBVIOUS
<1>1. TypeOK
  <2>1. opened \in 0 .. MaxConnects
    BY ConnectBound DEF Init
  <2>2. task \in [Conns -> TaskPCs] /\ ready \in [Conns -> BOOLEAN]
    BY DEF Init, TaskPCs
  <2>3. caller \in [pc : CallerPCs, closing : BOOLEAN]
    BY DEF Init, CallerPCs
  <2>4. QED
    BY <2>1, <2>2, <2>3 DEF Init, TypeOK
<1>2. NoReader
  BY DEF Init, NoReader
<1>3. Connecting /\ Owned /\ Commanded
  BY DEF Init, Connecting, Owned, ReaderOwnsConnection, Commanded
<1>4. Fresh
  BY DEF Init, Fresh
<1>5. QED
  BY <1>1, <1>3, <1>4 DEF IInv

\* While Connect_RILD runs, and when it begins, the client belongs to no reader; one that
\* it belongs to is the only one.
LEMMA Alone ==
  ASSUME IInv, NEW k \in Conns, Current(k)
  PROVE  /\ caller.pc \notin {"flag", "stream", "thread"}
         /\ sock \in {k, None} /\ pipefd = k /\ tid_reader = k /\ p_rs = k /\ k \notin joined
         /\ task[k] # "callback" /\ k \notin robbed => k \in streams
         /\ \A j \in Conns \ {k} : ~ Current(j) /\ ~ Reading(j)
         /\ Reading(k) => Told(k)
BY DEF IInv, Connecting, NoReader, Owned, ReaderOwnsConnection, Commanded

\* A reader that reads has not been overtaken.
LEMMA ReaderIsCurrent ==
  ASSUME IInv, NEW k \in Conns, Reading(k) PROVE Current(k)
BY DEF IInv, Owned, ReaderOwnsConnection

\* A client that belongs to no reader: it stays so while no reader begins, and who has been
\* overtaken stays in what is left of its loop.
LEMMA NobodysClient ==
  ASSUME IInv, NoReader, UNCHANGED << task, history >>
  PROVE  NoReader' /\ Owned' /\ Commanded'
<1>1. NoReader' /\ \A k \in Conns : ~ Reading(k)'
  BY DEF IInv, NoReader, Owned, ReaderOwnsConnection, history
<1>2. QED
  BY <1>1 DEF IInv, NoReader, Owned, ReaderOwnsConnection, Commanded, history

\* connectRILDIfRequired() finds no reader that reads, and overtakes one that is in the
\* rest of its loop.
LEMMA ConnectInv == ASSUME IInv, Connect PROVE IInv'
<1>1. \A k \in Conns : ~ Reading(k)
  BY DEF Connect, At, MayConnect, IInv, Commanded, Told
<1>2. /\ caller.pc = "idle" /\ UNCHANGED << b_connect, p_rs, pipefd, tid_reader, pipeOpen, pipeData, hungup,
                                          task, ready, joined, streams, freed, robbed >>
  BY DEF Connect, At, threads
<1>3. CASE /\ sock' = opened + 1 /\ opened' = opened + 1
           /\ sockOpen' = sockOpen \cup {opened + 1} /\ GoTo("flag")
           /\ overtaken' = overtaken \cup {k \in Conns : InLoop(k)}
  <2>1. opened' \in Conns
    BY <1>3, ConnectBound DEF Connect, IInv, TypeOK, Conns
  <2>2. TypeOK'
    BY <1>2, <1>3, <2>1 DEF GoTo, IInv, TypeOK, CallerPCs, Conns
  <2>3. NoReader' /\ \A k \in Conns : ~ Reading(k)'
    BY <1>1, <1>2, <1>3 DEF NoReader
  <2>4. Connecting'
    BY <1>3, <2>1, <2>3 DEF GoTo, Connecting
  <2>5. Fresh'
    <3>1. \A k \in Conns : Unstarted(k)' => Unstarted(k)
      BY <1>2, <1>3, <2>1 DEF IInv, TypeOK, Unstarted, Conns
    <3>2. \A k \in Conns : Unstarted(k) => ~ InLoop(k)
      BY DEF IInv, Fresh
    <3>3. pipefd' <= opened'
      BY <1>2, <1>3 DEF IInv, TypeOK, Fresh, Conns
    <3>4. QED
      BY <1>2, <1>3, <3>1, <3>2, <3>3 DEF IInv, Fresh
  <2>6. Owned'
    <3>1. \A k \in overtaken' : task'[k] \in {"free", "callback", "exited"}
      BY <1>1, <1>2, <1>3 DEF IInv, Owned, ReaderOwnsConnection
    <3>2. robbed' # {} => overtaken' # {}
      BY <1>2, <1>3 DEF IInv, Owned, ReaderOwnsConnection
    <3>3. QED
      BY <2>3, <3>1, <3>2 DEF Owned, ReaderOwnsConnection, NoReader
  <2>7. QED
    BY <2>2, <2>3, <2>4, <2>5, <2>6 DEF IInv, Commanded
<1>4. CASE sock' = None /\ UNCHANGED << opened, sockOpen, caller, overtaken >>
  <2>1. TypeOK'
    BY <1>2, <1>4 DEF IInv, TypeOK
  <2>2. Connecting' /\ Fresh'
    BY <1>2, <1>4 DEF IInv, Connecting, Fresh, Unstarted
  <2>3. Owned' /\ Commanded'
    BY <1>1, <1>2, <1>4 DEF IInv, Owned, ReaderOwnsConnection, Commanded
  <2>4. QED
    BY <2>1, <2>2, <2>3 DEF IInv
<1>5. QED
  BY <1>3, <1>4 DEF Connect

\* b_connect and fcntl().
LEMMA ConnectFlagInv == ASSUME IInv, ConnectFlag PROVE IInv'
<1>0. NoReader
  BY DEF ConnectFlag, At, history, IInv, Connecting
<1>1. TypeOK'
  BY DEF ConnectFlag, GoTo, threads, history, IInv, TypeOK, CallerPCs
<1>2. Connecting'
  BY DEF ConnectFlag, At, GoTo, threads, IInv, TypeOK, history, Connecting, NoReader
<1>3. Fresh'
  BY DEF ConnectFlag, At, threads, history, IInv, Fresh, Unstarted
<1>4. Owned'
  BY <1>0, NobodysClient DEF ConnectFlag, threads
<1>5. Commanded'
  BY <1>0, NobodysClient DEF ConnectFlag, threads
<1>6. QED
  BY <1>1, <1>2, <1>3, <1>4, <1>5 DEF IInv

\* The record stream and the pipe.
LEMMA ConnectPipeInv == ASSUME IInv, ConnectPipe PROVE IInv'
<1>0. NoReader
  BY DEF ConnectPipe, At, history, IInv, Connecting
<1>1. TypeOK'
  BY DEF ConnectPipe, At, GoTo, threads, IInv, TypeOK, history, Connecting, CallerPCs
<1>2. Connecting'
  BY DEF ConnectPipe, At, GoTo, threads, IInv, TypeOK, history, Connecting, NoReader
<1>3. Fresh'
  BY DEF ConnectPipe, At, threads, IInv, Fresh, Unstarted, history, Connecting, Conns
<1>4. Owned'
  BY <1>0, NobodysClient DEF ConnectPipe, threads
<1>5. Commanded'
  BY <1>0, NobodysClient DEF ConnectPipe, threads
<1>6. QED
  BY <1>1, <1>2, <1>3, <1>4, <1>5 DEF IInv

\* The reader begins, alone.
LEMMA ConnectThreadInv == ASSUME IInv, ConnectThread PROVE IInv'
<1>1. /\ NoReader /\ caller.pc = "thread" /\ caller' = [caller EXCEPT !.pc = "idle"]
      /\ sock = opened /\ sock \in Conns /\ b_connect /\ pipefd = sock
      /\ task[sock] = "none" /\ sock \notin joined /\ sock \notin pipeData /\ sock \notin overtaken
      /\ p_rs = sock /\ (sock \notin robbed => sock \in streams) /\ UNCHANGED << streams, history >>
  BY DEF ConnectThread, At, GoTo, IInv, Connecting, history, Fresh, Unstarted
<1>2. caller'.pc = "idle" /\ caller' \in [pc : CallerPCs, closing : BOOLEAN]
  BY <1>1 DEF IInv, history, TypeOK, CallerPCs
<1>3. CASE /\ tid_reader' = sock /\ task' = [task EXCEPT ![sock] = "top"]
           /\ UNCHANGED << sock, b_connect, p_rs, pipefd, sockOpen, pipeOpen >>
  <2>1. TypeOK'
    BY <1>2 DEF ConnectThread, history, IInv, TypeOK, TaskPCs
  <2>2. /\ task'[sock] = "top" /\ \A k \in Conns \ {sock} : task'[k] = task[k]
        /\ \A k \in Conns \ {sock} : ~ Current(k)' /\ ~ Reading(k)'
    BY <1>1, <1>3, ReaderIsCurrent DEF IInv, history, TypeOK, NoReader
  <2>3. Connecting' /\ Owned'
    <3>1. Connecting'
      BY <1>1 DEF Connecting
    <3>2. \A k \in overtaken' : task'[k] \in {"free", "callback", "exited"}
      BY <1>1, <1>3, <2>2 DEF IInv, TypeOK, history, Owned, ReaderOwnsConnection
    <3>3. robbed' # {} => overtaken' # {}
      BY <1>1 DEF IInv, history, Owned, ReaderOwnsConnection
    <3>4. \A k \in Conns : Current(k)' => k = sock
      BY <2>2
    <3>5. /\ sock' \in {sock, None} /\ pipefd' = sock /\ tid_reader' = sock /\ p_rs' = sock
          /\ sock \notin robbed' => sock \in streams'
          /\ sock \notin joined'
      BY <1>1, <1>3 DEF ConnectThread, history
    <3>6. Owned'
      BY <3>2, <3>3, <3>4, <3>5 DEF Owned, ReaderOwnsConnection
    <3>7. QED
      BY <3>1, <3>6
  <2>4. Fresh'
    BY <1>1, <1>3, <2>2 DEF ConnectThread, history, IInv, Fresh, Unstarted, Conns
  <2>5. Commanded'
    BY <1>1, <2>2 DEF ConnectThread, history, Commanded, Told
  <2>6. QED
    BY <2>1, <2>3, <2>4, <2>5 DEF IInv
<1>4. CASE /\ sockOpen' = sockOpen \ {sock} /\ pipeOpen' = pipeOpen \ {pipefd} /\ UNCHANGED task
           /\ \/ UNCHANGED << sock, b_connect, p_rs, pipefd, tid_reader >>
              \/ /\ sock' = None /\ b_connect' = FALSE
                 /\ p_rs' = None /\ pipefd' = None /\ tid_reader' = None
  <2>1. NoReader' /\ Owned' /\ Commanded'
    BY <1>1, <1>4, NobodysClient
  <2>2. TypeOK'
    BY <1>1, <1>2, <1>4 DEF ConnectThread, history, IInv, TypeOK
  <2>3. Fresh'
    <3>1. UNCHANGED << opened, task, joined, pipeData, overtaken >>
      BY <1>1, <1>4 DEF ConnectThread, history
    <3>2. \A k \in Conns : Unstarted(k)' => Unstarted(k)
      BY <1>2, <3>1 DEF Unstarted
    <3>3. (tid_reader' = tid_reader /\ pipefd' = pipefd) \/ (tid_reader' = None /\ pipefd' = None)
      BY <1>4
    <3>4. QED
      BY <3>1, <3>2, <3>3 DEF IInv, TypeOK, Fresh
  <2>4. Connecting' /\ Owned' /\ Commanded'
    BY <1>2, <2>1 DEF Connecting
  <2>5. QED
    BY <2>2, <2>3, <2>4 DEF IInv
<1>5. QED
  BY <1>3, <1>4 DEF ConnectThread

\* A failed write changes nothing the reader goes by.
LEMMA WriteFailsInv == ASSUME IInv, WriteFails PROVE IInv'
<1>1. TypeOK'
  BY DEF WriteFails, conn, threads, history, IInv, TypeOK
<1>2. Connecting'
  BY DEF WriteFails, conn, threads, history, IInv, Connecting, NoReader
<1>3. Fresh'
  BY DEF WriteFails, conn, threads, history, IInv, Fresh, Unstarted
<1>4. Owned'
  BY DEF WriteFails, conn, threads, history, IInv, Owned, ReaderOwnsConnection
<1>5. Commanded'
  BY DEF WriteFails, conn, threads, history, IInv, Commanded, Told
<1>6. QED
  BY <1>1, <1>2, <1>3, <1>4, <1>5 DEF IInv

\* Disconnect_RILD tells the reader.
LEMMA DisconnectInv == ASSUME IInv, NEW closing \in BOOLEAN, Disconnect(closing) PROVE IInv'
<1>1. TypeOK'
  <2>1. caller' \in [pc : CallerPCs, closing : BOOLEAN]
    BY DEF Disconnect, CallerPCs
  <2>2. pipeData' \subseteq Conns
    BY DEF Disconnect, CommandSent, history, IInv, TypeOK
  <2>3. QED
    BY <2>1, <2>2 DEF Disconnect, conn, threads, history, IInv, TypeOK
<1>2. Connecting'
  BY DEF Disconnect, history, Connecting
<1>3. Fresh'
  BY DEF Disconnect, CommandSent, conn, threads, IInv, TypeOK, history, Fresh, Unstarted, Conns
<1>4. Owned'
  BY DEF Disconnect, conn, threads, history, IInv, Owned, ReaderOwnsConnection
<1>5. Commanded'
  BY DEF Disconnect, At, conn, threads, history, IInv, Commanded, Told
<1>6. QED
  BY <1>1, <1>2, <1>3, <1>4, <1>5 DEF IInv

\* b_connect = 0.
LEMMA DisconnectFlagInv == ASSUME IInv, DisconnectFlag PROVE IInv'
<1>1. TypeOK'
  BY DEF DisconnectFlag, GoTo, kernel, threads, history, IInv, TypeOK, CallerPCs
<1>2. Connecting'
  BY DEF DisconnectFlag, GoTo, history, Connecting
<1>3. Fresh'
  BY DEF DisconnectFlag, GoTo, kernel, threads, history, IInv, Fresh, Unstarted
<1>4. Owned'
  BY DEF DisconnectFlag, threads, history, IInv, Owned, ReaderOwnsConnection
<1>5. Commanded'
  BY DEF DisconnectFlag, GoTo, kernel, threads, history, IInv, Commanded, Told
<1>6. QED
  BY <1>1, <1>2, <1>3, <1>4, <1>5 DEF IInv

\* Whoever has joined the reader finds none in its loop.
LEMMA JoinInv == ASSUME IInv, Join PROVE IInv'
<1>0. NoReader
  BY Alone, ReaderIsCurrent DEF Join, NoReader
<1>1. TypeOK'
  BY DEF Join, GoTo, Reaped, conn, kernel, history, IInv, TypeOK, CallerPCs
<1>2. Connecting'
  BY DEF Join, GoTo, history, Connecting
<1>3. Fresh'
  BY DEF Join, GoTo, Reaped, conn, kernel, history, IInv, Fresh, Unstarted
<1>4. Owned'
  BY <1>0, NobodysClient DEF Join
<1>5. Commanded'
  BY <1>0, NobodysClient DEF Join
<1>6. QED
  BY <1>1, <1>2, <1>3, <1>4, <1>5 DEF IInv

\* free() of the client ends it all.
LEMMA ReleaseInv == ASSUME IInv, Release PROVE IInv'
<1>1. TypeOK'
  BY DEF Release, GoTo, conn, kernel, threads, history, IInv, TypeOK, CallerPCs
<1>2. Connecting'
  BY DEF Release, GoTo, history, Connecting
<1>3. Fresh'
  BY DEF Release, GoTo, conn, kernel, threads, history, IInv, Fresh, Unstarted
<1>4. Owned'
  BY DEF Release, conn, threads, history, IInv, Owned, ReaderOwnsConnection
<1>5. Commanded'
  BY DEF Release, At, conn, kernel, threads, history, IInv, Commanded, Told
<1>6. QED
  BY <1>1, <1>2, <1>3, <1>4, <1>5 DEF IInv

\* The test at the top.
LEMMA LoopInv == ASSUME IInv, NEW k \in Conns, Loop(k) PROVE IInv'
<1>1. TypeOK'
  BY DEF Loop, TaskTo, conn, kernel, history, IInv, TypeOK, TaskPCs
<1>2. Connecting'
  BY Alone, ReaderIsCurrent DEF Loop, TaskAt, history, Connecting
<1>3. Fresh'
  BY DEF Loop, TaskAt, TaskTo, conn, kernel, history, IInv, Fresh, Unstarted
<1>4. Owned'
  BY Alone, ReaderIsCurrent DEF Loop, TaskAt, TaskTo, conn, history, IInv, TypeOK, TaskPCs, Owned, ReaderOwnsConnection
<1>5. Commanded'
  BY Alone, ReaderIsCurrent DEF Loop, TaskAt, TaskTo, conn, kernel, history, Commanded, Told
<1>6. QED
  BY <1>1, <1>2, <1>3, <1>4, <1>5 DEF IInv

\* Records are read.
LEMMA ReadSockInv == ASSUME IInv, NEW k \in Conns, ReadSock(k) PROVE IInv'
<1>1. TypeOK'
  BY DEF ReadSock, TaskTo, conn, kernel, history, IInv, TypeOK, TaskPCs
<1>2. Connecting'
  BY Alone, ReaderIsCurrent DEF ReadSock, TaskAt, history, Connecting
<1>3. Fresh'
  BY DEF ReadSock, TaskAt, TaskTo, conn, kernel, history, IInv, Fresh, Unstarted
<1>4. Owned'
  BY Alone, ReaderIsCurrent DEF ReadSock, TaskAt, TaskTo, conn, history, IInv, TypeOK, TaskPCs, Owned, ReaderOwnsConnection
<1>5. Commanded'
  BY Alone, ReaderIsCurrent DEF ReadSock, TaskAt, TaskTo, conn, kernel, history, Commanded, Told
<1>6. QED
  BY <1>1, <1>2, <1>3, <1>4, <1>5 DEF IInv

\* The end of the stream.
LEMMA CloseSockInv == ASSUME IInv, NEW k \in Conns, CloseSock(k) PROVE IInv'
<1>1. TypeOK'
  BY DEF CloseSock, TaskTo, history, IInv, TypeOK, TaskPCs
<1>2. Connecting'
  BY Alone, ReaderIsCurrent DEF CloseSock, TaskAt, history, Connecting
<1>3. Fresh'
  BY DEF CloseSock, TaskAt, TaskTo, history, IInv, Fresh, Unstarted
<1>4. Owned'
  BY Alone, ReaderIsCurrent DEF CloseSock, TaskAt, TaskTo, conn, history, IInv, TypeOK, TaskPCs, Owned, ReaderOwnsConnection
<1>5. Commanded'
  BY Alone, ReaderIsCurrent DEF CloseSock, TaskAt, TaskTo, history, Commanded, Told
<1>6. QED
  BY <1>1, <1>2, <1>3, <1>4, <1>5 DEF IInv

\* b_connect = 0, and out of the loop.
LEMMA UnflagInv == ASSUME IInv, NEW k \in Conns, Unflag(k) PROVE IInv'
<1>1. TypeOK'
  BY DEF Unflag, TaskTo, kernel, history, IInv, TypeOK, TaskPCs
<1>2. Connecting'
  BY Alone, ReaderIsCurrent DEF Unflag, TaskAt, history, Connecting
<1>3. Fresh'
  BY DEF Unflag, TaskAt, TaskTo, kernel, history, IInv, Fresh, Unstarted
<1>4. Owned'
  BY Alone, ReaderIsCurrent DEF Unflag, TaskAt, TaskTo, conn, history, IInv, TypeOK, TaskPCs, Owned, ReaderOwnsConnection
<1>5. Commanded'
  BY Alone, ReaderIsCurrent DEF Unflag, TaskAt, TaskTo, IInv, TypeOK, history, Commanded
<1>6. QED
  BY <1>1, <1>2, <1>3, <1>4, <1>5 DEF IInv

\* Out of the loop.
LEMMA FreeStreamInv == ASSUME IInv, NEW k \in Conns, FreeStream(k) PROVE IInv'
<1>0. /\ task[k] = "free" /\ ~ Unstarted(k)
      /\ streams' = streams \ {p_rs} /\ robbed' = robbed \cup ({p_rs} \ {k, None})
      /\ task' = [task EXCEPT ![k] = "callback"]
      /\ UNCHANGED << conn, kernel, ready, joined, opened, caller, freed, overtaken >>
  BY DEF FreeStream, TaskAt, TaskTo, IInv, Fresh
<1>1. TypeOK'
  BY <1>0 DEF conn, kernel, IInv, TypeOK, TaskPCs
<1>2. Connecting'
  <2>1. caller.pc = "thread" => sock # k /\ p_rs = sock /\ sock # None
    BY <1>0 DEF IInv, Connecting, Unstarted, Conns
  <2>2. caller.pc = "thread" => sock \in robbed'
    BY <1>0, <2>1
  <2>3. NoReader => NoReader'
    BY <1>0 DEF IInv, TypeOK, NoReader
  <2>4. QED
    BY <1>0, <2>1, <2>2, <2>3 DEF conn, IInv, Connecting
<1>3. Fresh'
  BY <1>0 DEF conn, kernel, IInv, TypeOK, Fresh, Unstarted
<1>4. Owned'
  <2>1. /\ \A j \in Conns \ {k} : task'[j] = task[j]
        /\ task'[k] = "callback"
    BY <1>0 DEF IInv, TypeOK
  <2>2. \A j \in Conns : Current(j)' => Current(j)
    BY <1>0, <2>1
  <2>3. \A j \in overtaken' : task'[j] \in {"free", "callback", "exited"}
    BY <1>0, <2>1 DEF IInv, TypeOK, Owned, ReaderOwnsConnection
  <2>4. robbed' # {} => overtaken' # {}
    <3>1. CASE k \in overtaken
      BY <1>0, <3>1
    <3>2. CASE k \notin overtaken
      BY <1>0, <3>2, Alone DEF IInv, Owned, ReaderOwnsConnection
    <3>3. QED
      BY <3>1, <3>2
  <2>5. ASSUME NEW j \in Conns, Current(j)'
        PROVE  /\ sock' \in {j, None} /\ pipefd' = j /\ tid_reader' = j /\ p_rs' = j /\ j \notin joined'
               /\ task'[j] # "callback" /\ j \notin robbed' => j \in streams'
               /\ \A i \in Conns \ {j} : ~ Current(i)'
    <3>1. Current(j)
      BY <2>2, <2>5
    <3>2. /\ sock' \in {j, None} /\ pipefd' = j /\ tid_reader' = j /\ p_rs' = j /\ j \notin joined'
          /\ \A i \in Conns \ {j} : ~ Current(i)'
      BY <1>0, <2>2, <3>1, Alone DEF conn
    <3>3. task'[j] # "callback" /\ j \notin robbed' => j \in streams'
      BY <1>0, <2>1, <3>1, Alone DEF Conns
    <3>4. QED
      BY <3>2, <3>3
  <2>6. QED
    BY <2>3, <2>4, <2>5 DEF Owned, ReaderOwnsConnection
<1>5. Commanded'
  BY <1>0 DEF conn, kernel, IInv, TypeOK, Commanded, Told
<1>6. QED
  BY <1>1, <1>2, <1>3, <1>4, <1>5 DEF IInv

\* The thread ends.
LEMMA ErrorCallbackInv == ASSUME IInv, NEW k \in Conns, ErrorCallback(k) PROVE IInv'
<1>1. TypeOK'
  BY DEF ErrorCallback, TaskTo, conn, kernel, history, IInv, TypeOK, TaskPCs
<1>2. Connecting'
  BY DEF ErrorCallback, TaskTo, conn, history, IInv, Connecting, NoReader
<1>3. Fresh'
  BY DEF ErrorCallback, TaskAt, TaskTo, conn, kernel, history, IInv, Fresh, Unstarted
<1>4. Owned'
  BY Alone, ReaderIsCurrent DEF ErrorCallback, TaskAt, TaskTo, conn, history, IInv, TypeOK, TaskPCs, Owned, ReaderOwnsConnection
<1>5. Commanded'
  BY Alone, ReaderIsCurrent DEF ErrorCallback, TaskTo, conn, kernel, history, Commanded, Told
<1>6. QED
  BY <1>1, <1>2, <1>3, <1>4, <1>5 DEF IInv

\* The command comes only while its sender waits.
LEMMA CommandInv == ASSUME IInv, NEW k \in Conns, Command(k) PROVE IInv'
<1>1. TypeOK'
  BY DEF Command, TaskTo, history, IInv, TypeOK, TaskPCs
<1>2. Connecting'
  BY Alone, ReaderIsCurrent DEF Command, TaskAt, history, Connecting
<1>3. Fresh'
  BY DEF Command, TaskAt, TaskTo, history, IInv, Fresh, Unstarted
<1>4. Owned'
  BY Alone, ReaderIsCurrent DEF Command, TaskAt, TaskTo, conn, history, IInv, TypeOK, TaskPCs, Owned, ReaderOwnsConnection
<1>5. Commanded'
  BY Alone, ReaderIsCurrent DEF Command, TaskAt, TaskTo, history, Commanded, Told
<1>6. QED
  BY <1>1, <1>2, <1>3, <1>4, <1>5 DEF IInv

\* What select() returns.
LEMMA SelectInv == ASSUME IInv, NEW k \in Conns, NEW data \in BOOLEAN, Select(k, data) PROVE IInv'
<1>1. /\ task[k] = "select" /\ UNCHANGED << conn, kernel, joined, opened, streams, caller, freed, history >>
      /\ Reading(k)
  BY DEF Select, TaskAt
<1>2. \E pc \in {"top", "read", "command"}, b \in BOOLEAN :
         /\ task' = [task EXCEPT ![k] = pc] /\ ready' = [ready EXCEPT ![k] = b]
         /\ pc # "top" => b = (pipefd \in pipeData)
         /\ pc = "command" => b
  <2>1. CASE TaskTo(k, "top") /\ UNCHANGED ready
    <3>1. /\ task' = [task EXCEPT ![k] = "top"]
          /\ ready' = [ready EXCEPT ![k] = ready[k]] /\ ready[k] \in BOOLEAN
      BY <2>1 DEF TaskTo, history, IInv, TypeOK
    <3>2. QED
      BY Zenon, <3>1
  <2>2. ASSUME NEW b \in BOOLEAN, b = (pipefd \in pipeData), NEW sockReady \in BOOLEAN, sockReady \/ b,
               ready' = [ready EXCEPT ![k] = b], TaskTo(k, IF sockReady THEN "read" ELSE "command")
        PROVE  \E pc \in {"top", "read", "command"}, c \in BOOLEAN :
                  /\ task' = [task EXCEPT ![k] = pc] /\ ready' = [ready EXCEPT ![k] = c]
                  /\ pc # "top" => c = (pipefd \in pipeData)
                  /\ pc = "command" => c
    BY Zenon, <2>2 DEF TaskTo
  <2> DEFINE b == pipefd \in pipeData
             sockReady == data \/ sock \in hungup
  <2>3. b \in BOOLEAN /\ sockReady \in BOOLEAN
    OBVIOUS
  <2>4. \/ TaskTo(k, "top") /\ UNCHANGED ready
        \/ /\ (sockReady \/ b) /\ ready' = [ready EXCEPT ![k] = b]
           /\ TaskTo(k, IF sockReady THEN "read" ELSE "command")
    BY Zenon DEF Select
  <2>5. CASE /\ (sockReady \/ b) /\ ready' = [ready EXCEPT ![k] = b]
             /\ TaskTo(k, IF sockReady THEN "read" ELSE "command")
    <3> HIDE DEF sockReady
    <3>1. QED
      BY Zenon, <2>2, <2>3, <2>5
  <2>6. QED
    BY Zenon, <2>1, <2>4, <2>5
<1>3. PICK pc \in {"top", "read", "command"}, b \in BOOLEAN :
         /\ task' = [task EXCEPT ![k] = pc] /\ ready' = [ready EXCEPT ![k] = b]
         /\ pc # "top" => b = (pipefd \in pipeData)
         /\ pc = "command" => b
  BY <1>2
<1>4. /\ task' \in [Conns -> TaskPCs] /\ ready' \in [Conns -> BOOLEAN]
      /\ task'[k] = pc /\ ready'[k] = b
      /\ \A j \in Conns \ {k} : task'[j] = task[j] /\ ready'[j] = ready[j]
  BY <1>3 DEF IInv, history, TypeOK, TaskPCs
<1>5. TypeOK'
  BY <1>1, <1>4 DEF conn, kernel, history, IInv, TypeOK
<1>6. Connecting' /\ Owned'
  BY <1>1, <1>3, <1>4, Alone, ReaderIsCurrent DEF conn, IInv, Connecting, history, Owned, ReaderOwnsConnection
<1>7. Fresh'
  BY <1>1, <1>4 DEF conn, kernel, IInv, TypeOK, history, Fresh, Unstarted
<1>8. Commanded'
  BY <1>1, <1>3, <1>4, Alone, ReaderIsCurrent DEF conn, kernel, history, Commanded, Told
<1>9. QED
  BY <1>5, <1>6, <1>7, <1>8 DEF IInv

\* RILD may hang up at any time.
LEMMA HangUpInv == ASSUME IInv, HangUp PROVE IInv'
<1>1. TypeOK'
  BY DEF HangUp, conn, threads, history, IInv, TypeOK
<1>2. Connecting'
  BY DEF HangUp, conn, threads, history, IInv, Connecting, NoReader
<1>3. Fresh'
  BY DEF HangUp, conn, threads, history, IInv, Fresh, Unstarted
<1>4. Owned'
  BY DEF HangUp, conn, threads, history, IInv, Owned, ReaderOwnsConnection
<1>5. Commanded'
  BY DEF HangUp, conn, threads, history, IInv, Commanded, Told
<1>6. QED
  BY <1>1, <1>2, <1>3, <1>4, <1>5 DEF IInv

\* Every step keeps the invariant.
LEMMA StepInv == IInv /\ [Next]_vars => IInv'
<1> SUFFICES ASSUME IInv, [Next]_vars PROVE IInv'
  OBVIOUS
<1>1. CASE Connect \/ WriteFails \/ \E closing \in BOOLEAN : Disconnect(closing)
  BY <1>1, ConnectInv, WriteFailsInv, DisconnectInv
<1>2. CASE CallerStep
  BY <1>2, ConnectFlagInv, ConnectPipeInv, ConnectThreadInv, DisconnectFlagInv, JoinInv,
     ReleaseInv
     DEF CallerStep
<1>3. ASSUME NEW k \in Conns, Reader(k) \/ Select(k, TRUE) PROVE IInv'
  BY <1>3, LoopInv, SelectInv, ReadSockInv, CommandInv, CloseSockInv, UnflagInv,
     FreeStreamInv, ErrorCallbackInv
     DEF Reader
<1>4. CASE HangUp
  BY <1>4, HangUpInv
<1>5. CASE UNCHANGED vars
  BY <1>5
     DEF vars, history, conn, kernel, threads, IInv, TypeOK, Connecting, NoReader, history, Fresh, Unstarted,
         Owned, ReaderOwnsConnection, Commanded, Told
<1>6. QED
  BY <1>1, <1>2, <1>3, <1>4, <1>5 DEF Next

\* The client's socket, pipe, thread and record stream are those of the one reader in its
\* loop, from its top to its end, however often the connection is made, lost and closed;
\* readers that a new connection overtook have only their free and callback left, and a
\* stream is taken from its reader by one of those alone (RxReaderFunc, Connect_RILD,
\* Disconnect_RILD).
THEOREM ReaderOwnsTheConnection == Spec => []ConnectionSound
<1>1. IInv => ConnectionSound
  BY DEF IInv, history, Owned, ConnectionSound
<1>2. QED
  BY <1>1, InitInv, StepInv, PTL DEF Spec

-----------------------------------------------------------------------------
(* The shim.                                                               *)

\* What lib holds, and how far RIL_Init() has come with it: rilEnv is set before the
\* vendor's library can say anything, and its MAX_TIMEOUT is patched by then if it can be.
LibShape ==
  /\ DOMAIN lib = {"at", "variant", "args", "found", "disk", "top", "env", "clock"}
  /\ lib.found \in BOOLEAN /\ lib.disk \in Tops
  /\ lib.at \in {"start", "open", "starting", "up", "failed"}
  /\ lib.variant \in {"init", "aries", "galaxys4g"} /\ lib.clock \in 0 .. 127
  /\ lib.top \in {31, lib.disk} /\ OthersLeftAlone
  /\ lib.at \in {"starting", "up"} => lib.env /\ (Patchable => lib.top = 31)
  /\ lib.at \in {"start", "open"} => lib.top = lib.disk
  /\ lib.at = "open" => lib.env
  /\ lib.at \in {"start", "open"} => lib.args \in CommandLines
  /\ ArgumentsUnderstood

\* The tokens on both sides, and whether an answer went astray.
TokenTypes ==
  /\ asked \in [Tokens -> Requests \cup {NoRequest}]
  /\ vendor \in [Tokens -> Requests \cup {NoRequest}] /\ stray \in BOOLEAN

\* A response of whole structures.
Whole(r) ==
  /\ r.form \in Forms \cup {"none"} /\ r.len \in Nat
  /\ r.form # "none" => r.len % Size[r.form] = 0

\* One that libril may get: whole, and in the new layout unless it is empty.
Fine(r) ==
  /\ Whole(r)
  /\ r.form \in {"call3", "call4", "card5", "signal5", "global", "nitzExtra"} => r.len = 0

\* The inductive invariant.
ShimInv == LibShape /\ TokenTypes /\ AnsweredOnce /\ VendorKnows /\ Fine(heard)

\* A part of a sequence.
LEMMA Part ==
  ASSUME NEW S, NEW s \in Seq(S), NEW m \in Nat, NEW n \in Nat, m >= 1, n <= Len(s), m <= n + 1
  PROVE  /\ SubSeq(s, m, n) \in Seq(S) /\ Len(SubSeq(s, m, n)) = n - m + 1
         /\ \A i \in 1 .. n - m + 1 : SubSeq(s, m, n)[i] = s[m + i - 1]
<1>1. Len(s) \in Nat
  BY LenProperties, Zenon
<1>2. \A i \in m .. n : s[i] \in S
  <2> SUFFICES ASSUME NEW i \in m .. n PROVE s[i] \in S
    OBVIOUS
  <2>1. i \in 1 .. Len(s)
    BY <1>1
  <2>2. QED
    BY <2>1, ElementOfSeq
<1>3. m \in Int /\ n \in Int
  OBVIOUS
<1>4. /\ SubSeq(s, m, n) \in Seq(S) /\ Len(SubSeq(s, m, n)) = IF m <= n THEN n - m + 1 ELSE 0
      /\ \A i \in 1 .. n - m + 1 : SubSeq(s, m, n)[i] = s[m + i - 1]
  BY <1>2, <1>3, SubSeqProperties
<1>5. (IF m <= n THEN n - m + 1 ELSE 0) = n - m + 1
  OBVIOUS
<1>6. QED
  BY <1>4, <1>5, Zenon

\* The words of rild's command lines.
Spoken == {"rild", "-d", "tty", "-c", "0"}

\* rild's own words.
LEMMA WordsAre ==
  /\ Words \in Seq(Spoken) /\ Len(Words) = 3
  /\ Words[1] = "rild" /\ Words[2] = "-d" /\ Words[3] = "tty"
BY DEF Words, Spoken

\* A command line with "-c" and its number after the first k words.
LEMMA CommandLine ==
  ASSUME NEW k \in 1 .. 3, NEW a, a = SubSeq(Words, 1, k) \o << "-c", "0" >> \o SubSeq(Words, k + 1, 3)
  PROVE  /\ a \in Seq(Spoken) /\ Len(a) = 5
         /\ \A i \in 1 .. k : a[i] = Words[i]
         /\ a[k + 1] = "-c" /\ a[k + 2] = "0" /\ \A i \in k + 3 .. 5 : a[i] = Words[i - 2]
<1> DEFINE p == SubSeq(Words, 1, k)
           m == << "-c", "0" >>
           q == SubSeq(Words, k + 1, 3)
<1>1. p \in Seq(Spoken) /\ Len(p) = k /\ \A i \in 1 .. k : p[i] = Words[i]
  <2>1. /\ p \in Seq(Spoken) /\ Len(p) = k - 1 + 1
        /\ \A i \in 1 .. k - 1 + 1 : p[i] = Words[1 + i - 1]
    <3>1. 1 \in Nat /\ k \in Nat /\ 1 >= 1 /\ k <= Len(Words) /\ 1 <= k + 1
      BY WordsAre
    <3>2. QED
      BY <3>1, WordsAre, Part, Zenon
  <2>2. k - 1 + 1 = k /\ \A i \in 1 .. k : 1 + i - 1 = i
    OBVIOUS
  <2> HIDE DEF p
  <2>3. QED
    BY <2>1, <2>2
<1>2. q \in Seq(Spoken) /\ Len(q) = 3 - k /\ \A i \in 1 .. 3 - k : q[i] = Words[k + i]
  <2>1. /\ q \in Seq(Spoken) /\ Len(q) = 3 - (k + 1) + 1
        /\ \A i \in 1 .. 3 - (k + 1) + 1 : q[i] = Words[k + 1 + i - 1]
    <3>1. k + 1 \in Nat /\ 3 \in Nat /\ k + 1 >= 1 /\ 3 <= Len(Words) /\ k + 1 <= 3 + 1
      BY WordsAre
    <3>2. QED
      BY <3>1, WordsAre, Part, Zenon
  <2>2. 3 - (k + 1) + 1 = 3 - k /\ \A i \in 1 .. 3 - k : k + 1 + i - 1 = k + i
    OBVIOUS
  <2> HIDE DEF q
  <2>3. QED
    BY <2>1, <2>2
<1>3. m \in Seq(Spoken) /\ Len(m) = 2 /\ m[1] = "-c" /\ m[2] = "0"
  BY DEF Spoken
<1>4. a = (p \o m) \o q
  OBVIOUS
<1> HIDE DEF p, q, m
<1>5. /\ p \o m \in Seq(Spoken) /\ Len(p \o m) = k + 2
      /\ \A i \in 1 .. k + 2 : (p \o m)[i] = IF i <= k THEN p[i] ELSE m[i - k]
  <2>1. /\ p \o m \in Seq(Spoken) /\ Len(p \o m) = Len(p) + Len(m)
        /\ \A i \in 1 .. Len(p) + Len(m) :
             (p \o m)[i] = IF i <= Len(p) THEN p[i] ELSE m[i - Len(p)]
    BY <1>1, <1>3, ConcatProperties, Zenon
  <2>2. QED
    BY <1>1, <1>3, <2>1
<1>6. /\ (p \o m) \o q \in Seq(Spoken) /\ Len((p \o m) \o q) = (k + 2) + (3 - k)
      /\ \A i \in 1 .. (k + 2) + (3 - k) :
           ((p \o m) \o q)[i] = IF i <= k + 2 THEN (p \o m)[i] ELSE q[i - (k + 2)]
  <2>1. /\ (p \o m) \o q \in Seq(Spoken) /\ Len((p \o m) \o q) = Len((p \o m)) + Len(q)
        /\ \A i \in 1 .. Len((p \o m)) + Len(q) :
             ((p \o m) \o q)[i] = IF i <= Len((p \o m)) THEN (p \o m)[i] ELSE q[i - Len((p \o m))]
    BY <1>2, <1>5, ConcatProperties, Zenon
  <2>2. QED
    BY <1>2, <1>5, <2>1
<1>7. \A i \in 1 .. 5 : a[i] = IF i <= k THEN Words[i] ELSE IF i <= k + 2 THEN m[i - k]
                               ELSE Words[i - 2]
  <2> SUFFICES ASSUME NEW i \in 1 .. 5
               PROVE  a[i] = IF i <= k THEN Words[i] ELSE IF i <= k + 2 THEN m[i - k] ELSE Words[i - 2]
    OBVIOUS
  <2>1. CASE i <= k + 2
    BY <1>1, <1>4, <1>5, <1>6, <2>1
  <2>2. CASE i > k + 2
    <3>1. i \in 1 .. (k + 2) + (3 - k) /\ ~ (i <= k + 2) /\ i - (k + 2) \in 1 .. 3 - k
      BY <2>2
    <3>4. a[i] = q[i - (k + 2)] /\ i - (k + 2) \in 1 .. 3 - k
      BY <1>4, <1>6, <3>1, Zenon
    <3>2. q[i - (k + 2)] = Words[k + (i - (k + 2))] /\ k + (i - (k + 2)) = i - 2
      BY <1>2, <3>1
    <3>3. ~ (i <= k)
      BY <2>2
    <3>5. QED
      BY <3>1, <3>2, <3>3, <3>4, Zenon
  <2>3. QED
    BY <2>1, <2>2
<1>8. \A i \in 1 .. k : a[i] = Words[i]
  <2>1. \A i \in 1 .. k : i \in 1 .. 5 /\ i <= k
    OBVIOUS
  <2>2. QED
    BY <1>7, <2>1, Zenon
<1>9. a[k + 1] = m[1] /\ a[k + 2] = m[2]
  <2>1. /\ k + 1 \in 1 .. 5 /\ ~ (k + 1 <= k) /\ k + 1 <= k + 2 /\ k + 1 - k = 1
        /\ k + 2 \in 1 .. 5 /\ ~ (k + 2 <= k) /\ k + 2 <= k + 2 /\ k + 2 - k = 2
    OBVIOUS
  <2>2. QED
    BY <1>7, <2>1
<1>10. \A i \in k + 3 .. 5 : a[i] = Words[i - 2]
  <2>1. \A i \in k + 3 .. 5 : i \in 1 .. 5 /\ ~ (i <= k) /\ ~ (i <= k + 2)
    OBVIOUS
  <2>2. QED
    BY <1>7, <2>1, Zenon
<1>11. Len(a) = 5
  BY <1>4, <1>6
<1>12. QED
  BY <1>3, <1>4, <1>6, <1>8, <1>9, <1>10, <1>11, Zenon

\* Without "-c" and its number it is the words again.
LEMMA StrippedLine ==
  ASSUME NEW a \in CommandLines PROVE Stripped(a) \in {Words, Words \o << "-c" >>}
<1>1. CASE a = Words
  BY <1>1, WordsAre DEF Stripped
<1>2. CASE a = Words \o << "-c" >>
  <2>1. /\ a \in Seq(Spoken) /\ Len(a) = 3 + 1
        /\ \A i \in 1 .. 3 + 1 : a[i] = IF i <= 3 THEN Words[i] ELSE << "-c" >>[i - 3]
    <3>1. << "-c" >> \in Seq(Spoken) /\ Len(<< "-c" >>) = 1 /\ 3 \in Nat /\ 1 \in Nat
      BY DEF Spoken
    <3>2. /\ Words \o << "-c" >> \in Seq(Spoken) /\ Len(Words \o << "-c" >>) = Len(Words) + Len(<< "-c" >>)
          /\ \A i \in 1 .. Len(Words) + Len(<< "-c" >>) :
               (Words \o << "-c" >>)[i] = IF i <= Len(Words) THEN Words[i] ELSE << "-c" >>[i - Len(Words)]
      BY <3>1, WordsAre, ConcatProperties, Zenon
    <3>3. QED
      BY <1>2, <3>1, <3>2, WordsAre
  <2>2. \A i \in 1 .. Len(a) - 1 : a[i] # "-c"
    <3>1. \A i \in 1 .. 3 : Words[i] # "-c"
      BY WordsAre
    <3>2. QED
      BY <2>1, <3>1
  <2>3. QED
    BY <1>2, <2>2 DEF Stripped
<1>3. CASE \E k \in 1 .. 3 : a = SubSeq(Words, 1, k) \o << "-c", "0" >> \o SubSeq(Words, k + 1, 3)
  <2>1. PICK k \in 1 .. 3 : a = SubSeq(Words, 1, k) \o << "-c", "0" >> \o SubSeq(Words, k + 1, 3)
    BY <1>3
  <2>2. /\ a \in Seq(Spoken) /\ Len(a) = 5
        /\ \A i \in 1 .. k : a[i] = Words[i]
        /\ a[k + 1] = "-c" /\ a[k + 2] = "0" /\ \A i \in k + 3 .. 5 : a[i] = Words[i - 2]
    BY <2>1, CommandLine
  <2> DEFINE i == CHOOSE j \in 1 .. Len(a) - 1 : a[j] = "-c"
  <2>3. k + 1 \in 1 .. Len(a) - 1 /\ k + 1 \in Nat
    BY <2>2
  <2>4. i \in 1 .. Len(a) - 1 /\ a[i] = "-c"
    <3>1. \E j \in 1 .. Len(a) - 1 : a[j] = "-c"
      BY <2>2, <2>3
    <3>2. QED
      BY <3>1
  <2> HIDE DEF i
  <2>5. i = k + 1
    <3>1. \A j \in 1 .. 3 : Words[j] # "-c"
      BY WordsAre
    <3>2. i \in 1 .. 4
      BY <2>2, <2>4
    <3>3. ~ (i <= k)
      BY <2>2, <2>4, <3>1, <3>2
    <3>4. i # k + 2
      BY <2>2, <2>4
    <3>5. ~ (i >= k + 3)
      BY <2>2, <2>4, <3>1, <3>2
    <3>6. QED
      BY <3>2, <3>3, <3>4, <3>5
  <2>6. Stripped(a) = SubSeq(a, 1, k) \o SubSeq(a, k + 3, 5)
    <3>1. \E j \in 1 .. (Len(a) - 1) : a[j] = "-c"
      BY <2>4
    <3>2. Stripped(a) = SubSeq(a, 1, i - 1) \o SubSeq(a, i + 2, Len(a))
      BY <3>1 DEF Stripped, i
    <3>3. i - 1 = k /\ i + 2 = k + 3 /\ Len(a) = 5
      BY <2>2, <2>5
    <3>4. QED
      BY <3>2, <3>3
  <2> DEFINE p == SubSeq(a, 1, k)
             q == SubSeq(a, k + 3, 5)
  <2>7. p \in Seq(Spoken) /\ Len(p) = k /\ \A j \in 1 .. k : p[j] = a[j]
    <3>1. /\ p \in Seq(Spoken) /\ Len(p) = k - 1 + 1
          /\ \A j \in 1 .. k - 1 + 1 : p[j] = a[1 + j - 1]
      <4>1. 1 \in Nat /\ k \in Nat /\ 1 >= 1 /\ k <= Len(a) /\ 1 <= k + 1
        BY <2>2
      <4>2. QED
        BY <2>2, <4>1, Part, Zenon
    <3>2. k - 1 + 1 = k /\ \A j \in 1 .. k : 1 + j - 1 = j
      OBVIOUS
    <3> HIDE DEF p
    <3>3. QED
      BY <3>1, <3>2
  <2>8. q \in Seq(Spoken) /\ Len(q) = 3 - k /\ \A j \in 1 .. 3 - k : q[j] = a[k + 3 + j - 1]
    <3>1. k + 3 \in Nat /\ 5 \in Nat /\ k + 3 >= 1 /\ 5 <= Len(a) /\ k + 3 <= 5 + 1
      BY <2>2
    <3>2. /\ q \in Seq(Spoken) /\ Len(q) = 5 - (k + 3) + 1
          /\ \A j \in 1 .. 5 - (k + 3) + 1 : q[j] = a[k + 3 + j - 1]
      BY <2>2, <3>1, Part, Zenon
    <3>3. 5 - (k + 3) + 1 = 3 - k
      OBVIOUS
    <3>4. QED
      BY <3>2, <3>3, Zenon
  <2> HIDE DEF p, q
  <2>9. /\ p \o q \in Seq(Spoken) /\ Len(p \o q) = k + (3 - k)
        /\ \A j \in 1 .. k + (3 - k) : (p \o q)[j] = IF j <= k THEN p[j] ELSE q[j - k]
    <3>1. /\ p \o q \in Seq(Spoken) /\ Len(p \o q) = Len(p) + Len(q)
          /\ \A j \in 1 .. Len(p) + Len(q) :
               (p \o q)[j] = IF j <= Len(p) THEN p[j] ELSE q[j - Len(p)]
      BY <2>7, <2>8, ConcatProperties, Zenon
    <3>2. QED
      BY <2>7, <2>8, <3>1
  <2>10. \A j \in 1 .. 3 : (p \o q)[j] = Words[j]
    <3> SUFFICES ASSUME NEW j \in 1 .. 3 PROVE (p \o q)[j] = Words[j]
      OBVIOUS
    <3>1. CASE j <= k
      BY <2>2, <2>7, <2>9, <3>1
    <3>2. CASE j > k
      <4>1. (p \o q)[j] = q[j - k] /\ j - k \in 1 .. 3 - k
        BY <2>9, <3>2
      <4>2. q[j - k] = a[k + 3 + (j - k) - 1] /\ k + 3 + (j - k) - 1 = j + 2
        BY <2>8, <4>1
      <4>3. a[j + 2] = Words[j + 2 - 2] /\ j + 2 - 2 = j
        BY <2>2, <3>2
      <4>4. QED
        BY <4>1, <4>2, <4>3
    <3>3. j <= k \/ j > k
      OBVIOUS
    <3>4. QED
      BY <3>1, <3>2, <3>3, Zenon
  <2>11. p \o q = Words
    <3>1. Len(p \o q) = 3
      BY <2>9
    <3>2. QED
      BY <2>9, <2>10, <3>1, WordsAre, SeqEqual
  <2>12. QED
    BY <2>6, <2>11 DEF p, q
<1>4. QED
  BY <1>1, <1>2, <1>3 DEF CommandLines

USE CallBound, ClockRange, TopRange

\* n structures of a form are whole.
LEMMA WholeOf ==
  ASSUME NEW f \in Forms, NEW n \in Nat
  PROVE  Whole(Of(f, n)) /\ Of(f, n).form = f /\ Of(f, n).len = n * Size[f]
BY SMT DEF Of, Whole, Forms, Size

\* The response without data.
LEMMA FineNothing == Fine(Nothing)
BY DEF Nothing, Fine, Whole

\* A list of data calls in the old layout comes out in the new one.
LEMMA FixedList ==
  ASSUME NEW n \in Nat PROVE Fine(fixupDataCallList(TRUE, Of("call4", n)))
<1> DEFINE r == Of("call4", n)
<1>1. r = [form |-> "call4", len |-> n * 20]
  BY DEF Of, Size
<1>2. CASE n = 0
  BY <1>1, <1>2 DEF fixupDataCallList, Fine, Whole, Forms, Size
<1>3. CASE n # 0
  <2>1. (n * 20) % 20 = 0 /\ (n * 20) \div 20 = n /\ n * 20 # 0
    BY <1>3
  <2>2. fixupDataCallList(TRUE, r) = Of("call6", n)
    BY <1>1, <2>1 DEF fixupDataCallList, Size
  <2>3. Whole(Of("call6", n)) /\ Of("call6", n).form = "call6"
    <3>1. "call6" \in Forms
      BY DEF Forms, Size
    <3>2. QED
      BY <3>1, WholeOf
  <2>4. QED
    BY <2>2, <2>3 DEF Fine
<1>4. QED
  BY <1>2, <1>3

\* Whatever a vendor answers to a request comes out fine; an error has no data.
LEMMA FixedAnswers ==
  ASSUME NEW request \in Requests, NEW ask,
         NEW r \in VendorAnswers(request),
         ask = IF request = "SEND_SMS" /\ ask # "SEND_SMS" THEN "SEND_SMS_EXPECT_MORE" ELSE request
  PROVE  Fine(Fixed(ask, TRUE, r))
<1>1. CASE request = "SETUP_DATA_CALL"
  BY <1>1, WholeOf DEF VendorAnswers, Fixed, fixupSetupDataCall, Of, Fine, Whole, Forms, Size
<1>2. CASE request = "DATA_CALL_LIST"
  <2>1. PICK n \in 0 .. MaxCalls : r = Of("call4", n)
    BY <1>2 DEF VendorAnswers
  <2>2. Fixed(ask, TRUE, r) = fixupDataCallList(TRUE, r)
    BY <1>2 DEF Fixed
  <2>3. n \in Nat
    BY <2>1
  <2>4. QED
    BY <2>1, <2>2, <2>3, FixedList
<1>3. CASE request = "GET_PREFERRED_NETWORK_TYPE"
  BY <1>3 DEF VendorAnswers, Fixed, fixupNetworkType, fixupSetupDataCall, Of, Fine, Whole, Forms,
       Size
<1>4. CASE request = "GET_SIM_STATUS"
  BY <1>4 DEF VendorAnswers, Fixed, Of, Fine, Whole, Forms, Size
<1>5. CASE request = "LAST_CALL_FAIL_CAUSE"
  BY <1>5 DEF VendorAnswers, Fixed, Of, Fine, Whole, Forms, Size
<1>6. CASE request = "SIGNAL_STRENGTH"
  BY <1>6 DEF VendorAnswers, Fixed, fixupSignalStrength, Of, Fine, Whole, Forms, Size
<1>7. CASE request \notin {"SETUP_DATA_CALL", "DATA_CALL_LIST", "GET_PREFERRED_NETWORK_TYPE",
                           "GET_SIM_STATUS", "LAST_CALL_FAIL_CAUSE", "SIGNAL_STRENGTH"}
  <2>1. r \in {Nothing, Of("int", 1)}
    BY <1>7 DEF VendorAnswers
  <2>2. Fixed(ask, TRUE, r) = r
    BY <1>7 DEF Fixed
  <2>3. Fine(Of("int", 1))
    BY DEF Of, Fine, Whole, Forms, Size
  <2>4. QED
    BY <2>1, <2>2, <2>3, FineNothing
<1>8. QED
  BY <1>1, <1>2, <1>3, <1>4, <1>5, <1>6, <1>7

LEMMA FixedError == ASSUME NEW ask PROVE Fine(Fixed(ask, FALSE, Nothing))
<1>1. Fixed(ask, FALSE, Nothing) = Nothing
  BY DEF Fixed, Nothing, fixupSignalStrength, fixupSetupDataCall, fixupDataCallList,
       fixupNetworkType, Size
<1>2. QED
  BY <1>1, FineNothing

\* The same for what it says unasked.
LEMMA FixedUnsolicited ==
  ASSUME NEW r \in {Of(f, 1) : f \in {"nitz", "nitzExtra", "signal5", "int"}}
                     \cup {Of("call4", n) : n \in 0 .. MaxCalls}
  PROVE  Fine(Unsolicited(r))
<1>1. CASE r \in {Of(f, 1) : f \in {"nitz", "nitzExtra", "signal5", "int"}}
  <2>1. PICK f \in {"nitz", "nitzExtra", "signal5", "int"} : r = Of(f, 1)
    BY <1>1
  <2>2. r = [form |-> f, len |-> Size[f]] /\ r.form = f
    BY <2>1 DEF Of, Size
  <2>3. QED
    <3>1. CASE f = "nitzExtra"
      BY <2>2, <3>1 DEF Unsolicited, Of, Fine, Whole, Forms, Size
    <3>2. CASE f = "signal5"
      BY <2>2, <3>2 DEF Unsolicited, fixupSignalStrength, Fine, Whole, Forms, Size
    <3>3. CASE f \in {"nitz", "int"}
      <4>1. Unsolicited(r) = r
        BY <2>2, <3>3 DEF Unsolicited
      <4>2. QED
        BY <2>2, <3>3, <4>1 DEF Fine, Whole, Forms, Size
    <3>4. QED
      BY <3>1, <3>2, <3>3
<1>2. CASE r \in {Of("call4", n) : n \in 0 .. MaxCalls}
  <2>1. PICK n \in 0 .. MaxCalls : r = Of("call4", n)
    BY <1>2
  <2>2. r.form = "call4"
    BY <2>1 DEF Of
  <2>3. Unsolicited(r) = fixupDataCallList(TRUE, r)
    BY <2>2 DEF Unsolicited
  <2>4. n \in Nat
    BY <2>1
  <2>5. QED
    BY <2>1, <2>3, <2>4, FixedList
<1>3. QED
  BY <1>1, <1>2

\* Hearing a fine response; the name servers that come with it change neither its form
\* nor its length.
LEMMA HearFine == ASSUME NEW r, Fine(r), Hear(r) PROVE Fine(heard)'
<1>1. heard'.form = r.form /\ heard'.len = r.len
  <2>1. CASE r.form = "call6"
    BY <2>1 DEF Hear
  <2>2. CASE r.form # "call6"
    BY <2>2 DEF Hear
  <2>3. QED
    BY <2>1, <2>2
<1>2. QED
  BY <1>1 DEF Fine, Whole
\* At the start nothing is asked.
LEMMA InitShimInv == InitShim => ShimInv
<1> SUFFICES ASSUME InitShim PROVE ShimInv
  OBVIOUS
<1>1. LibShape
  <2>1. /\ DOMAIN lib = {"at", "variant", "args", "found", "disk", "top", "env", "clock"}
        /\ lib.at = "start" /\ lib.variant = "init" /\ lib.clock \in Clocks
        /\ lib.found \in BOOLEAN /\ lib.disk \in Tops /\ lib.top = lib.disk
        /\ lib.args \in CommandLines
    BY DEF InitShim
  <2>2. QED
    BY <2>1 DEF LibShape, OthersLeftAlone, ArgumentsUnderstood
<1>2. TokenTypes /\ AnsweredOnce /\ VendorKnows
  BY DEF InitShim, TokenTypes, AnsweredOnce, VendorKnows
<1>3. QED
  BY <1>1, <1>2, FineNothing DEF InitShim, ShimInv

\* RIL_Init() sets rilEnv first and patches the library before it starts it.
LEMMA LibInv ==
  ASSUME ShimInv, OpenVendor \/ OpenFails \/ StartVendor \/ StartFails \/ VendorStarted
  PROVE  ShimInv'
<1>1. UNCHANGED << asked, vendor, heard, stray >>
  BY DEF OpenVendor, OpenFails, StartVendor, StartFails, VendorStarted, ShimFails
<1>2. LibShape'
  <2>1. CASE OpenVendor
    BY <2>1 DEF OpenVendor, ShimInv, LibShape, OthersLeftAlone, Patchable, ArgumentsUnderstood
  <2>2. CASE OpenFails \/ StartFails
    <3>1. lib' = [lib EXCEPT !.at = "failed"]
      BY <2>2 DEF OpenFails, StartFails, ShimFails
    <3>2. ArgumentsUnderstood' /\ lib'.at = "failed"
      BY <3>1 DEF ShimInv, LibShape, OthersLeftAlone, Patchable, ArgumentsUnderstood
    <3>3. QED
      BY <3>1, <3>2 DEF ShimInv, LibShape, OthersLeftAlone, Patchable
  <2>3. CASE StartVendor
    <3>1. /\ lib.at = "open"
          /\ lib' = [patchMem(lib) EXCEPT !.at = "starting", !.args = Stripped(@)]
      BY <2>3 DEF StartVendor
    <3>2. Stripped(lib.args) \in {Words, Words \o << "-c" >>}
      BY <3>1, StrippedLine DEF ShimInv, LibShape
    <3>3. CASE Patchable
      <4>1. patchMem(lib) = [lib EXCEPT !.top = 31]
        BY <3>1, <3>3 DEF patchMem, Patchable, ShimInv, LibShape
      <4>2. QED
        BY <3>1, <3>2, <3>3, <4>1 DEF ShimInv, LibShape, OthersLeftAlone, Patchable, ArgumentsUnderstood
    <3>4. CASE ~ Patchable
      <4>1. patchMem(lib) = lib
        BY <3>1, <3>4 DEF patchMem, Patchable, ShimInv, LibShape
      <4>2. QED
        BY <3>1, <3>2, <3>4, <4>1 DEF ShimInv, LibShape, OthersLeftAlone, Patchable, ArgumentsUnderstood
    <3>5. QED
      BY <3>3, <3>4
  <2>4. CASE VendorStarted
    BY <2>4 DEF VendorStarted, ShimInv, LibShape, OthersLeftAlone, Patchable, ArgumentsUnderstood
  <2>5. QED
    BY <2>1, <2>2, <2>3, <2>4
<1>3. QED
  BY <1>1, <1>2 DEF ShimInv, TokenTypes, AnsweredOnce, VendorKnows, Fine, Whole

\* libril gets a fine answer for a token it waits for.
LEMMA CompleteInv ==
  ASSUME ShimInv, NEW t \in Tokens, asked[t] # NoRequest, NEW r, Fine(r), Complete(t, r)
  PROVE  /\ asked' = [asked EXCEPT ![t] = NoRequest] /\ AnsweredOnce' /\ stray' \in BOOLEAN
         /\ Fine(heard)'
<1>1. /\ Hear(r) /\ asked' = [asked EXCEPT ![t] = NoRequest]
      /\ stray' = (stray \/ asked[t] = NoRequest)
  BY DEF Complete
<1>2. Fine(heard)'
  BY <1>1, HearFine
<1>3. QED
  BY <1>1, <1>2 DEF ShimInv, AnsweredOnce

\* libril waits before the shim sees the request.
LEMMA RequestInv == ASSUME ShimInv, Request PROVE ShimInv'
<1>1. PICK t \in Tokens, request \in Requests :
        /\ asked[t] = NoRequest /\ vendor[t] = NoRequest
        /\ asked' = [asked EXCEPT ![t] = request]
        /\ UNCHANGED << lib, vendor, heard, stray >>
  BY DEF Request
<1>2. TokenTypes' /\ VendorKnows'
  BY <1>1 DEF ShimInv, TokenTypes, VendorKnows
<1>3. QED
  BY <1>1, <1>2 DEF ShimInv, LibShape, OthersLeftAlone, Patchable, ArgumentsUnderstood, AnsweredOnce, Fine, Whole

\* A request is answered by the shim or handed over, not both.
LEMMA DispatchInv == ASSUME ShimInv, NEW t \in Tokens, Dispatch(t) PROVE ShimInv'
<1>1. asked[t] # NoRequest /\ vendor[t] = NoRequest /\ UNCHANGED lib /\ onRequestShim(t, asked[t])
  BY DEF Dispatch
<1>2. CASE asked[t] \in Faked \cup {"SETUP_DATA_CALL_NULL"}
  <2>1. PICK r \in {Of("int", 1), Nothing} : Complete(t, r) /\ UNCHANGED vendor
    BY <1>1, <1>2 DEF onRequestShim, Fake
  <2>2. Fine(r)
    BY <2>1, FineNothing DEF Of, Fine, Whole, Forms, Size
  <2>3. /\ asked' = [asked EXCEPT ![t] = NoRequest] /\ AnsweredOnce' /\ stray' \in BOOLEAN
        /\ Fine(heard)'
    BY <1>1, <2>1, <2>2, CompleteInv
  <2>4. TokenTypes' /\ VendorKnows'
    BY <1>1, <2>1, <2>3 DEF ShimInv, TokenTypes, VendorKnows
  <2>5. QED
    BY <1>1, <2>3, <2>4 DEF ShimInv, LibShape, OthersLeftAlone, Patchable, ArgumentsUnderstood
<1>3. CASE asked[t] \notin Faked \cup {"SETUP_DATA_CALL_NULL"}
  <2>1. /\ vendor' = [vendor EXCEPT ![t] = IF asked[t] = "SEND_SMS_EXPECT_MORE"
                                      THEN "SEND_SMS" ELSE asked[t]]
        /\ UNCHANGED << asked, heard, stray >>
    BY <1>1, <1>3 DEF onRequestShim
  <2>2. asked[t] \in Requests /\ "SEND_SMS" \in Requests \ Faked
    BY <1>1 DEF ShimInv, TokenTypes, Requests, Faked
  <2>3. TokenTypes'
    BY <2>1, <2>2 DEF ShimInv, TokenTypes
  <2>4. VendorKnows'
    BY <1>3, <2>1, <2>2 DEF ShimInv, TokenTypes, VendorKnows, Faked, Newer
  <2>5. QED
    BY <1>1, <2>1, <2>3, <2>4 DEF ShimInv, LibShape, OthersLeftAlone, Patchable, ArgumentsUnderstood, AnsweredOnce, Fine, Whole
<1>4. QED
  BY <1>2, <1>3

\* The vendor answers what it has, which libril still waits for.
LEMMA AnswerInv == ASSUME ShimInv, NEW t \in Tokens, onRequestComplete(t) PROVE ShimInv'
<1>1. /\ vendor[t] # NoRequest /\ vendor' = [vendor EXCEPT ![t] = NoRequest] /\ UNCHANGED lib
      /\ \/ \E r \in VendorAnswers(vendor[t]) : Complete(t, Fixed(asked[t], TRUE, r))
         \/ Complete(t, Fixed(asked[t], FALSE, Nothing))
  BY DEF onRequestComplete
<1>2. /\ vendor[t] \in Requests /\ asked[t] # NoRequest
      /\ asked[t] = IF vendor[t] = "SEND_SMS" /\ asked[t] # "SEND_SMS"
                    THEN "SEND_SMS_EXPECT_MORE" ELSE vendor[t]
  BY <1>1 DEF ShimInv, TokenTypes, VendorKnows, NoRequest
<1>3. PICK r : Complete(t, r) /\ Fine(r)
  <2>1. CASE \E r \in VendorAnswers(vendor[t]) : Complete(t, Fixed(asked[t], TRUE, r))
    <3>1. PICK r \in VendorAnswers(vendor[t]) : Complete(t, Fixed(asked[t], TRUE, r))
      BY <2>1
    <3>2. Fine(Fixed(asked[t], TRUE, r))
      BY <1>2, FixedAnswers
    <3>3. QED
      BY <3>1, <3>2
  <2>2. CASE Complete(t, Fixed(asked[t], FALSE, Nothing))
    BY <2>2, FixedError
  <2>3. QED
    BY <1>1, <2>1, <2>2
<1>4. /\ asked' = [asked EXCEPT ![t] = NoRequest] /\ AnsweredOnce' /\ stray' \in BOOLEAN
      /\ Fine(heard)'
  BY <1>2, <1>3, CompleteInv
<1>5. TokenTypes' /\ VendorKnows'
  BY <1>1, <1>4 DEF ShimInv, TokenTypes, VendorKnows
<1>6. QED
  BY <1>1, <1>4, <1>5 DEF ShimInv, LibShape, OthersLeftAlone, Patchable, ArgumentsUnderstood

\* What the vendor says unasked, which it can with rilEnv set.
LEMMA UnsolicitedInv == ASSUME ShimInv, onUnsolicitedResponse PROVE ShimInv'
<1>1. PICK r \in {Of(f, 1) : f \in {"nitz", "nitzExtra", "signal5", "int"}}
                    \cup {Of("call4", n) : n \in 0 .. MaxCalls} : Hear(Unsolicited(r))
  BY DEF onUnsolicitedResponse
<1>2. Fine(heard)'
  BY <1>1, FixedUnsolicited, HearFine
<1>3. AnsweredOnce' /\ stray' \in BOOLEAN /\ UNCHANGED << lib, asked, vendor >>
  BY DEF onUnsolicitedResponse, ShimInv, LibShape, OthersLeftAlone, Patchable, TokenTypes, AnsweredOnce
<1>4. QED
  BY <1>2, <1>3 DEF ShimInv, LibShape, OthersLeftAlone, Patchable, ArgumentsUnderstood, TokenTypes, VendorKnows

\* Every step keeps the invariant.
LEMMA StepShimInv == ShimInv /\ [NextShim]_shimVars => ShimInv'
<1> SUFFICES ASSUME ShimInv, [NextShim]_shimVars PROVE ShimInv'
  OBVIOUS
<1>1. CASE OpenVendor \/ OpenFails \/ StartVendor \/ StartFails \/ VendorStarted
  BY <1>1, LibInv
<1>2. CASE Request \/ onUnsolicitedResponse
  BY <1>2, RequestInv, UnsolicitedInv
<1>3. CASE \E t \in Tokens : Dispatch(t) \/ onRequestComplete(t)
  BY <1>3, DispatchInv, AnswerInv
<1>4. CASE UNCHANGED shimVars
  BY <1>4 DEF shimVars, ShimInv, LibShape, OthersLeftAlone, Patchable, ArgumentsUnderstood, TokenTypes, AnsweredOnce, VendorKnows,
       Fine, Whole
<1>5. QED
  BY <1>1, <1>2, <1>3, <1>4 DEF NextShim

\* Each request is answered once, by the shim or by the vendor; what the vendor holds libril
\* waits for, and it is no newer than the vendor but for the three that the shim's list
\* leaves out (onRequestShim(), onRequestCompleteShim()).
THEOREM RequestsHandedOver == SpecShim => []HandedOver
<1>1. ShimInv => HandedOver
  <2> SUFFICES ASSUME ShimInv PROVE HandedOver
    OBVIOUS
  <2>1. heard.len % (IF heard.form = "none" THEN 1 ELSE Size[heard.form]) = 0
    <3>1. heard.len \in Nat /\ (heard.form # "none" => heard.len % Size[heard.form] = 0)
      BY DEF ShimInv, Fine, Whole
    <3>2. heard.len % 1 = 0
      BY <3>1
    <3>3. QED
      BY <3>1, <3>2
  <2>2. ShimTypes
    BY <2>1 DEF ShimInv, LibShape, OthersLeftAlone, Patchable, TokenTypes, Fine, Whole, ShimTypes
  <2>3. QED
    BY <2>2 DEF ShimInv, HandedOver
<1>2. QED
  BY <1>1, InitShimInv, StepShimInv, PTL DEF SpecShim

\* No response in an old layout gets through, however long the list is; the vendor's
\* library gets rild's command line without "-c" and its number; and if it is one that
\* patchMem() knows, a wait for MAX_TIMEOUT fits the clock whatever it says, and it is left
\* alone if not (the fix-ups, RIL_Init(), patchMem() with both its early returns).
THEOREM UnderstandEachOther == SpecShim => []Understood
<1>1. ShimInv => Understood
  BY DEF ShimInv, LibShape, Fine, Understood, NewLayout, TimeoutFits
<1>2. QED
  BY <1>1, InitShimInv, StepShimInv, PTL DEF SpecShim
=============================================================================
