-------------------------- MODULE GpuDaemon_proofs --------------------------
(***************************************************************************)
(* The safety of the daemon of lzo_gpu/lzo_gpu_daemon.c and its clients,   *)
(* for any number of daemons and clients, any of them killed or signalled  *)
(* in any line.                                                            *)
(***************************************************************************)
EXTENDS GpuDaemon, SequenceTheorems, TLAPS

(* Where a daemon may be while the socket file is its own.                 *)
Named == {"listen", "start", "close", "remove", "dead"} \union Loop
FileHasOwner == \A d \in Daemons : path = d => pc[d] \in Named

(* A daemon that bound the path and is not at its end finds its own socket *)
(* there, unless somebody else was started.                                *)
Hidden(d) == \E e \in Daemons \ {d} : pc[e] # "off"
FoundUnlessRival ==
  \A d \in Daemons :
    pc[d] \in {"listen", "start"} \union Loop /\ path # d => Hidden(d)

(* An answer of "ok", made, under way or taken, stands for a job done.     *)
AnswersTrue ==
  /\ \A c \in Clients : cpc[c] = "ok" => c \in done
  /\ \A c \in Clients : got[c] = "ok" => c \in done
  /\ \A d \in Daemons : pc[d] = "send" /\ resp[d] = "ok" => cur[d] \in done

DInv == /\ TypeOK /\ FileHasOwner /\ FoundUnlessRival /\ AnswersTrue
        /\ NoConnectionForgotten

-----------------------------------------------------------------------------
(* What is in a queue of connections, before and after it changes.         *)
LEMMA QueueHolds ==
  ASSUME NEW s \in Seq(Clients), NEW c \in Clients
  PROVE  /\ Range(s) \subseteq Clients
         /\ Range(<<>>) = {}
         /\ Range(Append(s, c)) = Range(s) \union {c}
         /\ s # <<>> => Range(s) = Range(Tail(s)) \union {Head(s)}
<1>1. \A t \in Seq(Clients) : Range(t) = {t[j] : j \in 1 .. Len(t)}
  BY LenProperties DEF Range
<1>2. Len(s) \in Nat /\ \A j \in 1 .. Len(s) : s[j] \in Clients
  BY LenProperties, ElementOfSeq
<1>3. Range(s) \subseteq Clients
  BY <1>1, <1>2
<1>4. Range(<<>>) = {}
  <2>1. <<>> \in Seq(Clients) /\ Len(<<>>) = 0
    BY EmptySeq
  <2>2. 1 .. 0 = {}
    OBVIOUS
  <2>3. QED
    BY <1>1, <2>1, <2>2, Zenon
<1>5. Range(Append(s, c)) = Range(s) \union {c}
  <2>1. /\ Append(s, c) \in Seq(Clients) /\ Len(Append(s, c)) = Len(s) + 1
        /\ \A j \in 1 .. Len(s) : Append(s, c)[j] = s[j]
        /\ Append(s, c)[Len(s) + 1] = c
    BY AppendProperties
  <2>2. 1 .. Len(s) + 1 = (1 .. Len(s)) \union {Len(s) + 1}
    BY <1>2
  <2>3. Range(Append(s, c)) = {Append(s, c)[j] : j \in (1 .. Len(s)) \union {Len(s) + 1}}
    BY <1>1, <2>1, <2>2
  <2>4. QED
    BY <1>1, <2>1, <2>3
<1>6. ASSUME s # <<>>
      PROVE  Range(s) = Range(Tail(s)) \union {Head(s)}
  <2>1. /\ Tail(s) \in Seq(Clients) /\ Len(Tail(s)) = Len(s) - 1
        /\ \A j \in 1 .. Len(Tail(s)) : Tail(s)[j] = s[j + 1]
    BY <1>6, HeadTailProperties
  <2>2. Head(s) = s[1] /\ Len(s) >= 1
    BY <1>2, <1>6, EmptySeq
  <2>3. ASSUME NEW j \in 1 .. Len(s)
        PROVE  s[j] \in Range(Tail(s)) \union {Head(s)}
    <3>1. CASE j = 1
      BY <2>2, <3>1
    <3>2. CASE j # 1
      <4>1. j - 1 \in 1 .. Len(Tail(s)) /\ j = (j - 1) + 1
        BY <1>2, <2>1, <3>2
      <4>2. Tail(s)[j - 1] = s[j]
        BY <2>1, <4>1
      <4>3. QED
        BY <1>1, <2>1, <4>1, <4>2
    <3>3. QED
      BY <3>1, <3>2
  <2>4. ASSUME NEW j \in 1 .. Len(Tail(s))
        PROVE  Tail(s)[j] \in Range(s)
    <3>1. j + 1 \in 1 .. Len(s) /\ Tail(s)[j] = s[j + 1]
      BY <1>2, <2>1
    <3>2. QED
      BY <1>1, <3>1
  <2>5. Head(s) \in Range(s)
    BY <1>1, <1>2, <2>2
  <2>6. Range(s) = {s[j] : j \in 1 .. Len(s)}
    BY <1>1
  <2>7. Range(Tail(s)) = {Tail(s)[j] : j \in 1 .. Len(Tail(s))}
    BY <1>1, <2>1
  <2>8. QED
    BY <2>3, <2>4, <2>5, <2>6, <2>7
<1>7. QED
  BY <1>3, <1>4, <1>5, <1>6

-----------------------------------------------------------------------------
(* The steps of main and start_server that only move a daemon on.          *)
Outside == {"off", "init", "socket", "unlink", "bind", "listen", "start",
            "accept", "close", "remove", "exited"}

Moves(d) ==
  \/ Launch(d) \/ Initialise(d) \/ InitFails(d) \/ Socket(d) \/ SocketFails(d)
  \/ Unlink(d) \/ Bind(d) \/ BindFails(d) \/ Listen(d) \/ ListenFails(d)
  \/ Leave(d) \/ AcceptFails(d) \/ Remove(d)

(* What such a step does to the socket file.                               *)
LEMMA MoveFacts ==
  ASSUME TypeOK, NEW d \in Daemons, Moves(d)
  PROVE  /\ pc[d] \in Outside /\ pc'[d] \in Outside \ {"off"}
         /\ pc' = [pc EXCEPT ![d] = pc'[d]]
         /\ UNCHANGED <<running, cur, resp, done, clients, queue>>
         /\ path' \in {path, None, d}
         /\ sock' \in [Daemons -> {"stdin", "open", "closed"}]
         /\ asked' \in [Daemons -> {"no", "early", "yes"}]
         /\ path' = d /\ (path' = path => pc[d] \in Named) => pc'[d] \in Named
         /\ pc'[d] \in {"listen", "start"} \union Loop =>
              path' = d \/ (path' = path /\ pc[d] \in {"listen", "start"} \union Loop)
<1>1. d # None /\ DOMAIN pc = Daemons
  BY ProcessAssumption DEF TypeOK
<1>2. ASSUME NEW from, NEW to, Move(d, from, to)
      PROVE  /\ pc[d] = from /\ pc'[d] = to /\ pc' = [pc EXCEPT ![d] = to]
             /\ UNCHANGED <<running, cur, resp, done, clients, queue>>
             /\ asked' \in [Daemons -> {"no", "early", "yes"}]
  BY <1>1, <1>2 DEF Move, Goto, clients, TypeOK
<1>3. sock \in [Daemons -> {"stdin", "open", "closed"}]
  BY DEF TypeOK
<1> USE <1>1, <1>2, <1>3 DEF Outside, Named, Loop
<1>4. CASE Launch(d)
  BY <1>4 DEF Launch
<1>5. CASE Initialise(d)
  BY <1>5 DEF Initialise
<1>6. CASE InitFails(d)
  BY <1>6 DEF InitFails
<1>7. CASE Socket(d)
  BY <1>7 DEF Socket
<1>8. CASE SocketFails(d)
  BY <1>8 DEF SocketFails
<1>9. CASE Unlink(d)
  BY <1>9 DEF Unlink
<1>10. CASE Bind(d)
  BY <1>10 DEF Bind
<1>11. CASE BindFails(d)
  BY <1>11 DEF BindFails
<1>12. CASE Listen(d)
  BY <1>12 DEF Listen
<1>13. CASE ListenFails(d)
  BY <1>13 DEF ListenFails
<1>14. CASE Leave(d)
  BY <1>14 DEF Leave
<1>15. CASE AcceptFails(d)
  BY <1>15 DEF AcceptFails
<1>16. CASE Remove(d)
  BY <1>16 DEF Remove
<1>17. QED
  BY <1>4, <1>5, <1>6, <1>7, <1>8, <1>9, <1>10, <1>11, <1>12, <1>13, <1>14,
     <1>15, <1>16 DEF Moves

(* The other steps of a daemon.                                            *)
Dies(d) == Die(d) /\ (pc[d] = "send" \/ Alive(d))

(* Every step is one of these.                                             *)
LEMMA NextCases ==
  ASSUME Next
  PROVE  \/ \E d \in Daemons :
              \/ Moves(d) \/ Run(d) \/ Accept(d) \/ Receive(d) \/ ReceiveFails(d)
              \/ Work(d) \/ Reply(d) \/ Close(d) \/ Signal(d) \/ Dies(d)
         \/ \E c \in Clients : ClientStep(c) \/ KillClient(c)
         \/ UNCHANGED vars
BY DEF Next, DaemonStep, Environment, Moves, Dies, ReplyToNobody, Kill, Over

(* Every step keeps the types.                                             *)
LEMMA DaemonTypeStep == TypeOK /\ [Next]_vars => TypeOK'
<1> SUFFICES ASSUME TypeOK, [Next]_vars
             PROVE  TypeOK'
  OBVIOUS
<1>1. ASSUME NEW d \in Daemons, Moves(d)
      PROVE  TypeOK'
  <2> USE DEF TypeOK
  <2>1. UNCHANGED <<cpc, conn, sent, got>>
    BY <1>1 DEF Moves, Launch, Initialise, InitFails, Socket, SocketFails, Unlink, Bind,
         BindFails, Listen, ListenFails, Leave, AcceptFails, Remove, Move, clients
  <2>2. /\ pc[d] \in Outside /\ pc'[d] \in Outside \ {"off"}
        /\ pc' = [pc EXCEPT ![d] = pc'[d]]
        /\ UNCHANGED <<running, cur, resp, done, queue>>
        /\ path' \in {path, None, d}
        /\ sock' \in [Daemons -> {"stdin", "open", "closed"}]
        /\ asked' \in [Daemons -> {"no", "early", "yes"}]
    BY <1>1, MoveFacts
  <2>3. \A e \in Daemons : cur'[e] # None <=> pc'[e] \in {"recv", "work", "send"}
    <3>1. \A e \in Daemons : pc'[e] = IF e = d THEN pc'[d] ELSE pc[e]
      BY <2>2
    <3>2. cur[d] = None /\ cur' = cur /\ pc'[d] \notin {"recv", "work", "send"}
      BY <2>2 DEF Outside
    <3>3. QED
      BY <3>1, <3>2
  <2>4. pc' \in [Daemons -> Setup \union Loop
                               \union {"off", "close", "remove", "exited", "dead"}]
    BY <2>2 DEF Outside, Setup, Loop
  <2>5. QED
    BY <2>1, <2>2, <2>3, <2>4
<1> USE DEF TypeOK
<1>2. ASSUME NEW d \in Daemons, Run(d)
      PROVE  TypeOK'
  BY <1>2 DEF Run, Goto, life, clients, Setup, Loop
<1>3. ASSUME NEW d \in Daemons, Accept(d)
      PROVE  TypeOK'
  <2>1. Head(queue[d]) \in Clients /\ Tail(queue[d]) \in Seq(Clients)
    BY <1>3, HeadTailProperties DEF Accept
  <2>2. QED
    BY <1>3, <2>1, ProcessAssumption DEF Accept, Goto, life, clients, Setup, Loop
<1>4. ASSUME NEW d \in Daemons, Receive(d) \/ Work(d)
      PROVE  TypeOK'
  <2>1. CASE Receive(d)
    BY <2>1 DEF Receive, Goto, life, clients, Setup, Loop
  <2>2. CASE Work(d)
    <3>1. cur[d] \in Clients
      BY <2>2 DEF Work
    <3>2. PICK status \in {"ok", "error"} :
            /\ resp' = [resp EXCEPT ![d] = status]
            /\ done' = IF status = "ok" THEN done \union {cur[d]} ELSE done
      BY <2>2 DEF Work
    <3>3. QED
      BY <2>2, <3>1, <3>2 DEF Work, Goto, clients, Setup, Loop
  <2>3. QED
    BY <1>4, <2>1, <2>2
<1>5. ASSUME NEW d \in Daemons, ReceiveFails(d) \/ Reply(d)
      PROVE  TypeOK'
  <2>1. cur[d] \in Clients
    BY <1>5 DEF ReceiveFails, Reply
  <2>2. got' = got \/ got' = [got EXCEPT ![cur[d]] = resp[d]]
    BY <1>5 DEF ReceiveFails, Reply
  <2>3. /\ cur' = [cur EXCEPT ![d] = None] /\ pc' = [pc EXCEPT ![d] = "accept"]
        /\ conn' \in [Clients -> {"none", "open", "closed"}]
        /\ UNCHANGED <<path, sock, running, queue, resp, asked, done, cpc, sent>>
    BY <1>5 DEF ReceiveFails, Reply, Dismiss, Hangup, Goto, life
  <2>4. resp[d] \in {"ok", "error"}
    OBVIOUS
  <2>5. got' \in [Clients -> {"none", "ok", "error"}]
    BY <2>1, <2>2, <2>4
  <2>6. QED
    BY <2>3, <2>5 DEF Setup, Loop
<1>6. ASSUME NEW d \in Daemons, Close(d) \/ Signal(d) \/ Dies(d)
      PROVE  TypeOK'
  <2>1. <<>> \in Seq(Clients)
    BY EmptySeq
  <2>2. Noted(d) \in {"no", "early", "yes"}
    BY DEF Noted
  <2>3. CASE Close(d)
    BY <2>1, <2>3 DEF Close, CloseSocket, Hangup, Goto, life, Setup, Loop
  <2>4. CASE Signal(d)
    BY <2>1, <2>2, <2>4 DEF Signal, CloseSocket, Hangup
  <2>5. CASE Dies(d)
    BY <2>1, <2>5 DEF Dies, Die, CloseSocket, Hangup, Goto, Setup, Loop
  <2>6. QED
    BY <1>6, <2>3, <2>4, <2>5
<1>7. ASSUME NEW c \in Clients, Connect(c)
      PROVE  TypeOK'
  <2>1. path \in Daemons
    BY <1>7 DEF Connect, Reachable
  <2>2. Append(queue[path], c) \in Seq(Clients)
    BY <2>1, AppendProperties
  <2>3. QED
    BY <1>7, <2>1, <2>2 DEF Connect, ClientAt, life
<1>8. ASSUME NEW c \in Clients, ClientStep(c) \/ KillClient(c), ~Connect(c)
      PROVE  TypeOK'
  <2>1. /\ UNCHANGED <<path, pc, sock, running, queue, cur, resp, asked, done>>
        /\ cpc' \in [Clients -> {"idle", "connect", "send", "wait", "ok", "failed"}]
    BY <1>8 DEF ClientStep, KillClient, Look, ConnectRefused, SendRequest, SendToNobody,
                Finish, ClientAt, life
  <2>2. /\ conn' = conn /\ sent' \subseteq Clients
        /\ got' \in [Clients -> {"none", "ok", "error"}]
    BY <1>8 DEF ClientStep, KillClient, Look, ConnectRefused, SendRequest, SendToNobody,
                Finish
  <2>3. QED
    BY <2>1, <2>2
<1>9. CASE UNCHANGED vars
  BY <1>9 DEF vars, daemons, life, clients
<1>10. QED
  BY <1>1, <1>2, <1>3, <1>4, <1>5, <1>6, <1>7, <1>8, <1>9, NextCases

-----------------------------------------------------------------------------
(* The steps that leave the socket file alone: a daemon goes round its     *)
(* loop, ends or dies, and a client does anything.                         *)
LEMMA OtherFacts ==
  ASSUME TypeOK, NEW d \in Daemons,
         \/ Run(d) \/ Accept(d) \/ Receive(d) \/ ReceiveFails(d)
         \/ Work(d) \/ Reply(d) \/ Close(d) \/ Signal(d) \/ Dies(d)
  PROVE  /\ path' = path
         /\ pc' = [pc EXCEPT ![d] = pc'[d]] /\ pc'[d] # "off"
         /\ pc'[d] \in Named \/ pc'[d] = pc[d]
         /\ pc'[d] \in {"listen", "start"} \union Loop =>
              pc[d] \in {"listen", "start"} \union Loop
<1>1. DOMAIN pc = Daemons
  BY DEF TypeOK
<1> USE <1>1 DEF Goto, Named, Loop
<1>2. CASE Run(d)
  BY <1>2 DEF Run
<1>3. CASE Accept(d)
  BY <1>3 DEF Accept
<1>4. CASE Receive(d) \/ ReceiveFails(d)
  BY <1>4 DEF Receive, ReceiveFails, Dismiss
<1>5. CASE Work(d) \/ Reply(d)
  BY <1>5 DEF Work, Reply, Dismiss
<1>6. CASE Close(d)
  BY <1>6 DEF Close
<1>7. CASE Signal(d)
  <2>1. pc' = pc /\ path' = path
    BY <1>7 DEF Signal
  <2>2. pc[d] # "off"
    BY <1>7 DEF Signal, Alive, Setup
  <2>3. pc = [pc EXCEPT ![d] = pc[d]]
    BY DEF TypeOK
  <2>4. QED
    BY <2>1, <2>2, <2>3
<1>8. CASE Dies(d)
  BY <1>8 DEF Dies, Die
<1>9. QED
  BY <1>2, <1>3, <1>4, <1>5, <1>6, <1>7, <1>8

(* A client moves no daemon and no file.                                   *)
LEMMA ClientFacts ==
  ASSUME NEW c \in Clients, ClientStep(c) \/ KillClient(c)
  PROVE  UNCHANGED <<path, pc, sock, running, cur, resp, asked, done>>
BY DEF ClientStep, KillClient, Look, Connect, ConnectRefused, SendRequest, SendToNobody,
       Finish, ClientAt, life

(* The file belongs to the daemon that bound it last or to nobody: only an *)
(* unlink, a bind or the end of main moves it, and each of these leaves    *)
(* the daemon in a place where that is right.                              *)
LEMMA FileStep ==
  ASSUME TypeOK, FileHasOwner, FoundUnlessRival, [Next]_vars
  PROVE  FileHasOwner' /\ FoundUnlessRival'
<1> DEFINE Bound == {"listen", "start"} \union Loop
<1>0. None \notin Daemons /\ DOMAIN pc = Daemons
  BY ProcessAssumption DEF TypeOK
<1>1. ASSUME NEW d \in Daemons,
             pc' = [pc EXCEPT ![d] = pc'[d]], pc'[d] # "off",
             path' \in {path, None, d},
             path' = d /\ (path' = path => pc[d] \in Named) => pc'[d] \in Named,
             pc'[d] \in Bound => path' = d \/ (path' = path /\ pc[d] \in Bound)
      PROVE  FileHasOwner' /\ FoundUnlessRival'
  <2>1. \A e \in Daemons : e # d => pc'[e] = pc[e]
    BY <1>0, <1>1
  <2>2. ASSUME NEW e \in Daemons, path' = e
        PROVE  pc'[e] \in Named
    <3>1. CASE e = d
      BY <1>1, <2>2, <3>1 DEF FileHasOwner
    <3>2. CASE e # d
      BY <1>0, <1>1, <2>1, <2>2, <3>2 DEF FileHasOwner
    <3>3. QED
      BY <3>1, <3>2
  <2>3. ASSUME NEW e \in Daemons, pc'[e] \in Bound, path' # e
        PROVE  \E f \in Daemons \ {e} : pc'[f] # "off"
    <3>1. CASE e = d
      <4>1. PICK f \in Daemons \ {d} : pc[f] # "off"
        BY <1>1, <2>3, <3>1 DEF FoundUnlessRival, Hidden
      <4>2. QED
        BY <2>1, <3>1, <4>1
    <3>2. CASE e # d
      BY <1>1, <3>2
    <3>3. QED
      BY <3>1, <3>2
  <2>4. QED
    BY <2>2, <2>3 DEF FileHasOwner, FoundUnlessRival, Hidden
<1>2. ASSUME UNCHANGED <<path, pc>>
      PROVE  FileHasOwner' /\ FoundUnlessRival'
  BY <1>2 DEF FileHasOwner, FoundUnlessRival, Hidden
<1>3. ASSUME NEW d \in Daemons, Moves(d)
      PROVE  FileHasOwner' /\ FoundUnlessRival'
  <2>1. /\ pc' = [pc EXCEPT ![d] = pc'[d]] /\ pc'[d] # "off"
        /\ path' \in {path, None, d}
        /\ path' = d /\ (path' = path => pc[d] \in Named) => pc'[d] \in Named
        /\ pc'[d] \in Bound => path' = d \/ (path' = path /\ pc[d] \in Bound)
    BY <1>3, MoveFacts
  <2>2. QED
    BY <1>1, <2>1
<1>4. ASSUME NEW d \in Daemons,
             \/ Run(d) \/ Accept(d) \/ Receive(d) \/ ReceiveFails(d)
             \/ Work(d) \/ Reply(d) \/ Close(d) \/ Signal(d) \/ Dies(d)
      PROVE  FileHasOwner' /\ FoundUnlessRival'
  <2>1. /\ path' = path
        /\ pc' = [pc EXCEPT ![d] = pc'[d]] /\ pc'[d] # "off"
        /\ pc'[d] \in Named \/ pc'[d] = pc[d]
        /\ pc'[d] \in Bound => pc[d] \in Bound
    BY <1>4, OtherFacts
  <2>2. QED
    BY <1>1, <2>1
<1>5. ASSUME NEW c \in Clients, ClientStep(c) \/ KillClient(c)
      PROVE  FileHasOwner' /\ FoundUnlessRival'
  BY <1>2, <1>5, ClientFacts
<1>6. CASE UNCHANGED vars
  BY <1>2, <1>6 DEF vars, daemons
<1>7. QED
  BY <1>3, <1>4, <1>5, <1>6, NextCases

-----------------------------------------------------------------------------
(* An answer is made of a job done, and nothing turns another answer, or   *)
(* none, into it on its way.                                               *)
LEMMA AnswerStep == TypeOK /\ AnswersTrue /\ [Next]_vars => AnswersTrue'
<1> SUFFICES ASSUME TypeOK, AnswersTrue, [Next]_vars
             PROVE  AnswersTrue'
  OBVIOUS
<1>0. DOMAIN pc = Daemons /\ DOMAIN resp = Daemons /\ DOMAIN cur = Daemons
  BY DEF TypeOK
<1>1. ASSUME NEW d \in Daemons, UNCHANGED <<cpc, got, done, cur, resp>>,
             pc' = [pc EXCEPT ![d] = pc'[d]], pc'[d] = "send" => pc[d] = "send"
      PROVE  AnswersTrue'
  BY <1>0, <1>1 DEF AnswersTrue
<1>2. ASSUME NEW d \in Daemons, Moves(d)
      PROVE  AnswersTrue'
  <2>1. UNCHANGED <<cpc, got>>
    BY <1>2 DEF Moves, Launch, Initialise, InitFails, Socket, SocketFails, Unlink, Bind,
         BindFails, Listen, ListenFails, Leave, AcceptFails, Remove, Move, clients
  <2>2. /\ pc'[d] \in Outside /\ pc' = [pc EXCEPT ![d] = pc'[d]]
        /\ UNCHANGED <<cur, resp, done>>
    BY <1>2, MoveFacts
  <2>3. QED
    BY <1>1, <2>1, <2>2 DEF Outside
<1>3. ASSUME NEW d \in Daemons, Run(d) \/ Accept(d) \/ Receive(d) \/ ReceiveFails(d)
      PROVE  AnswersTrue'
  <2>1. /\ pc' = [pc EXCEPT ![d] = pc'[d]] /\ pc'[d] # "send"
        /\ UNCHANGED <<cpc, got, done, resp>>
        /\ cur' = [cur EXCEPT ![d] = cur'[d]]
    BY <1>0, <1>3 DEF Run, Accept, Receive, ReceiveFails, Dismiss, Goto, life, clients, TypeOK
  <2>2. QED
    BY <1>0, <2>1 DEF AnswersTrue
<1>4. ASSUME NEW d \in Daemons, Work(d)
      PROVE  AnswersTrue'
  <2>1. /\ done \subseteq done' /\ UNCHANGED <<cpc, got, cur>>
        /\ pc' = [pc EXCEPT ![d] = "send"]
        /\ resp' = [resp EXCEPT ![d] = resp'[d]]
        /\ resp'[d] = "ok" => cur[d] \in done'
    BY <1>0, <1>4 DEF Work, Goto, clients
  <2>2. QED
    BY <1>0, <2>1 DEF AnswersTrue
<1>5. ASSUME NEW d \in Daemons, Reply(d)
      PROVE  AnswersTrue'
  <2>1. /\ UNCHANGED <<done, cpc, resp>>
        /\ pc' = [pc EXCEPT ![d] = "accept"] /\ cur' = [cur EXCEPT ![d] = None]
        /\ got' = [got EXCEPT ![cur[d]] = resp[d]]
        /\ pc[d] = "send" /\ cur[d] \in Clients /\ DOMAIN got = Clients
    BY <1>5 DEF Reply, Dismiss, Goto, life, TypeOK
  <2>2. resp[d] = "ok" => cur[d] \in done
    BY <2>1 DEF AnswersTrue
  <2>3. \A c \in Clients : got'[c] = "ok" => c \in done
    BY <2>1, <2>2 DEF AnswersTrue
  <2>4. \A e \in Daemons : pc'[e] = "send" => pc[e] = "send" /\ cur'[e] = cur[e]
    BY <1>0, <2>1
  <2>5. QED
    BY <2>1, <2>3, <2>4 DEF AnswersTrue
<1>6. ASSUME NEW d \in Daemons, Close(d) \/ Dies(d)
      PROVE  AnswersTrue'
  <2>1. /\ UNCHANGED <<done, cpc, got>>
        /\ pc' = [pc EXCEPT ![d] = pc'[d]] /\ pc'[d] # "send"
        /\ \A e \in Daemons : e # d => cur'[e] = cur[e] /\ resp'[e] = resp[e]
    BY <1>0, <1>6 DEF Close, Dies, Die, Goto, life
  <2>2. QED
    BY <1>0, <2>1 DEF AnswersTrue
<1>7. ASSUME NEW d \in Daemons, Signal(d)
      PROVE  AnswersTrue'
  BY <1>7 DEF Signal, AnswersTrue
<1>8. ASSUME NEW c \in Clients, ClientStep(c) \/ KillClient(c)
      PROVE  AnswersTrue'
  <2>1. UNCHANGED <<pc, cur, resp, done>>
    BY <1>8, ClientFacts
  <2>2. DOMAIN cpc = Clients /\ DOMAIN got = Clients
    BY DEF TypeOK
  <2>3. CASE Finish(c)
    BY <2>1, <2>2, <2>3 DEF Finish, ClientAt, AnswersTrue
  <2>4. CASE ~Finish(c)
    <3>1. /\ got' = got
          /\ \A b \in Clients : cpc'[b] = "ok" => cpc[b] = "ok"
      BY <1>8, <2>2, <2>4
      DEF ClientStep, KillClient, Look, Connect, ConnectRefused, SendRequest,
          SendToNobody, ClientAt
    <3>2. QED
      BY <2>1, <3>1 DEF AnswersTrue
  <2>5. QED
    BY <2>3, <2>4
<1>9. CASE UNCHANGED vars
  BY <1>9 DEF vars, daemons, life, clients, AnswersTrue
<1>10. QED
  BY <1>2, <1>3, <1>4, <1>5, <1>6, <1>7, <1>8, <1>9, NextCases

-----------------------------------------------------------------------------
(* An open connection stays with the daemon that has it, from its queue to *)
(* its hand, until it is closed.                                           *)
LEMMA ConnectionStep == TypeOK /\ NoConnectionForgotten /\ [Next]_vars
                          => NoConnectionForgotten'
<1> SUFFICES ASSUME TypeOK, NoConnectionForgotten, [Next]_vars
             PROVE  NoConnectionForgotten'
  OBVIOUS
<1>0. /\ DOMAIN cur = Daemons /\ DOMAIN queue = Daemons /\ DOMAIN conn = Clients
      /\ \A d \in Daemons : queue[d] \in Seq(Clients)
      /\ None \notin Clients
  BY ProcessAssumption DEF TypeOK
<1>1. ASSUME NEW d \in Daemons,
             \A e \in Daemons : e # d => cur'[e] = cur[e] /\ queue'[e] = queue[e],
             \A c \in Clients : conn'[c] = "open" =>
                 Holds(d, c)' \/ (conn[c] = "open" /\ ~Holds(d, c))
      PROVE  NoConnectionForgotten'
  <2> SUFFICES ASSUME NEW c \in Clients, conn'[c] = "open"
               PROVE  \E e \in Daemons : Holds(e, c)'
    BY DEF NoConnectionForgotten
  <2>1. CASE Holds(d, c)'
    BY <2>1
  <2>2. CASE conn[c] = "open" /\ ~Holds(d, c)
    <3>1. PICK e \in Daemons : Holds(e, c)
      BY <2>2 DEF NoConnectionForgotten
    <3>2. e # d
      BY <2>2, <3>1
    <3>3. Holds(e, c)'
      BY <1>1, <3>1, <3>2 DEF Holds
    <3>4. QED
      BY <3>3
  <2>3. QED
    BY <1>1, <2>1, <2>2
<1>2. ASSUME UNCHANGED <<cur, queue, conn>>
      PROVE  NoConnectionForgotten'
  BY <1>2 DEF NoConnectionForgotten, Holds
<1>3. ASSUME NEW d \in Daemons, Moves(d) \/ Run(d) \/ Receive(d) \/ Work(d)
      PROVE  NoConnectionForgotten'
  <2>1. UNCHANGED <<cur, queue, conn>>
    BY <1>3 DEF Moves, Launch, Initialise, InitFails, Socket, SocketFails, Unlink, Bind,
         BindFails, Listen, ListenFails, Leave, AcceptFails, Remove, Move, clients,
         Run, Receive, Work
  <2>2. QED
    BY <1>2, <2>1
<1>4. ASSUME NEW d \in Daemons, Accept(d)
      PROVE  NoConnectionForgotten'
  <2>1. /\ cur' = [cur EXCEPT ![d] = Head(queue[d])]
        /\ queue' = [queue EXCEPT ![d] = Tail(queue[d])]
        /\ conn' = conn /\ queue[d] # <<>> /\ cur[d] = None
    BY <1>4 DEF Accept, clients, TypeOK
  <2>2. ASSUME NEW c \in Clients, Holds(d, c)
        PROVE  Holds(d, c)'
    <3>1. c \in Range(Tail(queue[d])) \union {Head(queue[d])}
      BY <1>0, <2>1, <2>2, QueueHolds DEF Holds
    <3>2. QED
      BY <1>0, <2>1, <3>1 DEF Holds
  <2>3. QED
    BY <1>0, <1>1, <2>1, <2>2
<1>5. ASSUME NEW d \in Daemons, ReceiveFails(d) \/ Reply(d)
      PROVE  NoConnectionForgotten'
  <2>1. /\ cur' = [cur EXCEPT ![d] = None] /\ queue' = queue
        /\ conn' = [c \in Clients |-> IF c \in {cur[d]} THEN "closed" ELSE conn[c]]
    BY <1>5 DEF ReceiveFails, Reply, Dismiss, Hangup
  <2>2. ASSUME NEW c \in Clients, conn'[c] = "open"
        PROVE  conn[c] = "open" /\ (Holds(d, c) => Holds(d, c)')
    BY <1>0, <2>1, <2>2 DEF Holds
  <2>3. QED
    BY <1>0, <1>1, <2>1, <2>2
<1>6. ASSUME NEW d \in Daemons, Close(d) \/ Signal(d) \/ Dies(d)
      PROVE  NoConnectionForgotten'
  <2>1. PICK lost \in {{}, {cur[d]}} :
          /\ queue' = [queue EXCEPT ![d] = <<>>]
          /\ conn' = [c \in Clients |-> IF c \in Range(queue[d]) \union lost
                                        THEN "closed" ELSE conn[c]]
          /\ cur' = [cur EXCEPT ![d] = cur'[d]]
          /\ cur'[d] = cur[d] \/ lost = {cur[d]}
    <3>1. cur = [cur EXCEPT ![d] = cur[d]]
      BY DEF TypeOK
    <3>2. CASE Close(d) \/ Signal(d)
      BY <3>1, <3>2 DEF Close, Signal, CloseSocket, Hangup
    <3>3. CASE Dies(d)
      BY <1>0, <3>3 DEF Dies, Die, CloseSocket, Hangup
    <3>4. QED
      BY <1>6, <3>2, <3>3
  <2>2. ASSUME NEW c \in Clients, conn'[c] = "open"
        PROVE  conn[c] = "open" /\ (Holds(d, c) => Holds(d, c)')
    <3>1. c \notin Range(queue[d]) \union lost /\ conn[c] = "open"
      BY <2>1, <2>2
    <3>2. QED
      BY <2>1, <3>1 DEF Holds
  <2>3. QED
    BY <1>0, <1>1, <2>1, <2>2
<1>7. ASSUME NEW c \in Clients, Connect(c)
      PROVE  NoConnectionForgotten'
  <2>1. PICK d \in Daemons :
          /\ cur' = cur
          /\ queue' = [queue EXCEPT ![d] = Append(queue[d], c)]
          /\ conn' = [conn EXCEPT ![c] = "open"]
    BY <1>7 DEF Connect, Reachable, ClientAt
  <2>2. Range(queue'[d]) = Range(queue[d]) \union {c}
    BY <1>0, <2>1, QueueHolds
  <2>3. \A b \in Clients : conn'[b] = "open" =>
          Holds(d, b)' \/ (conn[b] = "open" /\ ~Holds(d, b))
    BY <1>0, <2>1, <2>2 DEF Holds
  <2>4. QED
    BY <1>0, <1>1, <2>1, <2>3
<1>8. ASSUME NEW c \in Clients, ClientStep(c) \/ KillClient(c), ~Connect(c)
      PROVE  NoConnectionForgotten'
  <2>1. UNCHANGED <<cur, queue, conn>>
    BY <1>8 DEF ClientStep, KillClient, Look, ConnectRefused, SendRequest, SendToNobody,
                Finish, ClientAt
  <2>2. QED
    BY <1>2, <2>1
<1>9. CASE UNCHANGED vars
  BY <1>2, <1>9 DEF vars, daemons, clients
<1>10. QED
  BY <1>3, <1>4, <1>5, <1>6, <1>7, <1>8, <1>9, NextCases

-----------------------------------------------------------------------------
(* The invariant holds when nobody has started.                            *)
LEMMA DaemonInit == Init => DInv
<1> SUFFICES ASSUME Init
             PROVE  DInv
  OBVIOUS
<1>1. TypeOK
  BY EmptySeq DEF Init, TypeOK
<1>2. FileHasOwner /\ FoundUnlessRival
  BY ProcessAssumption DEF Init, FileHasOwner, FoundUnlessRival, Loop
<1>3. AnswersTrue
  BY DEF Init, AnswersTrue
<1>4. NoConnectionForgotten
  BY DEF Init, NoConnectionForgotten
<1>5. QED
  BY <1>1, <1>2, <1>3, <1>4 DEF DInv

(* The inductive invariant.                                                *)
LEMMA DaemonInvHolds == Spec => []DInv
<1>1. DInv /\ [Next]_vars => DInv'
  BY DaemonTypeStep, FileStep, AnswerStep, ConnectionStep DEF DInv
<1>2. QED
  BY <1>1, DaemonInit, PTL DEF Spec

(* Every variable of the daemons and the clients keeps its type, and a     *)
(* daemon has a client in hand exactly from accept to close.               *)
THEOREM DaemonTypeCorrect == Spec => []TypeOK
<1>1. DInv => TypeOK
  BY DEF DInv
<1>2. QED
  BY <1>1, DaemonInvHolds, PTL

(* lzo_gpu_client exits with 0 only if handle_compress_request or          *)
(* handle_decompress_request did its job, whoever dies on the way.         *)
THEOREM DaemonTrueAnswer == Spec => []TrueAnswer
<1>1. DInv => TrueAnswer
  BY DEF DInv, AnswersTrue, TrueAnswer
<1>2. QED
  BY <1>1, DaemonInvHolds, PTL

(* run_server forgets no connection: an open one is queued or in hand.     *)
THEOREM DaemonForgetsNoConnection == Spec => []NoConnectionForgotten
<1>1. DInv => NoConnectionForgotten
  BY DEF DInv
<1>2. QED
  BY <1>1, DaemonInvHolds, PTL

(* A daemon that ends in order, by a signal in any line or by an error,    *)
(* leaves no socket file of its own.                                       *)
THEOREM DaemonOrderlyExit == Spec => []OrderlyExitLeavesNoFile
<1>1. DInv => OrderlyExitLeavesNoFile
  BY DEF DInv, FileHasOwner, Named, Loop, OrderlyExitLeavesNoFile
<1>2. QED
  BY <1>1, DaemonInvHolds, PTL

(* A single daemon in its loop can always be found under SOCKET_PATH.      *)
THEOREM DaemonOnlyRivalHides == Spec => []OnlyRivalHides
<1>1. DInv => OnlyRivalHides
  BY DEF DInv, FoundUnlessRival, Hidden, OnlyRivalHides
<1>2. QED
  BY <1>1, DaemonInvHolds, PTL
=============================================================================
