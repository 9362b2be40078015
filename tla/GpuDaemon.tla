----------------------------- MODULE GpuDaemon -----------------------------
(***************************************************************************)
(* The OpenCL daemon of lzo_gpu/lzo_gpu_daemon.c and the client programs   *)
(* of lzo_gpu/lzo_gpu_client.c that talk to it over the Unix socket        *)
(* SOCKET_PATH.  A daemon is one thread that a signal may interrupt        *)
(* anywhere; one action is the code between two system calls.  Several     *)
(* daemons may be started, one after the other or side by side: they share *)
(* nothing but the name of the socket.                                     *)
(***************************************************************************)
EXTENDS Naturals, Sequences, Functions

CONSTANTS
  Daemons,     (* Daemon processes that may be started, once each.         *)
  Clients,     (* Client processes, one request each.                      *)
  Silent,      (* Those that may stop anywhere without ending.             *)
  MaxClients,  (* The length of the queue asked of listen().               *)
  None         (* No daemon, no client.                                    *)

ASSUME ProcessAssumption ==
  /\ Silent \subseteq Clients /\ MaxClients \in Nat
  /\ None \notin Daemons \union Clients

VARIABLES
  path,     (* The daemon whose socket the file SOCKET_PATH names.         *)
  pc,       (* Where each daemon is.                                       *)
  sock,     (* g_state.server_sock: 0 ("stdin"), a socket ("open") or -1.  *)
  running,  (* g_state.running                                             *)
  queue,    (* Connections not yet accepted.                               *)
  cur,      (* The client of client_sock.                                  *)
  resp,     (* The status of the response.                                 *)
  asked,    (* Whether d got a signal, "early" if before it had a socket.  *)
  cpc,      (* Where each client is.                                       *)
  conn,     (* Its connection: "none", "open", "closed" by the daemon.     *)
  sent,     (* The clients whose request was sent.                         *)
  got,      (* The response under way to a client.                         *)
  done      (* The clients whose job succeeded.                            *)

life    == <<asked, done>>
daemons == <<pc, sock, running, queue, cur, resp>>
clients == <<cpc, conn, sent, got>>
vars    == <<path, daemons, life, clients>>

Setup    == {"init", "socket", "unlink", "bind", "listen", "start"}
Loop     == {"accept", "recv", "work", "send"}
Alive(d) == pc[d] \in Setup \union Loop \union {"close", "remove"}
Ended(c) == cpc[c] \in {"ok", "failed"}

(* connect() reaches a daemon: its socket is bound, open and listens.      *)
Listening(d) ==
  sock[d] = "open" /\ pc[d] \in Loop \union {"start", "close"}
Reachable == \E d \in Daemons : path = d /\ Listening(d)

Init ==
  /\ path = None
  /\ pc = [d \in Daemons |-> "off"]
  /\ sock = [d \in Daemons |-> "stdin"]
  /\ running = [d \in Daemons |-> FALSE]
  /\ queue = [d \in Daemons |-> <<>>]
  /\ cur = [d \in Daemons |-> None]
  /\ resp = [d \in Daemons |-> "ok"]
  /\ asked = [d \in Daemons |-> "no"]
  /\ cpc = [c \in Clients |-> "idle"]
  /\ conn = [c \in Clients |-> "none"]
  /\ sent = {}
  /\ got = [c \in Clients |-> "none"]
  /\ done = {}

-----------------------------------------------------------------------------
Goto(d, l) == pc' = [pc EXCEPT ![d] = l]

(* A step of main and start_server that moves d from one place to another. *)
Move(d, from, to) ==
  /\ pc[d] = from
  /\ Goto(d, to)
  /\ asked' = IF to = "exited" THEN [asked EXCEPT ![d] = "no"] ELSE asked
  /\ UNCHANGED <<running, cur, resp, done, clients, queue>>

(* The clients `lost` find their connection closed.                        *)
Hangup(lost) ==
  conn' = [c \in Clients |-> IF c \in lost THEN "closed" ELSE conn[c]]

(* The listening socket goes, and with it the connections in its queue.    *)
CloseSocket(d, lost) ==
  /\ sock' = [sock EXCEPT ![d] = "closed"]
  /\ queue' = [queue EXCEPT ![d] = <<>>]
  /\ Hangup(Range(queue[d]) \union lost)

(* main: start, OpenCL set-up (a failure returns 1 at once).               *)
Launch(d)     == Move(d, "off", "init") /\ UNCHANGED <<path, sock>>
Initialise(d) == Move(d, "init", "socket") /\ UNCHANGED <<path, sock>>
InitFails(d)  == Move(d, "init", "exited") /\ UNCHANGED <<path, sock>>

(* start_server.  Between any two of its calls a signal may have closed    *)
(* the socket, and another daemon may have bound the path.                 *)
Socket(d) ==
  /\ Move(d, "socket", "unlink")
  /\ sock' = [sock EXCEPT ![d] = "open"]
  /\ UNCHANGED path

SocketFails(d) ==
  /\ Move(d, "socket", "exited")
  /\ sock' = [sock EXCEPT ![d] = "closed"]
  /\ UNCHANGED path

Unlink(d) == Move(d, "unlink", "bind") /\ path' = None /\ UNCHANGED sock

Bind(d) ==
  /\ sock[d] = "open" /\ path = None
  /\ Move(d, "bind", "listen")
  /\ path' = d
  /\ UNCHANGED sock

BindFails(d) ==
  /\ sock[d] = "closed" \/ path # None
  /\ Move(d, "bind", "exited")
  /\ sock' = [sock EXCEPT ![d] = "closed"]
  /\ UNCHANGED path

Listen(d) ==
  /\ sock[d] = "open"
  /\ Move(d, "listen", "start")
  /\ UNCHANGED <<path, sock>>

(* Slips: the failure leaves the socket file; it does not return. *)
ListenFailsFile(d) ==
  sock[d] = "closed" /\ Move(d, "listen", "exited") /\ UNCHANGED <<path, sock>>

ListenFailsOn(d) ==
  /\ sock[d] = "closed"
  /\ Move(d, "listen", "start")
  /\ path' = None
  /\ UNCHANGED sock

ListenFails(d) ==
  /\ sock[d] = "closed"
  /\ Move(d, "listen", "exited")
  /\ path' = None
  /\ UNCHANGED sock

-----------------------------------------------------------------------------
(* run_server.                                                             *)
Run(d) ==
  /\ pc[d] = "start"
  /\ running' = [running EXCEPT ![d] = TRUE]
  /\ Goto(d, "accept")
  /\ UNCHANGED <<path, sock, queue, cur, resp, life, clients>>

Accept(d) ==
  /\ pc[d] = "accept" /\ running[d] /\ sock[d] = "open" /\ queue[d] # <<>>
  /\ cur' = [cur EXCEPT ![d] = Head(queue[d])]
  /\ queue' = [queue EXCEPT ![d] = Tail(@)]
  /\ Goto(d, "recv")
  /\ UNCHANGED <<path, sock, running, resp, life, clients>>

(* The loop ends because running was cleared, or because accept is handed  *)
(* a closed socket; AcceptFails is any other error of accept.              *)
Leave(d) ==
  /\ ~running[d] \/ sock[d] = "closed"
  /\ Move(d, "accept", "close")
  /\ UNCHANGED <<path, sock>>

AcceptFails(d) == Move(d, "accept", "close") /\ UNCHANGED <<path, sock>>

(* client_sock is closed, and the loop goes round.                         *)
Dismiss(d) ==
  /\ cur' = [cur EXCEPT ![d] = None]
  /\ Hangup({cur[d]})
  /\ Goto(d, "accept")

(* The whole request is read; or the client is gone, or only a part of the *)
(* request came.                                                           *)
Receive(d) ==
  /\ pc[d] = "recv" /\ cur[d] \in sent
  /\ Goto(d, "work")
  /\ UNCHANGED <<path, sock, running, queue, cur, resp, life, clients>>

(* Slips: the connection stays open; the answer is sent all the same; the *)
(* loop goes on with a connection that was closed.                        *)
ReceiveFailsOpen(d) ==
  /\ pc[d] = "recv" /\ (cur[d] \in sent \/ Ended(cur[d]))
  /\ cur' = [cur EXCEPT ![d] = None]
  /\ Goto(d, "accept")
  /\ UNCHANGED <<path, sock, running, queue, resp, life, clients>>

ReceiveFailsOn(d) ==
  /\ pc[d] = "recv" /\ (cur[d] \in sent \/ Ended(cur[d]))
  /\ Goto(d, "send")
  /\ UNCHANGED <<path, sock, running, queue, cur, resp, life, clients>>

ReceiveFailsThrough(d) ==
  /\ pc[d] = "recv" /\ (cur[d] \in sent \/ Ended(cur[d]))
  /\ cur' = [cur EXCEPT ![d] = None]
  /\ Hangup({cur[d]})
  /\ Goto(d, "send")
  /\ UNCHANGED <<path, sock, running, queue, resp, life, cpc, sent, got>>

ReceiveFails(d) ==
  /\ pc[d] = "recv" /\ (cur[d] \in sent \/ Ended(cur[d]))
  /\ Dismiss(d)
  /\ UNCHANGED <<path, sock, running, queue, resp, life, cpc, sent, got>>

(* handle_compress_request, handle_decompress_request, or no such request. *)
Work(d) ==
  /\ pc[d] = "work"
  /\ \E status \in {"ok", "error"} :
       /\ resp' = [resp EXCEPT ![d] = status]
       /\ done' = IF status = "ok" THEN done \union {cur[d]} ELSE done
  /\ Goto(d, "send")
  /\ UNCHANGED <<path, sock, running, queue, cur, asked, clients>>

(* The process dies without a chance to clean up: the kernel closes what   *)
(* it had open, and the socket file stays.                                 *)
Die(d) ==
  /\ Goto(d, "dead")
  /\ CloseSocket(d, {cur[d]})
  /\ running' = [running EXCEPT ![d] = FALSE]
  /\ cur' = [cur EXCEPT ![d] = None]
  /\ resp' = [resp EXCEPT ![d] = "ok"]
  /\ asked' = [asked EXCEPT ![d] = "no"]
  /\ UNCHANGED <<path, done, cpc, sent, got>>

(* send() with no flags: a client that is gone costs the daemon its life,  *)
(* by SIGPIPE.                                                             *)
Reply(d) ==
  /\ pc[d] = "send" /\ ~Ended(cur[d])
  /\ got' = [got EXCEPT ![cur[d]] = resp[d]]
  /\ Dismiss(d)
  /\ UNCHANGED <<path, sock, running, queue, resp, life, cpc, sent>>

ReplyToNobody(d) == pc[d] = "send" /\ Ended(cur[d]) /\ Die(d)

(* The end of main.                                                        *)
Close(d) ==
  /\ pc[d] = "close"
  /\ CloseSocket(d, {})
  /\ Goto(d, "remove")
  /\ UNCHANGED <<path, running, cur, resp, life, cpc, sent, got>>

Remove(d) == Move(d, "remove", "exited") /\ path' = None /\ UNCHANGED sock

DaemonStep(d) ==
  \/ Initialise(d) \/ Socket(d) \/ Unlink(d) \/ Bind(d) \/ BindFails(d)
  \/ Listen(d) \/ ListenFails(d) \/ Run(d)
  \/ Accept(d) \/ Leave(d) \/ Receive(d) \/ ReceiveFails(d) \/ Work(d)
  \/ Reply(d) \/ ReplyToNobody(d) \/ Close(d) \/ Remove(d)

-----------------------------------------------------------------------------
(* signal_handler.  Before start_server, server_sock is the 0 of a static  *)
(* variable, and the handler closes standard input.                        *)
Noted(d) == IF pc[d] \in {"init", "socket"} /\ asked[d] = "no"
            THEN "early" ELSE IF pc[d] \in {"init", "socket"} THEN asked[d]
            ELSE "yes"

(* Slip: the handler leaves the socket to the loop. *)
SignalFlag(d) ==
  /\ Alive(d)
  /\ running' = [running EXCEPT ![d] = FALSE]
  /\ asked' = [asked EXCEPT ![d] = Noted(d)]
  /\ UNCHANGED <<path, pc, sock, queue, cur, resp, done, clients>>

Signal(d) ==
  /\ Alive(d)
  /\ running' = [running EXCEPT ![d] = FALSE]
  /\ asked' = [asked EXCEPT ![d] = Noted(d)]
  /\ CloseSocket(d, {})
  /\ UNCHANGED <<path, pc, cur, resp, done, cpc, sent, got>>

(* SIGKILL, or a trap on the way.                                          *)
Kill(d) == Alive(d) /\ Die(d)

-----------------------------------------------------------------------------
(* A client: is_daemon_running, connect, send, recv, the exit code.        *)
ClientAt(c, from, to) ==
  /\ cpc[c] = from
  /\ cpc' = [cpc EXCEPT ![c] = to]
  /\ UNCHANGED <<path, pc, sock, running, cur, resp, life>>

(* access(): that there is a file is taken for a running daemon.           *)
Look(c) ==
  /\ ClientAt(c, "idle", IF path = None THEN "failed" ELSE "connect")
  /\ UNCHANGED <<queue, conn, sent, got>>

(* The kernel queues one connection more than listen() asked for, and lets *)
(* the next one wait.                                                      *)
Connect(c) ==
  /\ Reachable /\ Len(queue[path]) <= MaxClients
  /\ ClientAt(c, "connect", "send")
  /\ queue' = [queue EXCEPT ![path] = Append(@, c)]
  /\ conn' = [conn EXCEPT ![c] = "open"]
  /\ UNCHANGED <<sent, got>>

ConnectRefused(c) ==
  /\ ~Reachable
  /\ ClientAt(c, "connect", "failed")
  /\ UNCHANGED <<queue, conn, sent, got>>

SendRequest(c) ==
  /\ conn[c] = "open"
  /\ ClientAt(c, "send", "wait")
  /\ sent' = sent \union {c}
  /\ UNCHANGED <<queue, conn, got>>

(* Nobody at the other end: SIGPIPE, here too.                             *)
SendToNobody(c) ==
  /\ conn[c] = "closed"
  /\ ClientAt(c, "send", "failed")
  /\ UNCHANGED <<queue, conn, sent, got>>

Finish(c) ==
  /\ conn[c] = "closed"
  /\ ClientAt(c, "wait", IF got[c] = "ok" THEN "ok" ELSE "failed")
  /\ got' = [got EXCEPT ![c] = "none"]
  /\ UNCHANGED <<queue, conn, sent>>

ClientStep(c) ==
  \/ Look(c) \/ Connect(c) \/ ConnectRefused(c)
  \/ SendRequest(c) \/ SendToNobody(c) \/ Finish(c)

KillClient(c) ==
  /\ ~Ended(c)
  /\ ClientAt(c, cpc[c], "failed")
  /\ UNCHANGED <<queue, conn, sent, got>>

Over ==
  /\ \A d \in Daemons : pc[d] \in {"exited", "dead"}
  /\ \A c \in Clients : Ended(c)
  /\ UNCHANGED vars

Environment(d) ==
  \/ Launch(d) \/ InitFails(d) \/ SocketFails(d) \/ AcceptFails(d)
  \/ Signal(d) \/ Kill(d)

Next ==
  \/ \E d \in Daemons : DaemonStep(d) \/ Environment(d)
  \/ \E c \in Clients : ClientStep(c) \/ KillClient(c)
  \/ Over

Spec == Init /\ [][Next]_vars

(* A daemon goes on when it can, and so does a client that is not silent.  *)
FairSpec ==
  /\ Spec
  /\ \A d \in Daemons : WF_vars(DaemonStep(d))
  /\ \A c \in Clients \ Silent : WF_vars(ClientStep(c))

-----------------------------------------------------------------------------
(* The values each variable may take; a daemon has a client in hand only   *)
(* between accept and close.                                               *)
TypeOK ==
  /\ path \in Daemons \union {None}
  /\ pc \in [Daemons -> Setup \union Loop
                          \union {"off", "close", "remove", "exited", "dead"}]
  /\ sock \in [Daemons -> {"stdin", "open", "closed"}]
  /\ running \in [Daemons -> BOOLEAN]
  /\ queue \in [Daemons -> Seq(Clients)]
  /\ cur \in [Daemons -> Clients \union {None}]
  /\ \A d \in Daemons : cur[d] # None <=> pc[d] \in {"recv", "work", "send"}
  /\ resp \in [Daemons -> {"ok", "error"}]
  /\ asked \in [Daemons -> {"no", "early", "yes"}]
  /\ cpc \in [Clients -> {"idle", "connect", "send", "wait", "ok", "failed"}]
  /\ conn \in [Clients -> {"none", "open", "closed"}]
  /\ sent \subseteq Clients /\ done \subseteq Clients
  /\ got \in [Clients -> {"none", "ok", "error"}]

(* A client exits with 0 only if the daemon did its job: an answer is never *)
(* made up from a connection that broke, a request that came in part, or   *)
(* the request before.                                                     *)
TrueAnswer == \A c \in Clients : cpc[c] = "ok" => c \in done

(* Every open connection is in the queue of one daemon or is the one it    *)
(* serves: no path of the loop forgets to close one, so that no client     *)
(* waits for an answer that nobody will give.                              *)
Holds(d, c) == cur[d] = c \/ c \in Range(queue[d])
NoConnectionForgotten ==
  \A c \in Clients : conn[c] = "open" => \E d \in Daemons : Holds(d, c)

(* However a daemon that is not killed comes to its end, by a signal in    *)
(* any line or by an error, it leaves no socket file of its own behind.    *)
OrderlyExitLeavesNoFile == \A d \in Daemons : path = d => pc[d] # "exited"

(* A daemon in its loop can be found under the path, unless another one    *)
(* was started: only a rival may hide it.                                  *)
OnlyRivalHides ==
  \A d \in Daemons :
    /\ pc[d] \in Loop /\ path # d
    => \E e \in Daemons \ {d} : pc[e] # "off"

(* A daemon waits in recv for a silent client.                             *)
StuckOn(d) == pc[d] = "recv" /\ cur[d] \in Silent \ sent

(* A signal that comes once there is a server socket ends the daemon, in   *)
(* whatever line it comes, but for a client that stays silent: recv is     *)
(* restarted after the handler.                                            *)
StopObeyed ==
  \A d \in Daemons :
    (asked[d] = "yes") ~> (~Alive(d) \/ [](StuckOn(d)))

(* A client that asks comes to an end, whoever dies or is stopped on the   *)
(* way, unless a silent client holds up a daemon.                          *)
ClientAnswered ==
  \A c \in Clients \ Silent :
    (cpc[c] = "connect") ~> (Ended(c) \/ [](\E d \in Daemons : StuckOn(d)))

(* A signal ends the daemon, as the handler says ("received a signal,      *)
(* preparing to exit").                                                    *)
SignalStops == \A d \in Daemons : (asked[d] # "no") ~> ~Alive(d)
=============================================================================
