---------------------------- MODULE SocketServer ----------------------------
(***************************************************************************)
(* simple_socket_server.cc and simple_socket_client.cc.  A master process  *)
(* accepts TCP connections and passes each descriptor over a unix socket   *)
(* of its own to a slave process, which serves it in a detached thread;    *)
(* the client sends a message and waits for "received".  Another client    *)
(* mode connects straight to the slave's unix socket.                      *)
(*                                                                         *)
(* A step is one system call, with what follows it up to the next one that *)
(* can block or fail.  A TCP connection is named by its client.  A message *)
(* is a number of units that read may return in parts; an answer is one    *)
(* unit.  No descriptor is ever closed while a process lives.              *)
(***************************************************************************)
EXTENDS Naturals, Sequences, FiniteSets, SequencesExt

CONSTANTS
  Client,       \* processes run as "tcp host port"
  UnixClient,   \* processes run as "unix path", with the slave's path
  Units,        \* largest message
  Backlog,      \* 5: pending connections listen() allows
  FdLimits      \* descriptors a process may open for connections, one of these

ASSUME SocketAssumption ==
  /\ IsFiniteSet(Client) /\ IsFiniteSet(UnixClient) /\ Client \cap UnixClient = {}
  /\ Units \in Nat \ {0} /\ Backlog \in Nat \ {0}
  /\ FdLimits \subseteq Nat

VARIABLES
  path,         \* the slave's socket file exists
  master,       \* the master's next call, and the connection it works on
  slave,        \* the slave's next call, and the unix connection it accepted
  tcp, unix,    \* the pending connections of the two listening sockets
  masterHas,    \* connections the master accepted
  transit,      \* connections whose descriptor was sent and not received
  slaveHas,     \* connections the slave received
  fds,          \* descriptors each process can still open
  thread,       \* thread[c]: next call of process_connection for c
  client,       \* next call of each client, or how it ended
  input,        \* input[c]: units written by c and not read
  answers,      \* answers[c]: answers sent to c and not read
  whole,        \* whole[c]: every message of c was read in one piece so far
  events           \* what happened besides clients asking and being answered

serverVars == <<path, master, slave, unix, fds>>
streamVars == <<thread, client, input, answers, whole>>
socketVars == <<serverVars, streamVars, tcp, masterHas, transit, slaveHas, events>>

None == "none"
At(step) == [at |-> step, conn |-> None]

SocketInit ==
  /\ path \in BOOLEAN
  /\ events = IF path THEN {"path"} ELSE {}
  /\ master = At("start") /\ slave = At("start")
  /\ tcp = << >> /\ unix = << >>
  /\ masterHas = {} /\ transit = {} /\ slaveHas = {}
  /\ fds \in [{"master", "slave"} -> FdLimits]
  /\ thread = [c \in Client |-> "none"]
  /\ client = [c \in Client \cup UnixClient |-> "start"]
  /\ input = [c \in Client |-> 0]
  /\ answers = [c \in Client |-> 0]
  /\ whole = [c \in Client |-> TRUE]

MasterListens == master.at \notin {"start", "exited"}
SlaveListens == slave.at \notin {"start", "dead"}

\* some descriptor of the server's end of c is open
Open(c) == c \in ToSet(tcp) \cup masterHas \cup transit \cup slaveHas

----------------------------------------------------------------------------
(* The master: main with isMaster == 0                                     *)

\* exit(-1), or death by SIGPIPE: its descriptors are closed
MasterExits(why) ==
  /\ master' = At("exited")
  /\ tcp' = << >> /\ masterHas' = {}
  /\ events' = events \cup why
  /\ UNCHANGED <<path, slave, unix, fds, streamVars, transit, slaveHas>>

\* A socket or bind that fails here is reported and not acted on; it is assumed to
\* succeed, as are the same calls of the slave but for the socket file left over.
MasterStart ==
  /\ master.at = "start"
  /\ master' = At("accept")
  /\ UNCHANGED <<path, slave, unix, fds, streamVars, tcp, masterHas, transit, slaveHas, events>>

MasterAccept ==
  /\ master.at = "accept" /\ fds.master > 0
  /\ tcp # << >>
  /\ master' = [at |-> "connect", conn |-> Head(tcp)]
  /\ tcp' = Tail(tcp)
  /\ masterHas' = masterHas \cup {Head(tcp)}
  /\ fds' = [fds EXCEPT !.master = @ - 1]
  /\ UNCHANGED <<path, slave, unix, streamVars, transit, slaveHas, events>>

\* accept fails, which is only reported, or socket(AF_UNIX) fails, which ends
\* the master: without a free descriptor the second follows from the first
MasterOutOfFds ==
  /\ master.at \in {"accept", "connect"} /\ fds.master = 0
  /\ MasterExits({"fds"})

\* connect waits for room among the pending connections
MasterConnect ==
  /\ master.at = "connect" /\ fds.master > 0
  /\ SlaveListens /\ Len(unix) < Backlog
  /\ unix' = Append(unix, master.conn)
  /\ fds' = [fds EXCEPT !.master = @ - 1]
  /\ master' = [master EXCEPT !.at = "send"]
  /\ UNCHANGED <<path, slave, streamVars, tcp, masterHas, transit, slaveHas, events>>

\* nobody listens on the path
FullOrNobody == ~SlaveListens \/ Len(unix) >= Backlog        \* mutant
NobodyListens == ~SlaveListens

MasterRefused ==
  /\ master.at = "connect" /\ fds.master > 0
  /\ NobodyListens
  /\ MasterExits(IF slave.at = "start" THEN {"early"} ELSE {})

\* sendfd; the unix socket is not closed afterwards
MasterSends ==
  /\ master.at = "send" /\ SlaveListens
  /\ master' = At("accept")
  /\ \/ transit' = transit \cup {master.conn} /\ UNCHANGED events
     \/ events' = events \cup {"sendfd"} /\ UNCHANGED transit      \* only reported
  /\ UNCHANGED <<path, slave, unix, fds, streamVars, tcp, masterHas, slaveHas>>

\* the slave, and with it the other end of the unix socket, is gone
MasterSigpipe ==
  /\ master.at = "send" /\ ~SlaveListens
  /\ MasterExits({})

Master ==
  \/ MasterStart \/ MasterAccept \/ MasterOutOfFds \/ MasterConnect \/ MasterRefused
  \/ MasterSends \/ MasterSigpipe

----------------------------------------------------------------------------
(* The slave: main with isMaster != 0, and its threads                     *)

\* bind fails if the file exists: it is never unlinked
SlaveStart ==
  /\ slave.at = "start"
  /\ slave' = At(IF path THEN "dead" ELSE "accept")
  /\ path' = TRUE
  /\ UNCHANGED <<master, unix, fds, streamVars, tcp, masterHas, transit, slaveHas, events>>

SlaveRestart ==
  /\ slave.at = "dead"
  /\ slave' = At("start")
  /\ UNCHANGED <<path, master, unix, fds, streamVars, tcp, masterHas, transit, slaveHas, events>>

\* without a free descriptor accept fails, recvfd(-1) fails, and both are tried
\* again for ever
SlaveAccept ==
  /\ slave.at = "accept"
  /\ IF fds.slave > 0
       THEN /\ unix # << >>
            /\ slave' = [at |-> "recvfd", conn |-> Head(unix)]
            /\ unix' = Tail(unix)
            /\ fds' = [fds EXCEPT !.slave = @ - 1]
            /\ UNCHANGED events
       ELSE /\ events' = events \cup {"fds"}
            /\ UNCHANGED <<slave, unix, fds>>
  /\ UNCHANGED <<path, master, streamVars, tcp, masterHas, transit, slaveHas>>

\* recvfd has a descriptor, and a thread is started for it
SlaveReceives ==
  LET c == slave.conn IN
  /\ slave.at = "recvfd" /\ c \in transit /\ fds.slave > 0
  /\ slave' = At("accept")
  /\ transit' = transit \ {c}
  /\ slaveHas' = slaveHas \cup {c}
  /\ fds' = [fds EXCEPT !.slave = @ - 1]
  /\ thread' = [thread EXCEPT ![c] = "read"]
  /\ UNCHANGED <<path, master, unix, client, input, answers, whole, tcp, masterHas, events>>

\* recvmsg returns without one: the kernel had none to give, the other end is
\* closed, or it is a client that has written text
NoDescriptor(c) ==
  \/ c \in transit /\ fds.slave = 0
  \/ c \in Client \ transit /\ master.at = "exited"
  \/ c \in UnixClient /\ client[c] \in {"waiting", "gone"}

SlaveReceivesNone ==
  /\ slave.at = "recvfd" /\ NoDescriptor(slave.conn)
  /\ slave' = At("accept")
  /\ transit' = transit \ {slave.conn}
  /\ events' = IF slave.conn \in transit THEN events \cup {"fds"} ELSE events
  /\ UNCHANGED <<path, master, unix, fds, streamVars, tcp, masterHas, slaveHas>>

\* process_connection's read: a part of the input, or nothing when the client
\* is gone.  Bound: one message of a client is read in parts.
ReadsAtOnce(c) == 0 .. input[c]                              \* mutant
Readable(c) ==
  IF input[c] > 0
    THEN {n \in 1 .. input[c] : n = input[c] \/ whole[c]}
    ELSE IF client[c] = "gone" THEN {0} ELSE {}

ThreadReads(c) ==
  /\ thread[c] = "read"
  /\ \E n \in Readable(c) :
       /\ input' = [input EXCEPT ![c] = @ - n]
       /\ whole' = [whole EXCEPT ![c] = @ /\ n = input[c]]
  /\ thread' = [thread EXCEPT ![c] = "send"]
  /\ UNCHANGED <<serverVars, tcp, masterHas, transit, slaveHas, client, answers, events>>

\* the answer follows whatever read returned, and the loop has no end
AnswersOnce(c) == "none"                                     \* mutant
AfterAnswer(c) == "read"

ThreadSends(c) ==
  /\ thread[c] = "send"
  /\ thread' = [thread EXCEPT ![c] = AfterAnswer(c)]
  /\ answers' = IF client[c] = "gone" THEN answers ELSE [answers EXCEPT ![c] = @ + 1]
  /\ UNCHANGED <<serverVars, tcp, masterHas, transit, slaveHas, client, input, whole, events>>

\* once the client's end has answered with a reset, send raises SIGPIPE, which
\* ends the slave and all its threads
SlaveSigpipe(c) ==
  /\ thread[c] = "send" /\ client[c] = "gone"
  /\ slave' = At("dead")
  /\ unix' = << >> /\ transit' = {} /\ slaveHas' = {}
  /\ thread' = [d \in Client |-> "none"]
  /\ UNCHANGED <<path, master, fds, tcp, masterHas, client, input, answers, whole, events>>

Serve(c) == ThreadReads(c) \/ ThreadSends(c) \/ SlaveSigpipe(c)
Slave == SlaveStart \/ SlaveAccept \/ SlaveReceives \/ SlaveReceivesNone

----------------------------------------------------------------------------
(* The clients                                                             *)

Goes(c, from, to) ==
  /\ client[c] \in from
  /\ client' = [client EXCEPT ![c] = to]

\* connect succeeds as soon as the connection is pending
Connects(c) ==
  /\ Goes(c, {"start"}, "prompt")
  /\ \/ /\ c \in Client /\ MasterListens /\ Len(tcp) < Backlog
        /\ tcp' = Append(tcp, c)
        /\ UNCHANGED unix
     \/ /\ c \in UnixClient /\ SlaveListens /\ Len(unix) < Backlog
        /\ unix' = Append(unix, c)
        /\ UNCHANGED tcp
  /\ UNCHANGED <<path, master, slave, fds, thread, input, answers, whole, masterHas, transit,
                 slaveHas, events>>

Refused(c) ==
  /\ Goes(c, {"start"}, "refused")
  /\ IF c \in Client THEN ~MasterListens ELSE ~SlaveListens
  /\ UNCHANGED <<serverVars, tcp, masterHas, transit, slaveHas, thread, input, answers, whole,
                 events>>

\* a line of stdin; at its end the buffer stays empty, nothing is written and
\* the client waits all the same ("mute")
Writes(c, n) ==
  /\ Goes(c, {"prompt"}, IF n = 0 THEN "mute" ELSE "waiting")
  /\ input' = IF c \in Client /\ Open(c) THEN [input EXCEPT ![c] = @ + n] ELSE input
  /\ UNCHANGED <<serverVars, tcp, masterHas, transit, slaveHas, thread, answers, whole, events>>

\* write after the server's end has been closed: error() or SIGPIPE
WriteFails(c) ==
  /\ Goes(c, {"prompt"}, "gone")
  /\ c \in Client /\ ~Open(c)
  /\ UNCHANGED <<serverVars, tcp, masterHas, transit, slaveHas, thread, input, answers, whole,
                 events>>

\* read returns one or more answers at once; an answer is a unit, not read in parts
ReadsAnswer(c) ==
  /\ Goes(c, {"waiting", "mute"}, "prompt")
  /\ c \in Client
  /\ \E n \in 1 .. answers[c] : answers' = [answers EXCEPT ![c] = @ - n]
  /\ UNCHANGED <<serverVars, tcp, masterHas, transit, slaveHas, thread, input, whole, events>>

\* read returns 0, which the client does not tell from an answer
ReadsEnd(c) ==
  /\ Goes(c, {"waiting", "mute"}, "prompt")
  /\ c \in Client /\ ~Open(c) /\ answers[c] = 0
  /\ UNCHANGED <<serverVars, tcp, masterHas, transit, slaveHas, thread, input, answers, whole,
                 events>>

\* the user ends the client, which has no other end
Leaves(c) ==
  /\ Goes(c, {"prompt", "waiting", "mute"}, "gone")
  /\ events' = events \cup {"left"}
  /\ UNCHANGED <<serverVars, tcp, masterHas, transit, slaveHas, thread, input, answers, whole>>

SocketNext ==
  \/ Master \/ Slave \/ SlaveRestart
  \/ \E c \in Client : Serve(c) \/ WriteFails(c) \/ ReadsAnswer(c) \/ ReadsEnd(c)
  \/ \E c \in Client \cup UnixClient :
       \/ Connects(c) \/ Refused(c) \/ Leaves(c)
       \/ \E n \in 0 .. Units : Writes(c, n)

\* Processes and threads are scheduled; users may do nothing for ever.
SocketSpec ==
  /\ SocketInit /\ [][SocketNext]_socketVars
  /\ WF_socketVars(Master) /\ WF_socketVars(Slave)
  /\ \A c \in Client : WF_socketVars(Serve(c)) /\ WF_socketVars(ReadsAnswer(c))

----------------------------------------------------------------------------
\* The server comes down only if a client leaves its connection, a descriptor
\* limit is reached, the socket file was left over or the master met a client
\* before the slave listened: slow clients, messages in parts, empty messages,
\* clients of the unix socket and failing sendfd calls do no harm.
ServerStays ==
  slave.at = "dead" \/ master.at = "exited" => events \cap {"left", "fds", "path", "early"} # {}

\* As long as its connection is open, a client that has read an answer has been
\* read: no answer to an earlier message is left that would pass for the answer
\* to the next one.  A message that was read in parts breaks this for good.
LockStep ==
  \A c \in Client :
    client[c] = "prompt" /\ whole[c] /\ Open(c) =>
      input[c] = 0 /\ answers[c] = 0 /\ thread[c] # "send"

\* the slave waits in recvfd for a unix client that has not written yet
HeldUp ==
  slave.at = "recvfd" /\ slave.conn \in UnixClient /\ client[slave.conn] \in {"prompt", "mute"}

\* Every message is answered, through both processes and however many clients
\* there are, unless something events happened or a unix client keeps the slave
\* in recvfd for ever.
EveryMessageAnswered ==
  \A c \in Client : client[c] = "waiting" ~> (client[c] # "waiting" \/ events # {} \/ []HeldUp)
=============================================================================
