------------------------------ MODULE Exchange ------------------------------
(***************************************************************************)
(* The transfer of one chunk over connections between a requester and      *)
(* storage nodes, step by step.  The requester is a client that puts the   *)
(* chunk (the goroutine of put), a storage node that replicates it         *)
(* (replicate), a client that gets it (getChunk) or a storage node that    *)
(* repairs its own copy (repairChunk); at the other end of each connection *)
(* is a node's handleClient with handleStoreChunk or handleRetrieveChunk.  *)
(*                                                                         *)
(* A stream carries messages and the bytes of the chunk in one order, and  *)
(* nothing but the two ends' agreement says which is which.  Send frames a *)
(* message with its length and ReadN collects it from as many reads as it  *)
(* takes, so a message is one item here.  A checksum is the content it is  *)
(* computed from.  Bytes of the chunk that a handler takes for a message   *)
(* are not one it knows.                                                   *)
(***************************************************************************)
EXTENDS Integers, Sequences, FiniteSets

CONSTANTS
    Node,       \* storage nodes the requester is given
    Me,         \* where the requester runs
    Data,       \* the bytes of the chunk
    Bad,        \* a byte that has rotted
    NoFile,     \* no file at a path
    Role,       \* kinds of requester considered
    Full,       \* disks may be short of space or fail to write
    MaxBreaks,  \* bound: connections that cannot be made or break
    MaxDisturb  \* bound: times another store, a deletion or rot meets a file

ASSUME ExchangeAssumption ==
    /\ IsFiniteSet(Node) /\ Me \notin Node
    /\ Data \in Seq(Nat) /\ Data # <<>>
    /\ Bad \in Nat /\ \A i \in DOMAIN Data : Data[i] # Bad
    /\ Role \subseteq {"put", "replicate", "get", "repair"}
    /\ Full \in BOOLEAN
    /\ MaxBreaks \in Nat /\ MaxDisturb \in Nat

VARIABLES
    role,     \* what the requester does
    req,      \* the requester
    conn,     \* per node: the requester's connection to it
    handler,  \* per node: its handleClient for that connection
    file,     \* chunk files; get's part file is that of Me
    sum,      \* checksum files of the nodes
    active,   \* nodes whose activeWrites has the chunk's path
    writing,  \* nodes where another store is rewriting the chunk file
    reported, \* per node: the last status report its handler has made
    breaks, disturbs

files == <<file, sum, active>>
vars == <<role, req, conn, handler, files, writing, reported, breaks, disturbs>>

Place == Node \cup {Me}

Stores == role \in {"put", "replicate"}

Rotten == [Data EXCEPT ![Len(Data)] = Bad]

(* What a stream carries.                                                  *)
Ok == [is |-> "ok"]
No == [is |-> "no"]
StoreReq == [is |-> "store", size |-> Len(Data), sum |-> Data]
RetrieveReq == [is |-> "retrieve"]
RetrieveResp(n, s) == [is |-> "ready", size |-> n, sum |-> s]
Byte(b) == [is |-> "byte", b |-> b]

IsByte(m) == m.is = "byte"

\* up, down: what is on its way to the node and back; client, server: the
\* ends that are open.
Closed == [up |-> <<>>, down |-> <<>>, client |-> FALSE, server |-> FALSE]

\* got: bytes received; size, sum: what the request or response announced;
\* sent: bytes sent.
Idle == [at |-> "none", got |-> <<>>, size |-> 0, sum |-> <<>>, sent |-> 0]

Init ==
    /\ role \in Role
    /\ \E s \in [1..Cardinality(Node) -> Node] :
          /\ \A i, j \in DOMAIN s : s[i] = s[j] => i = j
          /\ req = [at |-> "next", left |-> s, got |-> <<>>, size |-> 0, sum |-> <<>>, sent |-> 0]
    /\ conn = [n \in Node |-> Closed]
    /\ handler = [n \in Node |-> Idle]
    /\ file \in [Place -> {Data, Rotten, NoFile}]
    /\ file[Me] = CASE role \in {"put", "replicate"} -> Data
                    [] role = "get" -> NoFile
                    [] role = "repair" -> Rotten
    /\ sum = [n \in Node |-> IF file[n] = NoFile THEN NoFile ELSE Data]
    /\ active = {} /\ writing = {}
    /\ reported = [n \in Node |-> "none"]
    /\ breaks = 0 /\ disturbs = 0
-----------------------------------------------------------------------------
(* Connections.                                                            *)

Answer(n, m) == conn' = [conn EXCEPT ![n].up = Tail(@), ![n].down = Append(@, m)]

\* The requester closes; what it has sent can still be read.
Hangup(n) == conn' = [conn EXCEPT ![n].client = FALSE, ![n].down = <<>>]

\* A connection breaks: both ends get errors and what is on its way is lost.
Break(n) ==
    /\ conn[n].client /\ conn[n].server
    /\ breaks < MaxBreaks
    /\ conn' = [conn EXCEPT ![n] = Closed]
    /\ breaks' = breaks + 1
    /\ UNCHANGED <<role, req, handler, files, writing, reported, disturbs>>
-----------------------------------------------------------------------------
(* The requester.                                                          *)

Peer == Head(req.left)

\* On to the next candidate, peer or location.
NextNode ==
    req' = [req EXCEPT !.at = "next", !.left = Tail(@), !.got = <<>>,
                       !.size = 0, !.sum = <<>>, !.sent = 0]

Is(at) == req.at = at

\* The node cannot be reached, or replicate's own chunk file is gone.
DialFails ==
    /\ Is("next") /\ req.left # <<>>
    /\ \/ breaks < MaxBreaks /\ breaks' = breaks + 1
       \/ role = "replicate" /\ file[Me] = NoFile /\ UNCHANGED breaks
    /\ NextNode
    /\ UNCHANGED <<role, conn, handler, files, writing, reported, disturbs>>

Dial ==
    /\ Is("next") /\ req.left # <<>>
    /\ role = "replicate" => file[Me] # NoFile
    /\ conn' = [conn EXCEPT ![Peer] =
           [up |-> <<IF Stores THEN StoreReq ELSE RetrieveReq>>, down |-> <<>>,
            client |-> TRUE, server |-> TRUE]]
    /\ handler' = [handler EXCEPT ![Peer].at = "receive"]
    /\ req' = [req EXCEPT !.at = "ready"]
    /\ UNCHANGED <<role, files, writing, reported, breaks, disturbs>>

\* No node is left.  repairChunk's deferred deletions leave activeWrites;
\* for replicate, manageReplication asks the controller for other nodes.
GiveUp ==
    /\ Is("next") /\ req.left = <<>>
    /\ req' = [req EXCEPT !.at = "failed"]
    /\ active' = IF role = "repair" THEN active \ {Me} ELSE active
    /\ UNCHANGED <<role, conn, handler, file, sum, writing, reported, breaks, disturbs>>

\* The node refuses.
Refused ==
    /\ Is("ready") \/ Is("final")
    /\ conn[Peer].down # <<>> /\ Head(conn[Peer].down) = No
    /\ NextNode /\ Hangup(Peer)
    /\ UNCHANGED <<role, handler, files, writing, reported, breaks, disturbs>>

\* The local file a broken transfer leaves: getChunk and repairChunk remove
\* theirs.
Discarded == IF Is("copy") THEN [file EXCEPT ![Me] = NoFile] ELSE file

\* An error on the connection.
Lost ==
    /\ req.at \in {"ready", "send", "final", "copy"}
    /\ conn[Peer].down = <<>> /\ ~conn[Peer].server
    /\ file' = Discarded
    /\ NextNode /\ Hangup(Peer)
    /\ UNCHANGED <<role, handler, sum, active, writing, reported, breaks, disturbs>>

\* Mutant: the deadline is not set again for the chunk.
DeadlineOnce ==
    /\ role = "get"
    /\ Is("ready")
    /\ NextNode /\ Hangup(Peer)
    /\ UNCHANGED <<role, handler, files, writing, reported, breaks, disturbs>>

\* getChunk's read deadlines: the node or the network is too slow.
Deadline ==
    /\ role = "get"
    /\ Is("ready") \/ Is("copy")
    /\ file' = Discarded
    /\ NextNode /\ Hangup(Peer)
    /\ UNCHANGED <<role, handler, sum, active, writing, reported, breaks, disturbs>>

\* put writes the chunk from memory.
StartSend ==
    /\ Is("ready") /\ Stores
    /\ conn[Peer].down # <<>> /\ Head(conn[Peer].down) = Ok
    /\ conn' = [conn EXCEPT ![Peer].down = Tail(@),
           ![Peer].up = IF role = "put" THEN @ \o [i \in DOMAIN Data |-> Byte(Data[i])] ELSE @]
    /\ req' = [req EXCEPT !.at = IF role = "put" THEN "final" ELSE "send"]
    /\ UNCHANGED <<role, handler, files, writing, reported, breaks, disturbs>>

\* replicate copies the chunk's size from its file, and fails at the end of a
\* file that has become shorter.
SendByte ==
    /\ Is("send") /\ req.sent < Len(Data)
    /\ \/ /\ file[Me] # NoFile /\ req.sent < Len(file[Me])
          /\ conn' = [conn EXCEPT ![Peer].up =
                 IF conn[Peer].server THEN Append(@, Byte(file[Me][req.sent + 1])) ELSE @]
          /\ req' = [req EXCEPT !.sent = @ + 1]
       \/ /\ file[Me] = NoFile \/ req.sent >= Len(file[Me])
          /\ NextNode /\ Hangup(Peer)
    /\ UNCHANGED <<role, handler, files, writing, reported, breaks, disturbs>>

SendDone ==
    /\ Is("send") /\ req.sent = Len(Data)
    /\ req' = [req EXCEPT !.at = "final"]
    /\ UNCHANGED <<role, conn, handler, files, writing, reported, breaks, disturbs>>

Stored ==
    /\ Is("final")
    /\ conn[Peer].down # <<>> /\ Head(conn[Peer].down) = Ok
    /\ req' = [req EXCEPT !.at = "ok"]
    /\ Hangup(Peer)
    /\ UNCHANGED <<role, handler, files, writing, reported, breaks, disturbs>>

\* A write to the local file fails: getChunk and repairChunk close the
\* connection and remove the file.
CopyFails ==
    /\ Is("copy") /\ Full
    /\ conn[Peer].down # <<>>
    /\ file' = Discarded
    /\ NextNode /\ Hangup(Peer)
    /\ UNCHANGED <<role, handler, sum, active, writing, reported, breaks, disturbs>>

\* repairChunk cannot open its chunk file.  (getChunk's client ends then.)
CopyRefused ==
    /\ Is("ready") /\ role = "repair" /\ Full
    /\ conn[Peer].down # <<>> /\ Head(conn[Peer].down).is = "ready"
    /\ active' = active \cup {Me}
    /\ NextNode /\ Hangup(Peer)
    /\ UNCHANGED <<role, handler, file, sum, writing, reported, breaks, disturbs>>

\* getChunk creates its part file; repairChunk opens its chunk file with
\* O_TRUNC and marks the path.
StartCopy ==
    /\ Is("ready") /\ ~Stores
    /\ conn[Peer].down # <<>> /\ Head(conn[Peer].down).is = "ready"
    /\ LET m == Head(conn[Peer].down) IN
          req' = [req EXCEPT !.at = "copy", !.size = m.size, !.sum = m.sum]
    /\ conn' = [conn EXCEPT ![Peer].down = Tail(@)]
    /\ file' = [file EXCEPT ![Me] = <<>>]
    /\ active' = IF role = "repair" THEN active \cup {Me} ELSE active
    /\ UNCHANGED <<role, handler, sum, writing, reported, breaks, disturbs>>

CopyByte ==
    /\ Is("copy") /\ Len(req.got) < req.size
    /\ conn[Peer].down # <<>>
    /\ LET b == Head(conn[Peer].down).b IN
       /\ req' = [req EXCEPT !.got = Append(@, b)]
       /\ file' = [file EXCEPT ![Me] = Append(@, b)]
    /\ conn' = [conn EXCEPT ![Peer].down = Tail(@)]
    /\ UNCHANGED <<role, handler, sum, active, writing, reported, breaks, disturbs>>

\* Mutant: the copy is accepted without its checksum.
CheckNothing ==
    /\ Is("copy") /\ Len(req.got) = req.size
    /\ req' = [req EXCEPT !.at = "ok"]
    /\ active' = active \ {Me}
    /\ Hangup(Peer)
    /\ UNCHANGED <<role, handler, file, sum, writing, reported, breaks, disturbs>>

\* Mutant: repairChunk returns with the path still in activeWrites.
CheckKeepsActive ==
    /\ Is("copy") /\ Len(req.got) = req.size
    /\ IF req.got = req.sum
       THEN req' = [req EXCEPT !.at = "ok"] /\ UNCHANGED <<file, active>>
       ELSE NextNode /\ file' = [file EXCEPT ![Me] = NoFile] /\ UNCHANGED active
    /\ Hangup(Peer)
    /\ UNCHANGED <<role, handler, sum, writing, reported, breaks, disturbs>>

\* The copy is complete: it is kept if it matches the peer's checksum.
Check ==
    /\ Is("copy") /\ Len(req.got) = req.size
    /\ IF req.got = req.sum
       THEN req' = [req EXCEPT !.at = "ok"] /\ active' = active \ {Me} /\ UNCHANGED file
       ELSE NextNode /\ file' = [file EXCEPT ![Me] = NoFile] /\ UNCHANGED active
    /\ Hangup(Peer)
    /\ UNCHANGED <<role, handler, sum, writing, reported, breaks, disturbs>>
-----------------------------------------------------------------------------
(* A node's handler.                                                       *)

Receives(n, kind) ==
    /\ handler[n].at = "receive"
    /\ conn[n].up # <<>> /\ Head(conn[n].up).is = kind

Back(n) == handler' = [handler EXCEPT ![n] = [Idle EXCEPT !.at = "receive"]]

\* Mutant: handleClient returns without closing its end.
HandlerLeaves(n) ==
    /\ handler[n].at \in {"receive", "astray"}
    /\ conn[n].up = <<>> /\ ~conn[n].client
    /\ handler' = [handler EXCEPT ![n] = Idle]
    /\ UNCHANGED <<role, req, conn, files, writing, reported, breaks, disturbs>>

\* handleClient's Receive fails: it closes its end.
HandlerEnds(n) ==
    /\ handler[n].at \in {"receive", "astray"}
    /\ conn[n].up = <<>> /\ ~conn[n].client
    /\ handler' = [handler EXCEPT ![n] = Idle]
    /\ conn' = [conn EXCEPT ![n].server = FALSE]
    /\ UNCHANGED <<role, req, files, writing, reported, breaks, disturbs>>

\* In Receive with bytes of the chunk still to come, handleClient takes eight
\* of them for a length and what follows for a message.  It waits for more;
\* or it is no message, or the length is more than the node can allocate, and
\* the handler or the whole node ends.
Misread(n) ==
    /\ handler[n].at = "astray"
    /\ conn[n].up # <<>>
    /\ \/ /\ conn' = [conn EXCEPT ![n].up = Tail(@)]
          /\ UNCHANGED handler
       \/ /\ conn' = [conn EXCEPT ![n] = Closed]
          /\ handler' = [handler EXCEPT ![n] = Idle]
    /\ UNCHANGED <<role, req, files, writing, reported, breaks, disturbs>>

\* handleStoreChunk goes on to its status report, of success or failure.
ToReport(n, what) == handler' = [handler EXCEPT ![n] = [Idle EXCEPT !.at = what]]

\* No room, no directory, no file.
StoreRefused(n) ==
    /\ Receives(n, "store") /\ Full
    /\ Answer(n, No) /\ ToReport(n, "failure")
    /\ UNCHANGED <<role, req, files, writing, reported, breaks, disturbs>>

StoreBegin(n) ==
    /\ Receives(n, "store")
    /\ LET m == Head(conn[n].up) IN
          handler' = [handler EXCEPT ![n] =
              [Idle EXCEPT !.at = "store", !.size = m.size, !.sum = m.sum]]
    /\ Answer(n, Ok)
    /\ file' = [file EXCEPT ![n] = <<>>]
    /\ active' = active \cup {n}
    /\ UNCHANGED <<role, req, sum, writing, reported, breaks, disturbs>>

StoreByte(n) ==
    /\ handler[n].at = "store" /\ Len(handler[n].got) < handler[n].size
    /\ conn[n].up # <<>>
    /\ LET b == Head(conn[n].up).b IN
       /\ handler' = [handler EXCEPT ![n].got = Append(@, b)]
       /\ file' = [file EXCEPT ![n] = Append(@, b)]
    /\ conn' = [conn EXCEPT ![n].up = Tail(@)]
    /\ UNCHANGED <<role, req, sum, active, writing, reported, breaks, disturbs>>

Reply(n, m) ==
    conn' = [conn EXCEPT ![n].down = IF conn[n].client THEN Append(@, m) ELSE @]

Remove(n) == file' = [file EXCEPT ![n] = NoFile]

\* The bytes end early: there is no answer.
StoreShort(n) ==
    /\ handler[n].at = "store" /\ Len(handler[n].got) < handler[n].size
    /\ conn[n].up = <<>> /\ ~conn[n].client
    /\ Remove(n) /\ ToReport(n, "failure")
    /\ UNCHANGED <<role, req, conn, sum, active, writing, reported, breaks, disturbs>>

\* Bytes that have come cannot be written: there is no answer, and the
\* handler is going back to Receive while more of them may be on their way.
StoreBroken(n) ==
    /\ handler[n].at = "store" /\ Len(handler[n].got) < handler[n].size
    /\ Full /\ conn[n].up # <<>>
    /\ conn' = [conn EXCEPT ![n].up = Tail(@)]
    /\ Remove(n) /\ ToReport(n, "broken")
    /\ UNCHANGED <<role, req, sum, active, writing, reported, breaks, disturbs>>

\* The bytes do not match the checksum, or the checksum cannot be written.
StoreBad(n) ==
    /\ handler[n].at = "store" /\ Len(handler[n].got) = handler[n].size
    /\ \/ handler[n].got # handler[n].sum /\ UNCHANGED sum
       \/ handler[n].got = handler[n].sum /\ Full /\ sum' = [sum EXCEPT ![n] = NoFile]
    /\ Remove(n) /\ Reply(n, No) /\ ToReport(n, "failure")
    /\ UNCHANGED <<role, req, active, writing, reported, breaks, disturbs>>

\* Mutant: success is answered as a failure.
StoreDoubted(n) ==
    /\ handler[n].at = "store" /\ Len(handler[n].got) = handler[n].size
    /\ handler[n].got = handler[n].sum
    /\ sum' = [sum EXCEPT ![n] = handler[n].got]
    /\ Reply(n, No) /\ ToReport(n, "success")
    /\ UNCHANGED <<role, req, file, active, writing, reported, breaks, disturbs>>

\* The chunk is stored; the handler answers.
StoreGood(n) ==
    /\ handler[n].at = "store" /\ Len(handler[n].got) = handler[n].size
    /\ handler[n].got = handler[n].sum
    /\ sum' = [sum EXCEPT ![n] = handler[n].got]
    /\ Reply(n, Ok) /\ ToReport(n, "success")
    /\ UNCHANGED <<role, req, file, active, writing, reported, breaks, disturbs>>

Reporting(n) == handler[n].at \in {"success", "failure", "broken"}

\* reportStatus, then the deferred deletion from activeWrites.
Report(n) ==
    /\ Reporting(n)
    /\ reported' = [reported EXCEPT ![n] =
           IF handler[n].at = "success" THEN "success" ELSE "failure"]
    /\ active' = active \ {n}
    /\ IF handler[n].at = "broken"
       THEN handler' = [handler EXCEPT ![n] = [Idle EXCEPT !.at = "astray"]]
       ELSE Back(n)
    /\ UNCHANGED <<role, req, conn, file, sum, writing, breaks, disturbs>>

\* The chunk is being written.
RetrieveRefused(n) ==
    /\ Receives(n, "retrieve")
    /\ n \in active
    /\ Answer(n, No) /\ Back(n)
    /\ UNCHANGED <<role, req, files, writing, reported, breaks, disturbs>>

\* handleRetrieveChunk goes on to verifyChunkIntegrity.
RetrieveBegin(n) ==
    /\ Receives(n, "retrieve")
    /\ n \notin active
    /\ handler' = [handler EXCEPT ![n] = [Idle EXCEPT !.at = "stat"]]
    /\ conn' = [conn EXCEPT ![n].up = Tail(@)]
    /\ UNCHANGED <<role, req, files, writing, reported, breaks, disturbs>>

\* verifyChunkIntegrity opens the file and takes the size it has now.
Stat(n) ==
    /\ handler[n].at = "stat" /\ file[n] # NoFile
    /\ handler' = [handler EXCEPT ![n].at = "verify", ![n].size = Len(file[n])]
    /\ UNCHANGED <<role, req, conn, files, writing, reported, breaks, disturbs>>

\* There is no file, no checksum, or they do not match.
VerifyFails(n) ==
    /\ \/ handler[n].at = "stat" /\ file[n] = NoFile
       \/ handler[n].at = "verify" /\ (sum[n] = NoFile \/ file[n] # sum[n])
    /\ Reply(n, No) /\ Back(n)
    /\ UNCHANGED <<role, req, files, writing, reported, breaks, disturbs>>

\* The file as it is now matches: this is the checksum to be announced, with
\* the size of before.
Verify(n) ==
    /\ handler[n].at = "verify" /\ file[n] = sum[n] /\ sum[n] # NoFile
    /\ handler' = [handler EXCEPT ![n].at = "open", ![n].sum = file[n]]
    /\ UNCHANGED <<role, req, conn, files, writing, reported, breaks, disturbs>>

OpenFails(n) ==
    /\ handler[n].at = "open" /\ file[n] = NoFile
    /\ Reply(n, No) /\ Back(n)
    /\ UNCHANGED <<role, req, files, writing, reported, breaks, disturbs>>

Open(n) ==
    /\ handler[n].at = "open" /\ file[n] # NoFile
    /\ Reply(n, RetrieveResp(handler[n].size, handler[n].sum))
    /\ handler' = [handler EXCEPT ![n].at = "serve"]
    /\ UNCHANGED <<role, req, files, writing, reported, breaks, disturbs>>

\* Mutant: the end of the file is answered with a message.
ServeByteAnswer(n) ==
    /\ handler[n].at = "serve" /\ handler[n].sent < handler[n].size
    /\ \/ /\ file[n] # NoFile /\ handler[n].sent < Len(file[n])
          /\ Reply(n, Byte(file[n][handler[n].sent + 1]))
          /\ handler' = [handler EXCEPT ![n].sent = @ + 1]
       \/ /\ file[n] = NoFile \/ handler[n].sent >= Len(file[n])
          /\ Back(n) /\ Reply(n, No)
    /\ UNCHANGED <<role, req, files, writing, reported, breaks, disturbs>>

\* CopyN reads the file as it is now.  At the end of a file that has become
\* shorter the handler says nothing and goes back to Receive.
ServeByte(n) ==
    /\ handler[n].at = "serve" /\ handler[n].sent < handler[n].size
    /\ \/ /\ file[n] # NoFile /\ handler[n].sent < Len(file[n])
          /\ Reply(n, Byte(file[n][handler[n].sent + 1]))
          /\ handler' = [handler EXCEPT ![n].sent = @ + 1]
       \/ /\ file[n] = NoFile \/ handler[n].sent >= Len(file[n])
          /\ Back(n) /\ UNCHANGED conn
    /\ UNCHANGED <<role, req, files, writing, reported, breaks, disturbs>>

Served(n) ==
    /\ handler[n].at = "serve" /\ handler[n].sent = handler[n].size
    /\ Back(n)
    /\ UNCHANGED <<role, req, conn, files, writing, reported, breaks, disturbs>>
-----------------------------------------------------------------------------
(* What else happens to the file a transfer reads: at the node for get and *)
(* repair, at the requester for replicate.  (A file that is removed while  *)
(* it is open goes on being read, as if it were still there.)              *)

Source(p) == IF role = "replicate" THEN p = Me ELSE ~Stores /\ p \in Node

BeingRead(p) ==
    IF p = Me THEN Is("ready") \/ Is("send") ELSE handler[p].at \in {"verify", "serve"}

Disturb(p) == Source(p) /\ disturbs < MaxDisturb /\ disturbs' = disturbs + 1

\* Another store of the chunk opens the file with O_TRUNC.
Truncate(p) ==
    /\ Disturb(p) /\ p \notin active
    /\ ~(file[p] = NoFile /\ BeingRead(p))
    /\ file' = [file EXCEPT ![p] = <<>>]
    /\ active' = active \cup {p}
    /\ writing' = writing \cup {p}
    /\ UNCHANGED <<role, req, conn, handler, sum, reported, breaks>>

\* That store ends, well or badly.
Rewrite(p) ==
    /\ p \in writing
    /\ \/ file' = [file EXCEPT ![p] = Data]
       \/ ~BeingRead(p) /\ file' = [file EXCEPT ![p] = NoFile]
    /\ active' = active \ {p}
    /\ writing' = writing \ {p}
    /\ UNCHANGED <<role, req, conn, handler, sum, reported, breaks, disturbs>>

Rot(p) ==
    /\ Disturb(p) /\ file[p] = Data
    /\ file' = [file EXCEPT ![p] = Rotten]
    /\ UNCHANGED <<role, req, conn, handler, sum, active, writing, reported, breaks>>

\* handleDeleteFile removes the directory.
Delete(p) ==
    /\ Disturb(p) /\ p \notin active
    /\ file[p] # NoFile /\ ~BeingRead(p)
    /\ file' = [file EXCEPT ![p] = NoFile]
    /\ sum' = IF p = Me THEN sum ELSE [sum EXCEPT ![p] = NoFile]
    /\ UNCHANGED <<role, req, conn, handler, active, writing, reported, breaks>>
-----------------------------------------------------------------------------
Request ==
    \/ DialFails \/ Dial \/ GiveUp \/ Refused \/ Lost
    \/ StartSend \/ SendByte \/ SendDone \/ Stored
    \/ StartCopy \/ CopyRefused \/ CopyByte \/ CopyFails \/ Check

Handle(n) ==
    \/ HandlerEnds(n) \/ Misread(n)
    \/ StoreRefused(n) \/ StoreBegin(n) \/ StoreByte(n) \/ StoreShort(n)
    \/ StoreBroken(n) \/ StoreBad(n) \/ StoreGood(n) \/ Report(n)
    \/ RetrieveRefused(n) \/ RetrieveBegin(n) \/ Stat(n) \/ VerifyFails(n)
    \/ Verify(n) \/ OpenFails(n) \/ Open(n) \/ ServeByte(n) \/ Served(n)

Next ==
    \/ Request \/ Deadline
    \/ \E n \in Node : Handle(n) \/ Break(n)
    \/ \E p \in Place : Truncate(p) \/ Rewrite(p) \/ Rot(p) \/ Delete(p)

Spec == Init /\ [][Next]_vars

\* The two ends go on, and a deadline that is not met passes.  Another store
\* need not end.
Fairness ==
    /\ WF_vars(Request) /\ WF_vars(Deadline)
    /\ \A n \in Node : WF_vars(Handle(n))

FairSpec == Spec /\ Fairness
-----------------------------------------------------------------------------
\* What a file can have in it: the chunk or a rotten copy, or less of either.
Contents == {NoFile} \cup {SubSeq(c, 1, k) : c \in {Data, Rotten}, k \in 0..Len(Data)}

TypeOK ==
    /\ role \in Role
    /\ req.at \in {"next", "ready", "send", "final", "copy", "ok", "failed"}
    /\ req.at \notin {"next", "failed"} => req.left # <<>>
    /\ \A n \in Node :
          /\ handler[n].at \in {"none", "receive", "astray", "store", "success", "failure",
                                "broken", "stat", "verify", "open", "serve"}
          /\ reported[n] \in {"none", "success", "failure"}
          /\ handler[n].at = "none" => ~conn[n].server
    /\ file \in [Place -> Contents] /\ sum \in [Node -> Contents]
    /\ writing \subseteq active /\ active \subseteq Place
    /\ breaks \in 0..MaxBreaks /\ disturbs \in 0..MaxDisturb

\* Neither end takes bytes of the chunk for a message or a message for bytes:
\* whatever is refused, cut short or given up, what comes next on a stream is
\* what the reader expects.  It is not so for a handler that is astray: its
\* node failed to write in mid-chunk.
Framed ==
    /\ \A n \in Node : conn[n].up # <<>> /\ conn[n].client =>
          /\ handler[n].at = "receive" => ~IsByte(Head(conn[n].up))
          /\ handler[n].at = "store" => IsByte(Head(conn[n].up))
    /\ req.left # <<>> /\ conn[Peer].down # <<>> =>
          IF Is("copy") THEN IsByte(Head(conn[Peer].down)) ELSE ~IsByte(Head(conn[Peer].down))

\* A requester that succeeds has delivered the chunk, although files are
\* truncated, rewritten, removed and damaged between the steps: put and
\* replicate to the node they stop at, which reports it or is about to, get
\* and repair to their own disk.
Delivered ==
    Is("ok") => IF Stores
                THEN /\ file[Peer] = Data /\ sum[Peer] = Data
                     /\ "success" \in {handler[Peer].at, reported[Peer]}
                ELSE file[Me] = Data

Ended == (Is("ok") \/ Is("failed")) /\ \A n \in Node : handler[n].at = "none"

\* When requester and handlers are done nothing incomplete is left, whatever
\* failed on the way: no path is in activeWrites for them, and a file that
\* nobody else is writing is complete or gone.
NothingPartial ==
    Ended => /\ active = writing
             /\ \A p \in Place \ writing : file[p] \in {NoFile, Data, Rotten}

\* Candidates are tried in turn, so more than one of them stores the chunk,
\* or one does for a requester that fails, only after a broken connection.
StoredOnce ==
    LET stored == {n \in Node : reported[n] = "success"} IN
    breaks = 0 => /\ Cardinality(stored) <= 1
                  /\ stored # {} => ~Is("failed")

\* The requester waits for what its node, back in Receive, will not send: the
\* rest of a copy, or the answer to a chunk that it could not write.
Stalled ==
    /\ Is("copy") \/ Is("final")
    /\ conn[Peer].up = <<>> /\ conn[Peer].down = <<>> /\ conn[Peer].server
    /\ \/ /\ role = "repair" /\ Is("copy") /\ Len(req.got) < req.size
          /\ handler[Peer].at = "receive" /\ disturbs > 0
       \/ Is("final") /\ handler[Peer].at = "astray"

\* A transfer ends and its handlers end, with two exceptions, in which the two
\* ends wait for each other until the connection breaks, for no deadline is
\* set: a repair whose peer's file was truncated after it was verified, and a
\* put or replicate whose node failed to write in mid-chunk.
ExchangeEnds == <>Ended \/ <>[]Stalled
=============================================================================
