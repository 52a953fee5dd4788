-------------------------- MODULE Exchange_proofs ---------------------------
(***************************************************************************)
(* Proofs about Exchange, for every set of nodes, every chunk and every    *)
(* number of broken connections and disturbances.                          *)
(***************************************************************************)
EXTENDS Exchange, SequenceTheorems, FiniteSetTheorems, TLAPS

-----------------------------------------------------------------------------
(* The invariant.                                                          *)

Size == Len(Data)

Opening == IF Stores THEN StoreReq ELSE RetrieveReq

\* The size is that of the file a moment before it was found to match.
Readys == {RetrieveResp(k, Data) : k \in 0..Size}

\* What may stand at position i of a file, and a sequence of such bytes.
At(i) == {Data[i], Rotten[i]}

Piece(s) == s \in Seq(Nat) /\ Len(s) <= Size /\ \A i \in 1..Len(s) : s[i] \in At(i)

\* The items of s are the bytes of the chunk that follow the first k.
Flow(s, k) ==
    /\ k + Len(s) <= Size
    /\ \A i \in 1..Len(s) : s[i] \in {Byte(b) : b \in At(k + i)}

Message == {Ok, No, StoreReq, RetrieveReq} \cup Readys \cup [is : {"byte"}, b : Nat]

Requester ==
    [at : {"next", "ready", "send", "final", "copy", "ok", "failed"},
     left : Seq(Node), got : Seq(Nat), size : Nat, sum : Seq(Nat), sent : Nat]

Connection == [up : Seq(Message), down : Seq(Message), client : BOOLEAN, server : BOOLEAN]

Handler ==
    [at : {"none", "receive", "astray", "store", "success", "failure", "broken",
           "stat", "verify", "open", "serve"},
     got : Seq(Nat), size : Nat, sum : Seq(Nat), sent : Nat]

Typed ==
    /\ role \in Role /\ req \in Requester
    /\ conn \in [Node -> Connection] /\ handler \in [Node -> Handler]
    /\ file \in [Place -> {NoFile} \cup Seq(Nat)] /\ sum \in [Node -> {NoFile, Data}]
    /\ active \subseteq Place /\ writing \subseteq active
    /\ reported \in [Node -> {"none", "success", "failure"}]
    /\ breaks \in 0..MaxBreaks /\ disturbs \in 0..MaxDisturb

\* While the requester is connected its connection is to Peer.
Live == req.at \in {"ready", "send", "final", "copy"}

Succeeded(n) == handler[n].at = "success" \/ reported[n] = "success"
Failed(n) == handler[n].at \in {"failure", "broken"} \/ reported[n] = "failure"

\* The requester: the nodes still to be tried have not been touched, and only
\* the one it is at is connected.
Turn ==
    /\ \A i, j \in DOMAIN req.left : req.left[i] = req.left[j] => i = j
    /\ \A i \in DOMAIN req.left : i > 1 \/ Is("next") =>
          /\ conn[req.left[i]] = Closed /\ handler[req.left[i]].at = "none"
          /\ reported[req.left[i]] = "none"
    /\ req.left = <<>> => req.at \in {"next", "failed"}
    /\ Is("failed") => req.left = <<>>
    /\ req.at \in {"next", "ready"} => req.got = <<>> /\ req.sent = 0
    /\ \A n \in Node : conn[n].client => Live /\ n = Peer
    /\ Is("send") => role = "replicate" /\ req.sent <= Size
    /\ Is("final") => Stores
    /\ Is("copy") => ~Stores /\ req.size \in 0..Size /\ req.sum = Data

\* A handler: what is still on its way to it is what it is going to read,
\* unless it could not write in mid-chunk.
Handling(n) ==
    /\ conn[n].client => conn[n].server
    /\ CASE handler[n].at = "none" -> conn[n].up = <<>> /\ ~conn[n].server
         [] handler[n].at = "receive" -> conn[n].up \in {<<>>, <<Opening>>}
         [] handler[n].at = "store" ->
              /\ Stores /\ handler[n].size = Size /\ handler[n].sum = Data
              /\ Flow(conn[n].up, Len(handler[n].got))
         [] handler[n].at \in {"success", "failure"} -> Stores /\ conn[n].up = <<>>
         [] handler[n].at \in {"broken", "astray"} -> Stores
         [] handler[n].at \in {"stat", "verify", "open", "serve"} ->
              /\ ~Stores /\ conn[n].up = <<>>
              /\ handler[n].at # "serve" => handler[n].sent = 0
              /\ handler[n].at # "stat" => handler[n].size \in 0..Size
              /\ handler[n].at \in {"open", "serve"} => handler[n].sum = Data
              /\ handler[n].at = "serve" => handler[n].sent \in 0..handler[n].size
    /\ reported[n] # "none" =>
          /\ Stores /\ handler[n].at \in {"receive", "astray", "none"}
          /\ handler[n].at # "astray" => conn[n].up = <<>>
    /\ handler[n].at = "astray" => reported[n] = "failure"

\* A connection that is up holds, on its way back, the answer to where its
\* handler is.
Answered(n) ==
    /\ conn[n].up = <<>>
    /\ \/ conn[n].down = <<Ok>> /\ Succeeded(n)
       \/ conn[n].down = <<No>> /\ Failed(n)

\* Nothing will come back from a handler that could not write in mid-chunk.
Astray(n) == handler[n].at \in {"broken", "astray"} /\ conn[n].down = <<>>

Carried(n, s, k) ==
    /\ conn[n].up = <<>> /\ Flow(s, k)
    /\ \/ handler[n].at = "serve" /\ k + Len(s) = handler[n].sent
       \/ handler[n].at = "receive"

Dialogue(n) ==
    /\ Is("ready") =>
          \/ /\ handler[n].at = "receive"
             /\ conn[n].up = <<Opening>> /\ conn[n].down = <<>>
          \/ conn[n].up = <<>> /\ conn[n].down = <<No>> /\ (Stores => Failed(n))
             /\ (~Stores => handler[n].at = "receive")
          \/ /\ handler[n].at = "store" /\ handler[n].got = <<>>
             /\ conn[n].up = <<>> /\ conn[n].down = <<Ok>>
          \/ handler[n].at \in {"stat", "verify", "open"} /\ conn[n].down = <<>>
          \/ /\ ~Stores /\ conn[n].down # <<>> /\ Head(conn[n].down) \in Readys
             /\ Carried(n, Tail(conn[n].down), 0)
    /\ Is("send") =>
          \/ /\ handler[n].at = "store" /\ conn[n].down = <<>>
             /\ Len(handler[n].got) + Len(conn[n].up) = req.sent
          \/ req.sent = Size /\ Answered(n)
          \/ Astray(n)
    /\ Is("final") =>
          \/ /\ handler[n].at = "store" /\ conn[n].down = <<>>
             /\ Len(handler[n].got) + Len(conn[n].up) = Size
          \/ Answered(n)
          \/ Astray(n)
    /\ Is("copy") => Carried(n, conn[n].down, Len(req.got))

Talking == Live => Peer \in Node /\ IF conn[Peer].client THEN Dialogue(Peer) ELSE conn[Peer] = Closed

\* A requester that is through has had its answer.
Through ==
    Is("ok") => /\ conn[Peer].up = <<>> /\ conn[Peer].down = <<>>
                /\ handler[Peer].at # "store"
                /\ IF Stores THEN Succeeded(Peer) ELSE file[Me] = Data

\* What the files hold.
Filed ==
    /\ \A p \in Place : file[p] = NoFile \/ Piece(file[p])
    /\ \A p \in Place :
          \/ p \in writing \/ file[p] \in {NoFile, Data, Rotten}
          \/ p \in Node /\ handler[p].at = "store"
          \/ p = Me /\ Is("copy")
    /\ \A n \in Node : handler[n].at = "store" =>
          file[n] = handler[n].got /\ Piece(handler[n].got)
    /\ \A n \in Node : Succeeded(n) => file[n] = Data /\ sum[n] = Data
    /\ Is("copy") => file[Me] = req.got /\ Piece(req.got)

\* Who is in activeWrites, and whose files others change.
Marked ==
    /\ \A p \in writing : Source(p)
    /\ \A n \in active \cap Node :
          n \in writing \/ handler[n].at \in {"store", "success", "failure", "broken"}
    /\ Me \in active => Me \in writing \/ (role = "repair" /\ req.at \notin {"ok", "failed"})

\* As long as no connection broke, only the node the requester is at can
\* store the chunk.
Single ==
    breaks = 0 =>
        /\ Live => conn[Peer].client \/ Failed(Peer)
        /\ \A n \in Node : Succeeded(n) =>
              req.left # <<>> /\ n = Peer /\ req.at \in {"send", "final", "ok"}
        /\ \A n \in Node : handler[n].at = "store" /\ ~conn[n].client =>
              Len(handler[n].got) + Len(conn[n].up) < Size

ExchangeInv ==
    /\ Typed /\ Turn /\ (\A n \in Node : Handling(n)) /\ Talking /\ Through
    /\ Filed /\ Marked /\ Single
-----------------------------------------------------------------------------
(* The chunk, its pieces and the items of a stream.                        *)

\* The chunk and a rotten copy of it have the same length, and differ.
LEMMA DataOK ==
  /\ Data \in Seq(Nat) /\ Rotten \in Seq(Nat)
  /\ Size \in Nat \ {0} /\ Len(Rotten) = Size
  /\ \A i \in 1..Size : Data[i] \in Nat /\ Rotten[i] \in Nat
  /\ \A i \in 1..Size : i # Size => Rotten[i] = Data[i]
<1>1. Data \in Seq(Nat) /\ Data # <<>> /\ Bad \in Nat
  BY ExchangeAssumption
<1>2. Size \in Nat \ {0} /\ \A i \in 1..Size : Data[i] \in Nat
  BY <1>1, EmptySeq, ElementOfSeq DEF Size
<1>3. /\ Rotten \in Seq(Nat) /\ Len(Rotten) = Size
      /\ \A i \in 1..Size : Rotten[i] = IF i = Size THEN Bad ELSE Data[i]
  BY <1>1, <1>2, ExceptSeq DEF Rotten, Size
<1> QED BY <1>1, <1>2, <1>3

\* What a file can come to hold: nothing yet, the chunk, a rotten copy.
LEMMA WholePieces ==
  Piece(<<>>) /\ Piece(Data) /\ Piece(Rotten)
<1>1. <<>> \in Seq(Nat) /\ Len(<<>>) = 0
  BY EmptySeq
<1> QED BY <1>1, DataOK DEF Piece, At, Size

\* A piece goes on with what may stand at the next position.
LEMMA PieceGrows ==
  ASSUME NEW s, Piece(s), NEW b \in At(Len(s) + 1), Len(s) < Size
  PROVE  Piece(Append(s, b)) /\ Len(Append(s, b)) = Len(s) + 1
<1>1. s \in Seq(Nat) /\ Len(s) \in Nat /\ Len(s) + 1 \in 1..Size
  BY DataOK, LenProperties DEF Piece
<1>2. b \in Nat
  BY <1>1, DataOK DEF At
<1>3. /\ Append(s, b) \in Seq(Nat) /\ Len(Append(s, b)) = Len(s) + 1
      /\ \A i \in 1..Len(s) : Append(s, b)[i] = s[i]
      /\ Append(s, b)[Len(s) + 1] = b
  BY <1>1, <1>2, AppendProperties
<1>4. \A i \in 1..Len(Append(s, b)) : i \in 1..Len(s) \/ i = Len(s) + 1
  BY <1>1, <1>3
<1> QED BY <1>1, <1>3, <1>4, DataOK DEF Piece

\* A byte read from a file may stand where it was read.
LEMMA PieceReads ==
  ASSUME NEW s, Piece(s), NEW i \in 1..Len(s)
  PROVE  s[i] \in At(i) /\ s[i] \in Nat
BY ElementOfSeq DEF Piece

\* A piece is a prefix of the chunk or of a rotten copy: what TypeOK says of
\* a file.
LEMMA PieceIsContents ==
  ASSUME NEW s, Piece(s)
  PROVE  s \in Contents
<1>1. s \in Seq(Nat) /\ Len(s) \in 0..Size /\ \A i \in 1..Len(s) : s[i] \in At(i)
  BY LenProperties, DataOK DEF Piece
<1> DEFINE Pre(c) == SubSeq(c, 1, Len(s))
<1>2. ASSUME NEW c \in {Data, Rotten}
      PROVE  /\ Pre(c) \in Seq(Nat) /\ Len(Pre(c)) = Len(s)
             /\ \A i \in 1..Len(s) : Pre(c)[i] = c[i]
  <2>1. \A i \in 1..Len(s) : c[i] \in Nat
    BY <1>1, DataOK
  <2> HIDE DEF Pre
  <2>2. /\ SubSeq(c, 1, Len(s)) \in Seq(Nat)
        /\ Len(SubSeq(c, 1, Len(s))) = IF 1 <= Len(s) THEN Len(s) - 1 + 1 ELSE 0
        /\ \A i \in 1..(Len(s) - 1 + 1) : SubSeq(c, 1, Len(s))[i] = c[1 + i - 1]
    BY <2>1, <1>1, SubSeqProperties
  <2> QED BY <2>2, <1>1 DEF Pre
<1> HIDE DEF Pre
<1>3. s = Pre(Data) \/ s = Pre(Rotten)
  <2>1. CASE \A i \in 1..Len(s) : s[i] = Data[i]
    <3>1. \A i \in 1..Len(s) : s[i] = Pre(Data)[i]
      BY <2>1, <1>2
    <3> QED BY <3>1, <1>1, <1>2, SeqEqual
  <2>2. CASE ~ \A i \in 1..Len(s) : s[i] = Data[i]
    <3>1. PICK j \in 1..Len(s) : s[j] # Data[j]
      BY <2>2
    <3>2. s[j] = Rotten[j] /\ j = Size
      BY <3>1, <1>1, DataOK DEF At
    <3>3. \A i \in 1..Len(s) : s[i] = Rotten[i]
      BY <3>2, <1>1, DataOK DEF At
    <3>4. \A i \in 1..Len(s) : s[i] = Pre(Rotten)[i]
      BY <3>3, <1>2
    <3> QED BY <3>4, <1>1, <1>2, SeqEqual
  <2> QED BY <2>1, <2>2
<1> QED BY <1>1, <1>3 DEF Contents, Pre, Size

\* The messages are what they are, and no message is a byte.
LEMMA Messages ==
  /\ Ok \in Message /\ No \in Message /\ Opening \in Message /\ Ok # No
  /\ ~IsByte(Ok) /\ ~IsByte(No) /\ ~IsByte(Opening)
  /\ Ok.is # "ready" /\ No.is # "ready"
  /\ \A m \in Readys : /\ m \in Message /\ m # Ok /\ m # No /\ ~IsByte(m) /\ m.is = "ready"
                       /\ m.size \in 0..Size /\ m.sum = Data
  /\ IF Stores THEN /\ Opening.is = "store" /\ Opening.is # "retrieve"
                    /\ Opening.size = Size /\ Opening.sum = Data
               ELSE Opening.is = "retrieve" /\ Opening.is # "store"
BY DEF Ok, No, Opening, Readys, Message, IsByte, StoreReq, RetrieveReq, RetrieveResp, Size

\* A byte is a byte.
LEMMA Bytes ==
  ASSUME NEW b \in Nat
  PROVE  /\ Byte(b) \in Message /\ IsByte(Byte(b)) /\ Byte(b).b = b
         /\ Byte(b) # Ok /\ Byte(b) # No /\ Byte(b).is # "ready"
         /\ Byte(b).is # "store" /\ Byte(b).is # "retrieve"
BY DEF Byte, Message, IsByte, Ok, No

\* The first item of a flow is the next byte, and the rest goes on from it.
LEMMA FlowHead ==
  ASSUME NEW s \in Seq(Message), NEW k \in Nat, Flow(s, k), s # <<>>
  PROVE  /\ IsByte(Head(s)) /\ Head(s).b \in At(k + 1) /\ Head(s).b \in Nat
         /\ Head(s) # Ok /\ Head(s) # No
         /\ Head(s).is \notin {"ready", "store", "retrieve"}
         /\ Flow(Tail(s), k + 1) /\ Len(Tail(s)) = Len(s) - 1 /\ k < Size
<1>1. /\ Len(s) \in Nat \ {0} /\ Head(s) = s[1] /\ Tail(s) \in Seq(Message)
      /\ Len(Tail(s)) = Len(s) - 1
      /\ \A i \in 1..Len(Tail(s)) : Tail(s)[i] = s[i + 1]
  BY EmptySeq, HeadTailProperties
<1>2. k + Len(s) <= Size /\ k < Size /\ k + 1 \in 1..Size
  BY <1>1, DataOK DEF Flow
<1>3. PICK b \in At(k + 1) : Head(s) = Byte(b)
  BY <1>1 DEF Flow
<1>4. b \in Nat
  BY <1>2, <1>3, DataOK DEF At
<1>5. Flow(Tail(s), k + 1)
  <2>1. k + 1 + Len(Tail(s)) <= Size
    BY <1>1, <1>2, DataOK
  <2>2. ASSUME NEW i \in 1..Len(Tail(s))
        PROVE  Tail(s)[i] \in {Byte(a) : a \in At(k + 1 + i)}
    <3>1. i + 1 \in 1..Len(s) /\ k + (i + 1) = k + 1 + i /\ Tail(s)[i] = s[i + 1]
      BY <1>1
    <3>2. s[i + 1] \in {Byte(a) : a \in At(k + (i + 1))}
      BY <3>1 DEF Flow
    <3> QED BY <3>1, <3>2
  <2> QED BY <2>1, <2>2 DEF Flow
<1>6. /\ IsByte(Byte(b)) /\ Byte(b).b = b /\ Byte(b) # Ok /\ Byte(b) # No
      /\ Byte(b).is \notin {"ready", "store", "retrieve"}
  BY <1>4, Bytes
<1> QED BY <1>1, <1>2, <1>3, <1>4, <1>5, <1>6

\* A flow goes on with what may stand at the next position.
LEMMA FlowGrows ==
  ASSUME NEW s \in Seq(Message), NEW k \in Nat, Flow(s, k), k + Len(s) < Size,
         NEW b \in At(k + Len(s) + 1)
  PROVE  /\ Flow(Append(s, Byte(b)), k) /\ Append(s, Byte(b)) \in Seq(Message)
         /\ Len(Append(s, Byte(b))) = Len(s) + 1 /\ Append(s, Byte(b)) # <<>>
<1>1. Len(s) \in Nat /\ k + Len(s) + 1 \in 1..Size
  BY DataOK, LenProperties
<1>2. b \in Nat
  BY <1>1, DataOK DEF At
<1>3. Byte(b) \in Message
  BY <1>2, Bytes
<1>4. /\ Append(s, Byte(b)) \in Seq(Message) /\ Append(s, Byte(b)) # <<>>
      /\ Len(Append(s, Byte(b))) = Len(s) + 1
      /\ \A i \in 1..Len(s) : Append(s, Byte(b))[i] = s[i]
      /\ Append(s, Byte(b))[Len(s) + 1] = Byte(b)
  BY <1>3, AppendProperties
<1>5. ASSUME NEW i \in 1..Len(Append(s, Byte(b)))
      PROVE  Append(s, Byte(b))[i] \in {Byte(a) : a \in At(k + i)}
  <2>1. CASE i \in 1..Len(s)
    <3>1. s[i] \in {Byte(a) : a \in At(k + i)}
      BY <2>1 DEF Flow
    <3> QED BY <2>1, <3>1, <1>4
  <2>2. CASE i = Len(s) + 1
    <3>1. k + i = k + Len(s) + 1
      BY <2>2, <1>1
    <3> QED BY <2>2, <3>1, <1>4
  <2> QED BY <2>1, <2>2, <1>1, <1>4
<1>6. k + Len(Append(s, Byte(b))) <= Size
  BY <1>1, <1>4, DataOK
<1> QED BY <1>4, <1>5, <1>6 DEF Flow

\* The whole chunk is a flow, and so is nothing.
LEMMA Flows ==
  /\ \A k \in 0..Size : Flow(<<>>, k)
  /\ LET s == [i \in DOMAIN Data |-> Byte(Data[i])] IN
        s \in Seq(Message) /\ Len(s) = Size /\ Flow(s, 0)
<1>1. ASSUME NEW k \in 0..Size PROVE Flow(<<>>, k)
  BY EmptySeq, DataOK DEF Flow
<1> DEFINE s == [i \in DOMAIN Data |-> Byte(Data[i])]
<1>2. DOMAIN Data = 1..Size
  BY DataOK, LenProperties DEF Size
<1>3. s \in [1..Size -> Message]
  BY <1>2, DataOK, Bytes
<1>4. s \in Seq(Message) /\ Len(s) = Size
  BY <1>3, DataOK
<1>5. Flow(s, 0)
  <2>1. ASSUME NEW i \in 1..Len(s) PROVE s[i] \in {Byte(a) : a \in At(0 + i)}
    <3>1. s[i] = Byte(Data[i]) /\ Data[i] \in At(0 + i)
      BY <1>2, <1>4, DataOK DEF At
    <3> QED BY <3>1
  <2> QED BY <2>1, <1>4, DataOK DEF Flow
<1> QED BY <1>1, <1>4, <1>5

\* A stream's length.
LEMMA Streams ==
  ASSUME NEW s \in Seq(Message)
  PROVE  /\ Len(s) \in Nat /\ (s = <<>> <=> Len(s) = 0)
         /\ \A m \in Message : Append(s, m) \in Seq(Message)
         /\ s # <<>> => Tail(s) \in Seq(Message) /\ Head(s) \in Message
BY LenProperties, EmptySeq, AppendProperties, HeadTailProperties

\* A single message.
LEMMA One ==
  ASSUME NEW m
  PROVE  /\ <<m>> # <<>> /\ Head(<<m>>) = m /\ Tail(<<m>>) = <<>> /\ Append(<<>>, m) = <<m>>
         /\ Len(<<m>>) = 1
OBVIOUS

\* A stream of a message and what follows it.
LEMMA Follows ==
  ASSUME NEW s \in Seq(Message), s # <<>>, NEW m \in Message
  PROVE  Head(Append(s, m)) = Head(s) /\ Tail(Append(s, m)) = Append(Tail(s), m)
BY HeadTailAppend

\* A connection nothing is left of.
LEMMA ClosedIs ==
  ASSUME NEW c \in Connection
  PROVE  c = Closed <=> c.up = <<>> /\ c.down = <<>> /\ ~c.client /\ ~c.server
<1>1. c = [up |-> c.up, down |-> c.down, client |-> c.client, server |-> c.server]
  BY DEF Connection
<1>2. c.client \in BOOLEAN /\ c.server \in BOOLEAN
  BY DEF Connection
<1> QED BY <1>1, <1>2 DEF Closed
-----------------------------------------------------------------------------
(* The steps of a handler.                                                 *)

\* The nodes still to be tried: the one it is at, and what is left then.
LEMMA PeerFacts ==
  ASSUME Typed, req.left # <<>>
  PROVE  /\ req.left \in Seq(Node) /\ Peer = req.left[1] /\ 1 \in DOMAIN req.left
         /\ Peer \in Node /\ Tail(req.left) \in Seq(Node)
         /\ \A i \in DOMAIN Tail(req.left) :
               i + 1 \in DOMAIN req.left /\ i + 1 > 1 /\ Tail(req.left)[i] = req.left[i + 1]
<1>1. req.left \in Seq(Node) /\ Len(req.left) \in Nat \ {0} /\ DOMAIN req.left = 1..Len(req.left)
  BY EmptySeq, LenProperties DEF Typed, Requester
<1>2. /\ Tail(req.left) \in Seq(Node) /\ Len(Tail(req.left)) = Len(req.left) - 1
      /\ \A i \in 1..Len(Tail(req.left)) : Tail(req.left)[i] = req.left[i + 1]
  BY <1>1, HeadTailProperties
<1>3. DOMAIN Tail(req.left) = 1..(Len(req.left) - 1)
  BY <1>2, LenProperties
<1>4. Peer = req.left[1] /\ Peer \in Node
  BY <1>1, ElementOfSeq DEF Peer
<1> QED BY <1>1, <1>2, <1>3, <1>4

\* Only n's connection changes.
OnlyConn(n) ==
    conn' \in [Node -> Connection] /\ \A m \in Node \ {n} : conn'[m] = conn[m]

OnlyHandler(n) ==
    handler' \in [Node -> Handler] /\ \A m \in Node \ {n} : handler'[m] = handler[m]

\* A handler takes a message and answers it.
LEMMA AnswerOK ==
  ASSUME Typed, NEW n \in Node, NEW m \in Message, conn[n].up # <<>>, Answer(n, m)
  PROVE  /\ OnlyConn(n)
         /\ conn'[n].up = Tail(conn[n].up) /\ conn'[n].down = Append(conn[n].down, m)
         /\ conn'[n].client = conn[n].client /\ conn'[n].server = conn[n].server
<1>1. conn \in [Node -> Connection] /\ conn[n] \in Connection
  BY DEF Typed
<1>2. Tail(conn[n].up) \in Seq(Message) /\ Append(conn[n].down, m) \in Seq(Message)
  BY <1>1, Streams DEF Connection
<1>3. conn' = [conn EXCEPT ![n] =
         [up |-> Tail(conn[n].up), down |-> Append(conn[n].down, m),
          client |-> conn[n].client, server |-> conn[n].server]]
  BY <1>1 DEF Answer, Connection
<1> QED BY <1>1, <1>2, <1>3 DEF OnlyConn, Connection

\* A handler sends a message, lost if the requester has closed.
LEMMA ReplyOK ==
  ASSUME Typed, NEW n \in Node, NEW m \in Message, Reply(n, m)
  PROVE  /\ OnlyConn(n)
         /\ conn'[n].up = conn[n].up
         /\ conn[n].client => conn'[n].down = Append(conn[n].down, m)
         /\ ~conn[n].client => conn'[n].down = conn[n].down
         /\ conn'[n].client = conn[n].client /\ conn'[n].server = conn[n].server
<1>1. conn \in [Node -> Connection] /\ conn[n] \in Connection
  BY DEF Typed
<1>2. Append(conn[n].down, m) \in Seq(Message)
  BY <1>1, Streams DEF Connection
<1>3. CASE conn[n].client
  BY <1>1, <1>2, <1>3 DEF OnlyConn, Connection, Reply
<1>4. CASE ~conn[n].client
  BY <1>1, <1>4 DEF OnlyConn, Connection, Reply
<1> QED BY <1>3, <1>4

\* A handler takes what comes next.
LEMMA TakeOK ==
  ASSUME Typed, NEW n \in Node, conn[n].up # <<>>,
         conn' = [conn EXCEPT ![n].up = Tail(@)]
  PROVE  /\ OnlyConn(n)
         /\ conn'[n].up = Tail(conn[n].up) /\ conn'[n].down = conn[n].down
         /\ conn'[n].client = conn[n].client /\ conn'[n].server = conn[n].server
<1>1. conn \in [Node -> Connection] /\ conn[n] \in Connection
  BY DEF Typed
<1>2. Tail(conn[n].up) \in Seq(Message)
  BY <1>1, Streams DEF Connection
<1> QED BY <1>1, <1>2 DEF OnlyConn, Connection

\* What is on its way to a node changes.
LEMMA SendUpOK ==
  ASSUME Typed, NEW n \in Node, NEW s \in Seq(Message),
         conn' = [conn EXCEPT ![n].up = s]
  PROVE  /\ OnlyConn(n)
         /\ conn'[n].up = s /\ conn'[n].down = conn[n].down
         /\ conn'[n].client = conn[n].client /\ conn'[n].server = conn[n].server
<1>1. conn \in [Node -> Connection] /\ conn[n] \in Connection
  BY DEF Typed
<1> QED BY <1>1 DEF OnlyConn, Connection

\* The requester takes what comes next.
LEMMA TakeDownOK ==
  ASSUME Typed, NEW n \in Node, conn[n].down # <<>>,
         conn' = [conn EXCEPT ![n].down = Tail(@)]
  PROVE  /\ OnlyConn(n)
         /\ conn'[n].up = conn[n].up /\ conn'[n].down = Tail(conn[n].down)
         /\ conn'[n].client = conn[n].client /\ conn'[n].server = conn[n].server
<1>1. conn \in [Node -> Connection] /\ conn[n] \in Connection
  BY DEF Typed
<1>2. Tail(conn[n].down) \in Seq(Message)
  BY <1>1, Streams DEF Connection
<1> QED BY <1>1, <1>2 DEF OnlyConn, Connection

\* The requester closes its end.
LEMMA HangupOK ==
  ASSUME Typed, NEW n \in Node, Hangup(n)
  PROVE  /\ OnlyConn(n)
         /\ conn'[n].up = conn[n].up /\ conn'[n].down = <<>>
         /\ conn'[n].client = FALSE /\ conn'[n].server = conn[n].server
<1>1. conn \in [Node -> Connection] /\ conn[n] \in Connection
  BY DEF Typed
<1>2. <<>> \in Seq(Message)
  BY EmptySeq
<1> QED BY <1>1, <1>2 DEF OnlyConn, Connection, Hangup

\* A handler's record starts anew.
LEMMA AnewOK ==
  ASSUME Typed, NEW n \in Node, NEW at \in {"receive", "astray", "success", "failure", "broken", "stat"},
         handler' = [handler EXCEPT ![n] = [Idle EXCEPT !.at = at]]
  PROVE  OnlyHandler(n) /\ handler'[n].at = at /\ handler'[n].sent = 0
<1>1. handler \in [Node -> Handler] /\ handler[n] \in Handler
  BY DEF Typed
<1>2. <<>> \in Seq(Nat)
  BY EmptySeq
<1>3. [Idle EXCEPT !.at = at] \in Handler /\ [Idle EXCEPT !.at = at].at = at
      /\ [Idle EXCEPT !.at = at].sent = 0
  BY <1>2 DEF Idle, Handler
<1> QED BY <1>1, <1>3 DEF OnlyHandler

\* A handler starts on a chunk that was announced.
LEMMA StartsOK ==
  ASSUME Typed, NEW n \in Node,
         handler' = [handler EXCEPT ![n] =
                        [Idle EXCEPT !.at = "store", !.size = Size, !.sum = Data]]
  PROVE  /\ OnlyHandler(n) /\ handler'[n].at = "store"
         /\ handler'[n].size = Size /\ handler'[n].sum = Data
         /\ handler'[n].got = <<>> /\ handler'[n].sent = 0
<1>1. handler \in [Node -> Handler] /\ handler[n] \in Handler
  BY DEF Typed
<1>2. <<>> \in Seq(Nat)
  BY EmptySeq
<1> DEFINE r == [Idle EXCEPT !.at = "store", !.size = Size, !.sum = Data]
<1>3. /\ DOMAIN r = {"at", "got", "size", "sum", "sent"}
      /\ r.at = "store" /\ r.got = <<>> /\ r.size = Size /\ r.sum = Data /\ r.sent = 0
  BY DEF Idle
<1>4. r \in Handler
  BY <1>2, DataOK DEF Idle, Handler
<1> QED BY <1>1, <1>3, <1>4 DEF OnlyHandler

\* A handler and its stream are as they were.
LEMMA HandlingStays ==
  ASSUME NEW n \in Node, Handling(n), role' = role,
         conn'[n].up = conn[n].up, conn'[n].server = conn[n].server,
         conn'[n].client => conn[n].client,
         handler'[n] = handler[n], reported'[n] = reported[n]
  PROVE  Handling(n)'
<1>1. (Stores' <=> Stores) /\ Opening' = Opening
  BY DEF Stores, Opening
<1>2. Flow(conn[n].up, Len(handler[n].got))' <=> Flow(conn[n].up, Len(handler[n].got))
  BY DEF Flow, Size
<1>3. (0..Size)' = 0..Size /\ Size' = Size
  BY DEF Size
<1> QED BY <1>1, <1>2, <1>3 DEF Handling

\* What a step of n's handler may do: it changes nothing but what is n's, and
\* leaves that in order.
Local(n) ==
    /\ UNCHANGED <<role, req, writing, breaks, disturbs>>
    /\ OnlyConn(n) /\ OnlyHandler(n)
    /\ \A m \in Node \ {n} : reported'[m] = reported[m] /\ sum'[m] = sum[m]
    /\ \A p \in Place \ {n} : file'[p] = file[p]
    /\ active' \ {n} = active \ {n}
    /\ handler[n].at # "none" /\ conn'[n].client = conn[n].client

Filing(n) ==
    /\ file'[n] = NoFile \/ Piece(file'[n])
    /\ n \in writing \/ file'[n] \in {NoFile, Data, Rotten} \/ handler'[n].at = "store"
    /\ handler'[n].at = "store" => file'[n] = handler'[n].got /\ Piece(handler'[n].got)
    /\ Succeeded(n)' => file'[n] = Data /\ sum'[n] = Data
    /\ n \in active' =>
          n \in writing \/ handler'[n].at \in {"store", "success", "failure", "broken"}

Saying(n) ==
    /\ Live /\ n = Peer =>
          IF conn[n].client THEN Dialogue(n)' ELSE conn'[n] = Closed
    /\ Is("ok") /\ n = Peer =>
          /\ conn'[n].up = <<>> /\ conn'[n].down = <<>> /\ handler'[n].at # "store"
          /\ Succeeded(n) => Succeeded(n)'

Singly(n) ==
    breaks = 0 =>
        /\ Failed(n) => Failed(n)'
        /\ Succeeded(n)' => req.left # <<>> /\ n = Peer /\ req.at \in {"send", "final", "ok"}
        /\ handler'[n].at = "store" /\ ~conn[n].client =>
              Len(handler'[n].got) + Len(conn'[n].up) < Size

\* Such a step preserves the invariant.
LEMMA LocalStep ==
  ASSUME ExchangeInv, NEW n \in Node, Local(n), Typed', Handling(n)', Filing(n), Saying(n),
         Singly(n)
  PROVE  ExchangeInv'
<1>1. /\ req' = req /\ role' = role /\ writing' = writing /\ breaks' = breaks
      /\ (Stores' <=> Stores) /\ (Live' <=> Live) /\ Peer' = Peer /\ Opening' = Opening
      /\ \A p : Source(p)' <=> Source(p)
  BY DEF Local, Stores, Live, Peer, Opening, Source
<1>2. ASSUME NEW m \in Node \ {n}
      PROVE  /\ conn'[m] = conn[m] /\ handler'[m] = handler[m] /\ reported'[m] = reported[m]
             /\ sum'[m] = sum[m] /\ file'[m] = file[m] /\ (m \in active' <=> m \in active)
             /\ m \in Place
  BY DEF Local, OnlyConn, OnlyHandler, Place
<1>3. n # Me /\ Me \in Place /\ file'[Me] = file[Me] /\ (Me \in active' <=> Me \in active)
  BY ExchangeAssumption DEF Local, Place
<1>4. ASSUME NEW m \in Node \ {n} PROVE Handling(m)'
  <2>1. Handling(m)
    BY DEF ExchangeInv
  <2> QED BY <2>1, <1>1, <1>2, HandlingStays
<1>5. Turn'
  <2>1. ASSUME NEW i \in DOMAIN req.left, i > 1 \/ Is("next") PROVE req.left[i] \in Node \ {n}
    BY <2>1, LenProperties DEF Local, Turn, ExchangeInv, Typed, Requester
  <2>2. \A m \in Node : conn'[m].client = conn[m].client
    BY <1>2 DEF Local
  <2> QED BY <2>1, <2>2, <1>1, <1>2 DEF Turn, ExchangeInv, Is
<1>6. Talking'
  <2>1. SUFFICES ASSUME Live PROVE Peer \in Node /\ (IF conn[Peer].client THEN Dialogue(Peer) ELSE conn[Peer] = Closed)'
    BY <1>1 DEF Talking
  <2>2. Peer \in Node /\ IF conn[Peer].client THEN Dialogue(Peer) ELSE conn[Peer] = Closed
    BY <2>1 DEF ExchangeInv, Talking
  <2>3. CASE Peer = n
    BY <2>1, <2>2, <2>3, <1>1 DEF Saying, Local
  <2>4. CASE Peer # n
    BY <2>2, <2>4, <1>1, <1>2
       DEF Dialogue, Answered, Astray, Carried, Succeeded, Failed, Flow, Is
  <2> QED BY <2>3, <2>4
<1>7. Through'
  <2>1. SUFFICES ASSUME Is("ok") PROVE Through'
    BY <1>1 DEF Through, Is
  <2>2. Peer \in Node
    <3>1. req.left \in Seq(Node) /\ req.left # <<>>
      BY <2>1 DEF ExchangeInv, Turn, Typed, Requester, Is
    <3> QED BY <3>1, HeadTailProperties DEF Peer
  <2>3. /\ conn[Peer].up = <<>> /\ conn[Peer].down = <<>> /\ handler[Peer].at # "store"
        /\ IF Stores THEN Succeeded(Peer) ELSE file[Me] = Data
    BY <2>1 DEF ExchangeInv, Through
  <2>4. CASE Peer = n
    BY <2>1, <2>3, <2>4, <1>1, <1>3 DEF Through, Saying
  <2>5. CASE Peer # n
    BY <2>2, <2>3, <2>5, <1>1, <1>2, <1>3 DEF Through, Succeeded
  <2> QED BY <2>4, <2>5
<1>8. Filed'
  <2>1. Filed /\ n \in Place
    BY DEF ExchangeInv, Place
  <2>2. ASSUME NEW p \in Place \ {n}
        PROVE  /\ file'[p] = file[p]
               /\ p \in Node => handler'[p] = handler[p] /\ reported'[p] = reported[p]
                                /\ sum'[p] = sum[p]
    BY <1>2 DEF Local
  <2>3. \A p \in Place : file'[p] = NoFile \/ Piece(file'[p])
    BY <2>1, <2>2 DEF Filed, Filing
  <2>4. ASSUME NEW p \in Place
        PROVE  \/ p \in writing' \/ file'[p] \in {NoFile, Data, Rotten}
               \/ p \in Node /\ handler'[p].at = "store"
               \/ p = Me /\ Is("copy")'
    <3>1. CASE p = n
      BY <3>1, <1>1 DEF Filing
    <3>2. CASE p # n
      BY <3>2, <2>1, <2>2, <1>1 DEF Filed, Is
    <3> QED BY <3>1, <3>2
  <2>5. ASSUME NEW m \in Node, handler'[m].at = "store"
        PROVE  file'[m] = handler'[m].got /\ Piece(handler'[m].got)
    <3>1. CASE m = n
      BY <2>5, <3>1 DEF Filing
    <3>2. CASE m # n
      BY <2>5, <3>2, <2>1, <1>2 DEF Filed
    <3> QED BY <3>1, <3>2
  <2>6. ASSUME NEW m \in Node, Succeeded(m)' PROVE file'[m] = Data /\ sum'[m] = Data
    <3>1. CASE m = n
      BY <2>6, <3>1 DEF Filing
    <3>2. CASE m # n
      BY <2>6, <3>2, <2>1, <1>2 DEF Filed, Succeeded
    <3> QED BY <3>1, <3>2
  <2>7. Is("copy")' => file'[Me] = req'.got /\ Piece(req'.got)
    BY <2>1, <1>1, <1>3 DEF Filed, Is
  <2> QED BY <2>3, <2>4, <2>5, <2>6, <2>7 DEF Filed, Piece
<1>9. Marked'
  BY <1>1, <1>2, <1>3 DEF ExchangeInv, Marked, Filing
<1>10. Single'
  <2>1. SUFFICES ASSUME breaks = 0 PROVE Single'
    BY <1>1 DEF Single
  <2>2. ASSUME Live PROVE conn'[Peer].client \/ Failed(Peer)'
    <3>1. Peer \in Node /\ (conn[Peer].client \/ Failed(Peer))
      BY <2>1, <2>2 DEF ExchangeInv, Talking, Single
    <3>2. CASE Peer = n
      BY <2>1, <3>1, <3>2, <1>1 DEF Local, Singly
    <3>3. CASE Peer # n
      BY <3>1, <3>3, <1>1, <1>2 DEF Failed
    <3> QED BY <3>2, <3>3
  <2>3. ASSUME NEW m \in Node, Succeeded(m)'
        PROVE  req.left # <<>> /\ m = Peer /\ req.at \in {"send", "final", "ok"}
    <3>1. CASE m = n
      BY <2>1, <2>3, <3>1 DEF Singly
    <3>2. CASE m # n
      BY <2>1, <2>3, <3>2, <1>2 DEF ExchangeInv, Single, Succeeded
    <3> QED BY <3>1, <3>2
  <2>4. ASSUME NEW m \in Node, handler'[m].at = "store", ~conn'[m].client
        PROVE  Len(handler'[m].got) + Len(conn'[m].up) < Size
    <3>1. CASE m = n
      BY <2>1, <2>4, <3>1 DEF Singly, Local
    <3>2. CASE m # n
      BY <2>1, <2>4, <3>2, <1>2 DEF ExchangeInv, Single
    <3> QED BY <3>1, <3>2
  <2> QED BY <2>2, <2>3, <2>4, <1>1 DEF Single
<1> QED BY <1>4, <1>5, <1>6, <1>7, <1>8, <1>9, <1>10 DEF ExchangeInv

\* What the invariant says of a handler, and of its connection while the
\* requester is at it.
LEMMA HandlerFacts ==
  ASSUME ExchangeInv, NEW n \in Node
  PROVE  /\ Typed /\ Handling(n) /\ n \in Place /\ n # Me
         /\ conn[n] \in Connection /\ handler[n] \in Handler
         /\ conn[n].client => Live /\ n = Peer /\ Dialogue(n)
         /\ Live /\ n = Peer /\ ~conn[n].client => conn[n] = Closed
         /\ Is("ok") /\ n = Peer =>
               /\ conn[n].up = <<>> /\ conn[n].down = <<>> /\ handler[n].at # "store"
               /\ Stores => Succeeded(n)
         /\ file[n] = NoFile \/ Piece(file[n])
         /\ n \in writing => ~Stores
         /\ ~Succeeded(n) \/ ~Failed(n)
<1>1. conn[n].client => Live /\ n = Peer /\ Dialogue(n)
  BY DEF ExchangeInv, Turn, Talking
<1>2. n \in writing => ~Stores
  BY ExchangeAssumption DEF ExchangeInv, Marked, Source, Stores
<1>3. Handling(n) /\ reported[n] \in {"none", "success", "failure"}
  BY DEF ExchangeInv, Typed
<1>4. ~Succeeded(n) \/ ~Failed(n)
  BY <1>3 DEF Handling, Succeeded, Failed
<1> QED BY <1>1, <1>2, <1>3, <1>4, ExchangeAssumption
       DEF ExchangeInv, Typed, Talking, Through, Filed, Place

\* handleClient's end.
LEMMA HandlerEndsStep ==
  ASSUME ExchangeInv, NEW n \in Node, HandlerEnds(n)
  PROVE  ExchangeInv'
<1>1. /\ handler[n].at \in {"receive", "astray"} /\ conn[n].up = <<>> /\ ~conn[n].client
      /\ UNCHANGED <<role, req, file, sum, active, writing, reported, breaks, disturbs>>
  BY DEF HandlerEnds, files
<1>2. Typed /\ Handling(n) /\ conn[n] \in Connection
  BY HandlerFacts
<1>3. /\ OnlyConn(n) /\ conn'[n].up = <<>> /\ conn'[n].client = conn[n].client
      /\ ~conn'[n].server /\ conn'[n].down = conn[n].down
  BY <1>1, <1>2 DEF HandlerEnds, OnlyConn, Typed, Connection
<1>4. OnlyHandler(n) /\ handler'[n].at = "none"
  BY <1>1, <1>2, EmptySeq DEF HandlerEnds, OnlyHandler, Typed, Handler, Idle
<1>5. Local(n)
  BY <1>1, <1>3, <1>4 DEF Local
<1>6. Typed'
  BY <1>1, <1>2, <1>3, <1>4 DEF Typed, OnlyConn, OnlyHandler
<1>7. Handling(n)'
  BY <1>1, <1>2, <1>3, <1>4 DEF Handling, Stores
<1>8. Filing(n)
  BY <1>1, <1>4, HandlerFacts DEF ExchangeInv, Filed, Filing, Marked, Succeeded
<1>9. Saying(n)
  <2>1. Live /\ n = Peer => conn[n] = Closed
    BY <1>1, HandlerFacts
  <2>2. conn[n] = Closed => conn'[n] = Closed
    BY <1>1, <1>2, <1>3, ClosedIs DEF OnlyConn
  <2> QED BY <1>1, <1>3, <1>4, <2>1, <2>2, HandlerFacts DEF Saying, Succeeded
<1>10. Singly(n)
  BY <1>1, <1>4 DEF ExchangeInv, Single, Singly, Succeeded, Failed
<1> QED BY <1>5, <1>6, <1>7, <1>8, <1>9, <1>10, LocalStep

\* A handler that is about to take a message takes the requester's first.
LEMMA BeginningOK ==
  ASSUME ExchangeInv, NEW n \in Node, NEW kind \in {"store", "retrieve"}, Receives(n, kind)
  PROVE  /\ handler[n].at = "receive" /\ conn[n].up = <<Opening>> /\ conn[n].up # <<>>
         /\ Head(conn[n].up) = Opening /\ Tail(conn[n].up) = <<>>
         /\ (Stores <=> kind = "store") /\ reported[n] = "none" /\ ~Succeeded(n)
         /\ conn[n].client => Is("ready") /\ conn[n].down = <<>> /\ n = Peer
         /\ conn[n] # Closed /\ ~(Is("ok") /\ n = Peer)
         /\ n \in writing \/ file[n] \in {NoFile, Data, Rotten}
         /\ n \in active => n \in writing
<1>1. handler[n].at = "receive" /\ conn[n].up # <<>> /\ Head(conn[n].up).is = kind
  BY DEF Receives
<1>2. Typed /\ Handling(n) /\ reported[n] \in {"none", "success", "failure"} /\ n # Me
  BY HandlerFacts DEF Typed
<1>3. conn[n].up = <<Opening>> /\ reported[n] = "none"
  BY <1>1, <1>2 DEF Handling
<1>4. Head(conn[n].up) = Opening /\ Tail(conn[n].up) = <<>>
  BY <1>3, One
<1>5. Stores <=> kind = "store"
  BY <1>1, <1>4, Messages
<1>6. conn[n].client => Is("ready") /\ conn[n].down = <<>> /\ n = Peer
  <2>1. SUFFICES ASSUME conn[n].client PROVE Is("ready") /\ conn[n].down = <<>> /\ n = Peer
    OBVIOUS
  <2>2. Live /\ n = Peer /\ Dialogue(n)
    BY <2>1, HandlerFacts
  <2> QED BY <2>2, <1>1 DEF Live, Is, Dialogue, Answered, Astray, Carried
<1>7. conn[n] # Closed
  BY <1>1 DEF Closed
<1>8. n \in writing \/ file[n] \in {NoFile, Data, Rotten}
  BY <1>1, <1>2, HandlerFacts DEF ExchangeInv, Filed
<1>9. n \in active => n \in writing
  BY <1>1 DEF ExchangeInv, Marked
<1>10. ~Succeeded(n)
  BY <1>1, <1>3 DEF Succeeded
<1> QED BY <1>1, <1>3, <1>4, <1>5, <1>6, <1>7, <1>8, <1>9, <1>10, HandlerFacts

\* handleStoreChunk refuses.
LEMMA StoreRefusedStep ==
  ASSUME ExchangeInv, NEW n \in Node, StoreRefused(n)
  PROVE  ExchangeInv'
<1>1. /\ Receives(n, "store")
      /\ UNCHANGED <<role, req, file, sum, active, writing, reported, breaks, disturbs>>
  BY DEF StoreRefused, files
<1>2. /\ handler[n].at = "receive" /\ conn[n].up = <<Opening>> /\ conn[n].up # <<>>
      /\ Tail(conn[n].up) = <<>> /\ Stores /\ reported[n] = "none"
  BY <1>1, BeginningOK
<1>3. Typed /\ Handling(n)
  BY HandlerFacts
<1>4. /\ OnlyConn(n) /\ conn'[n].up = <<>> /\ conn'[n].client = conn[n].client
      /\ conn'[n].server = conn[n].server /\ conn'[n].down = Append(conn[n].down, No)
  BY <1>2, <1>3, AnswerOK, Messages DEF StoreRefused
<1>5. OnlyHandler(n) /\ handler'[n].at = "failure"
  BY <1>3, AnewOK DEF StoreRefused, ToReport
<1>6. Local(n)
  BY <1>1, <1>2, <1>4, <1>5 DEF Local
<1>7. Typed'
  BY <1>1, <1>3, <1>4, <1>5 DEF Typed, OnlyConn, OnlyHandler
<1>8. Handling(n)'
  BY <1>1, <1>2, <1>3, <1>4, <1>5 DEF Handling, Stores
<1>9. Filing(n)
  BY <1>1, <1>2, <1>5, BeginningOK, HandlerFacts DEF Filing, Succeeded
<1>10. Saying(n)
  <2>1. conn[n].client => Is("ready") /\ conn[n].down = <<>>
    BY <1>1, BeginningOK
  <2>2. conn[n].client => Dialogue(n)'
    BY <1>1, <1>2, <1>4, <1>5, <2>1, One DEF Dialogue, Failed, Is, Stores
  <2> QED BY <1>1, <2>2, BeginningOK, HandlerFacts DEF Saying
<1>11. Singly(n)
  BY <1>1, <1>2, <1>5 DEF Singly, Succeeded, Failed
<1> QED BY <1>6, <1>7, <1>8, <1>9, <1>10, <1>11, LocalStep

\* handleStoreChunk begins.
LEMMA StoreBeginStep ==
  ASSUME ExchangeInv, NEW n \in Node, StoreBegin(n)
  PROVE  ExchangeInv'
<1>1. /\ Receives(n, "store") /\ Answer(n, Ok)
      /\ file' = [file EXCEPT ![n] = <<>>] /\ active' = active \cup {n}
      /\ UNCHANGED <<role, req, sum, writing, reported, breaks, disturbs>>
  BY DEF StoreBegin
<1>2. /\ handler[n].at = "receive" /\ conn[n].up = <<Opening>> /\ conn[n].up # <<>>
      /\ Tail(conn[n].up) = <<>> /\ Head(conn[n].up) = Opening
      /\ Stores /\ reported[n] = "none"
  BY <1>1, BeginningOK
<1>3. Typed /\ Handling(n) /\ n \in Place
  BY HandlerFacts
<1>4. /\ OnlyConn(n) /\ conn'[n].up = <<>> /\ conn'[n].client = conn[n].client
      /\ conn'[n].server = conn[n].server /\ conn'[n].down = Append(conn[n].down, Ok)
  BY <1>1, <1>2, <1>3, AnswerOK, Messages
<1>5. /\ OnlyHandler(n) /\ handler'[n].at = "store"
      /\ handler'[n].size = Size /\ handler'[n].sum = Data /\ handler'[n].got = <<>>
  <2>1. handler' = [handler EXCEPT ![n] =
           [Idle EXCEPT !.at = "store", !.size = Size, !.sum = Data]]
    BY <1>2, Messages DEF StoreBegin
  <2> QED BY <2>1, <1>3, StartsOK
<1>6. /\ \A p \in Place \ {n} : file'[p] = file[p]
      /\ file'[n] = <<>> /\ file' \in [Place -> {NoFile} \cup Seq(Nat)]
  BY <1>1, <1>3, EmptySeq DEF Typed
<1>7. Local(n)
  BY <1>1, <1>2, <1>4, <1>5, <1>6 DEF Local
<1>8. Typed'
  BY <1>1, <1>3, <1>4, <1>5, <1>6 DEF Typed, OnlyConn, OnlyHandler
<1>9. Handling(n)'
  <2>1. Flow(conn'[n].up, Len(handler'[n].got))
    BY <1>4, <1>5, Flows, EmptySeq, DataOK
  <2> QED BY <2>1, <1>1, <1>2, <1>3, <1>4, <1>5 DEF Handling, Stores, Flow, Size
<1>10. Filing(n)
  BY <1>1, <1>2, <1>5, <1>6, WholePieces DEF Filing, Succeeded
<1>11. Saying(n)
  <2>1. conn[n].client => Is("ready") /\ conn[n].down = <<>>
    BY <1>1, BeginningOK
  <2>2. conn[n].client => Dialogue(n)'
    BY <1>1, <1>2, <1>4, <1>5, <2>1, One DEF Dialogue, Is
  <2> QED BY <1>1, <2>2, BeginningOK, HandlerFacts DEF Saying
<1>12. Singly(n)
  BY <1>1, <1>2, <1>4, <1>5, EmptySeq, DataOK DEF Singly, Succeeded, Failed
<1> QED BY <1>7, <1>8, <1>9, <1>10, <1>11, <1>12, LocalStep

\* What has come and what is to come make up at most the chunk.
LEMMA Shares ==
  ASSUME NEW g \in Nat, NEW u \in Nat, NEW k \in Nat, g + u <= k
  PROVE  /\ g \in 0..k
         /\ g = k => u = 0
OBVIOUS

\* A handler that is storing has the chunk up to where its stream goes on.
LEMMA StoringOK ==
  ASSUME ExchangeInv, NEW n \in Node, handler[n].at = "store"
  PROVE  /\ Stores /\ handler[n].size = Size /\ handler[n].sum = Data
         /\ Flow(conn[n].up, Len(handler[n].got)) /\ conn[n].up \in Seq(Message)
         /\ handler[n].got \in Seq(Nat)
         /\ Len(handler[n].got) \in 0..Size /\ Len(conn[n].up) \in Nat
         /\ Len(handler[n].got) = Size => conn[n].up = <<>>
         /\ reported[n] = "none" /\ ~Succeeded(n) /\ n \notin writing
         /\ file[n] = handler[n].got /\ Piece(handler[n].got)
         /\ ~(Is("ok") /\ n = Peer)
         /\ conn[n].client => /\ Live /\ n = Peer /\ conn[n] # Closed
                              /\ req.at \in {"ready", "send", "final"}
                              /\ Is("ready") => conn[n].up = <<>> /\ handler[n].got = <<>>
                              /\ ~Is("ready") => conn[n].down = <<>>
                              /\ Is("send") => Len(handler[n].got) + Len(conn[n].up) = req.sent
                              /\ Is("final") => Len(handler[n].got) + Len(conn[n].up) = Size
<1>1. /\ Typed /\ Handling(n) /\ reported[n] \in {"none", "success", "failure"}
      /\ conn[n] \in Connection /\ handler[n] \in Handler
  BY HandlerFacts DEF Typed
<1>2. /\ Stores /\ handler[n].size = Size /\ handler[n].sum = Data /\ reported[n] = "none"
      /\ Flow(conn[n].up, Len(handler[n].got)) /\ ~Succeeded(n) /\ ~Failed(n)
  BY <1>1 DEF Handling, Succeeded, Failed
<1>3. /\ conn[n].up \in Seq(Message) /\ handler[n].got \in Seq(Nat)
      /\ Len(conn[n].up) \in Nat /\ Len(handler[n].got) \in Nat
      /\ Len(conn[n].up) = 0 => conn[n].up = <<>>
  BY <1>1, Streams, LenProperties DEF Connection, Handler
<1>4. /\ Len(handler[n].got) + Len(conn[n].up) <= Size /\ Len(handler[n].got) \in 0..Size
      /\ Len(handler[n].got) = Size => Len(conn[n].up) = 0
  <2>1. Len(handler[n].got) + Len(conn[n].up) <= Size
    BY <1>2 DEF Flow
  <2>2. Size \in Nat
    BY DataOK
  <2>3. Len(conn[n].up) \in Nat /\ Len(handler[n].got) \in Nat
    BY <1>3
  <2> QED BY <2>1, <2>2, <2>3, Shares
<1>5. file[n] = handler[n].got /\ Piece(handler[n].got)
  BY DEF ExchangeInv, Filed
<1>6. n \notin writing
  BY <1>2, HandlerFacts
<1>7. ASSUME conn[n].client
      PROVE  /\ Live /\ n = Peer /\ conn[n] # Closed
             /\ req.at \in {"ready", "send", "final"}
             /\ Is("ready") => conn[n].up = <<>> /\ handler[n].got = <<>>
             /\ ~Is("ready") => conn[n].down = <<>>
             /\ Is("send") => Len(handler[n].got) + Len(conn[n].up) = req.sent
             /\ Is("final") => Len(handler[n].got) + Len(conn[n].up) = Size
  <2>1. Live /\ n = Peer /\ Dialogue(n)
    BY <1>7, HandlerFacts
  <2>2. conn[n] # Closed
    BY <1>7 DEF Closed
  <2>3. Is("ready") => conn[n].up = <<>> /\ handler[n].got = <<>>
    BY <2>1, <1>2 DEF Dialogue, Carried
  <2>4. ~Is("ready") => conn[n].down = <<>> /\ ~Is("copy")
    BY <2>1, <1>2 DEF Dialogue, Carried, Answered, Astray, Is, Live
  <2>5. Is("send") => Len(handler[n].got) + Len(conn[n].up) = req.sent
    BY <2>1, <1>2 DEF Dialogue, Answered, Astray
  <2>6. Is("final") => Len(handler[n].got) + Len(conn[n].up) = Size
    BY <2>1, <1>2 DEF Dialogue, Answered, Astray
  <2> QED BY <2>1, <2>2, <2>3, <2>4, <2>5, <2>6 DEF Live, Is
<1> QED BY <1>2, <1>3, <1>4, <1>5, <1>6, <1>7, HandlerFacts

\* handleStoreChunk reads a byte.
LEMMA StoreByteStep ==
  ASSUME ExchangeInv, NEW n \in Node, StoreByte(n)
  PROVE  ExchangeInv'
<1> DEFINE b == Head(conn[n].up).b
<1>1. /\ handler[n].at = "store" /\ conn[n].up # <<>>
      /\ handler' = [handler EXCEPT ![n].got = Append(@, b)]
      /\ file' = [file EXCEPT ![n] = Append(@, b)]
      /\ conn' = [conn EXCEPT ![n].up = Tail(@)]
      /\ UNCHANGED <<role, req, sum, active, writing, reported, breaks, disturbs>>
  BY DEF StoreByte
<1>2. /\ Typed /\ Handling(n) /\ n \in Place
      /\ conn[n] \in Connection /\ handler[n] \in Handler
  BY HandlerFacts
<1>3. /\ Stores /\ conn[n].up \in Seq(Message) /\ Len(handler[n].got) \in 0..Size
      /\ Len(conn[n].up) \in Nat
      /\ Flow(conn[n].up, Len(handler[n].got)) /\ handler[n].got \in Seq(Nat)
      /\ file[n] = handler[n].got /\ Piece(handler[n].got) /\ n \notin writing
      /\ handler[n].size = Size /\ handler[n].sum = Data /\ reported[n] = "none"
  BY <1>1, StoringOK
<1>4. /\ b \in At(Len(handler[n].got) + 1) /\ b \in Nat /\ Len(handler[n].got) < Size
      /\ Flow(Tail(conn[n].up), Len(handler[n].got) + 1)
      /\ Len(Tail(conn[n].up)) = Len(conn[n].up) - 1
  <2> DEFINE s == conn[n].up
             k == Len(handler[n].got)
  <2>1. s \in Seq(Message) /\ s # <<>> /\ k \in Nat /\ Flow(s, k)
    BY <1>1, <1>3, DataOK
  <2> HIDE DEF s, k
  <2>2. /\ Head(s).b \in At(k + 1) /\ Head(s).b \in Nat /\ k < Size
        /\ Flow(Tail(s), k + 1) /\ Len(Tail(s)) = Len(s) - 1
    BY <2>1, FlowHead
  <2> QED BY <2>2 DEF s, k
<1> HIDE DEF b
<1>5. /\ Piece(Append(handler[n].got, b)) /\ Append(handler[n].got, b) \in Seq(Nat)
      /\ Len(Append(handler[n].got, b)) = Len(handler[n].got) + 1
  BY <1>3, <1>4, PieceGrows DEF Piece
<1>6. /\ OnlyConn(n) /\ conn'[n].up = Tail(conn[n].up) /\ conn'[n].down = conn[n].down
      /\ conn'[n].client = conn[n].client /\ conn'[n].server = conn[n].server
  BY <1>1, <1>2, TakeOK
<1>7. /\ OnlyHandler(n) /\ handler'[n].at = "store"
      /\ handler'[n].got = Append(handler[n].got, b)
      /\ handler'[n].size = Size /\ handler'[n].sum = Data
  BY <1>1, <1>2, <1>3, <1>5 DEF OnlyHandler, Typed, Handler
<1>8. /\ \A p \in Place \ {n} : file'[p] = file[p]
      /\ file'[n] = handler'[n].got /\ file' \in [Place -> {NoFile} \cup Seq(Nat)]
  BY <1>1, <1>2, <1>3, <1>5, <1>7 DEF Typed
<1>9. Local(n)
  BY <1>1, <1>6, <1>7, <1>8 DEF Local
<1>10. Typed'
  BY <1>1, <1>2, <1>6, <1>7, <1>8 DEF Typed, OnlyConn, OnlyHandler
<1>11. Handling(n)'
  <2>1. Flow(conn'[n].up, Len(handler'[n].got))
    BY <1>4, <1>5, <1>6, <1>7
  <2> QED BY <2>1, <1>1, <1>2, <1>3, <1>6, <1>7 DEF Handling, Stores, Flow, Size
<1>12. Filing(n)
  <2>1. ~Succeeded(n)'
    BY <1>1, <1>3, <1>7 DEF Succeeded
  <2>2. n \in active' => handler'[n].at = "store"
    BY <1>7
  <2> QED BY <2>1, <2>2, <1>5, <1>7, <1>8 DEF Filing
<1>13. Len(handler'[n].got) + Len(conn'[n].up) = Len(handler[n].got) + Len(conn[n].up)
  <2>1. Len(handler'[n].got) = Len(handler[n].got) + 1 /\ Len(conn'[n].up) = Len(conn[n].up) - 1
    BY <1>4, <1>5, <1>6, <1>7
  <2>2. Len(handler[n].got) \in Nat /\ Len(conn[n].up) \in Nat
    BY <1>3, LenProperties
  <2>3. ASSUME NEW g \in Nat, NEW u \in Nat PROVE g + 1 + (u - 1) = g + u
    OBVIOUS
  <2> QED BY <2>1, <2>2, <2>3
<1>14. Saying(n)
  <2>1. ASSUME conn[n].client PROVE Dialogue(n)'
    <3>1. /\ req.at \in {"send", "final"} /\ conn[n].down = <<>>
          /\ Is("send") => Len(handler[n].got) + Len(conn[n].up) = req.sent
          /\ Is("final") => Len(handler[n].got) + Len(conn[n].up) = Size
      BY <2>1, <1>1, StoringOK DEF Is
    <3> QED BY <3>1, <1>1, <1>6, <1>7, <1>13 DEF Dialogue, Is
  <2>2. ~(Is("ok") /\ n = Peer) /\ (Live /\ n = Peer => conn[n].client)
    BY <1>1, StoringOK, HandlerFacts DEF Closed
  <2> QED BY <2>1, <2>2 DEF Saying
<1>15. Singly(n)
  <2>1. ~Succeeded(n)'
    BY <1>1, <1>3, <1>7 DEF Succeeded
  <2>2. breaks = 0 /\ ~conn[n].client => Len(handler[n].got) + Len(conn[n].up) < Size
    BY <1>1 DEF ExchangeInv, Single
  <2>3. ~Failed(n)
    BY <1>1, <1>3 DEF Failed
  <2> QED BY <2>1, <2>2, <2>3, <1>13 DEF Singly
<1> QED BY <1>9, <1>10, <1>11, <1>12, <1>14, <1>15, LocalStep

\* handleStoreChunk's bytes end early.
LEMMA StoreShortStep ==
  ASSUME ExchangeInv, NEW n \in Node, StoreShort(n)
  PROVE  ExchangeInv'
<1>1. /\ handler[n].at = "store" /\ conn[n].up = <<>> /\ ~conn[n].client
      /\ file' = [file EXCEPT ![n] = NoFile]
      /\ UNCHANGED <<role, req, conn, sum, active, writing, reported, breaks, disturbs>>
  BY DEF StoreShort, Remove
<1>2. Typed /\ Handling(n) /\ n \in Place
  BY HandlerFacts
<1>3. Stores /\ reported[n] = "none"
  BY <1>1, StoringOK
<1>4. OnlyConn(n)
  BY <1>1, <1>2 DEF OnlyConn, Typed
<1>5. OnlyHandler(n) /\ handler'[n].at = "failure"
  BY <1>2, AnewOK DEF StoreShort, ToReport
<1>6. /\ \A p \in Place \ {n} : file'[p] = file[p]
      /\ file'[n] = NoFile /\ file' \in [Place -> {NoFile} \cup Seq(Nat)]
  BY <1>1, <1>2 DEF Typed
<1>7. Local(n)
  BY <1>1, <1>4, <1>5, <1>6 DEF Local
<1>8. Typed'
  BY <1>1, <1>2, <1>5, <1>6 DEF Typed, OnlyHandler
<1>9. Handling(n)'
  BY <1>1, <1>2, <1>3, <1>5 DEF Handling, Stores
<1>10. Filing(n)
  BY <1>1, <1>3, <1>5, <1>6 DEF Filing, Succeeded
<1>11. Saying(n)
  BY <1>1, StoringOK, HandlerFacts DEF Saying
<1>12. Singly(n)
  BY <1>1, <1>3, <1>5 DEF Singly, Succeeded, Failed
<1> QED BY <1>7, <1>8, <1>9, <1>10, <1>11, <1>12, LocalStep

\* handleStoreChunk fails to write, and is going back to Receive.
LEMMA StoreBrokenStep ==
  ASSUME ExchangeInv, NEW n \in Node, StoreBroken(n)
  PROVE  ExchangeInv'
<1>1. /\ handler[n].at = "store" /\ conn[n].up # <<>>
      /\ conn' = [conn EXCEPT ![n].up = Tail(@)]
      /\ file' = [file EXCEPT ![n] = NoFile]
      /\ UNCHANGED <<role, req, sum, active, writing, reported, breaks, disturbs>>
  BY DEF StoreBroken, Remove
<1>2. Typed /\ Handling(n) /\ n \in Place
  BY HandlerFacts
<1>3. Stores /\ reported[n] = "none"
  BY <1>1, StoringOK
<1>4. /\ OnlyConn(n) /\ conn'[n].down = conn[n].down
      /\ conn'[n].client = conn[n].client /\ conn'[n].server = conn[n].server
  BY <1>1, <1>2, TakeOK
<1>5. OnlyHandler(n) /\ handler'[n].at = "broken"
  BY <1>2, AnewOK DEF StoreBroken, ToReport
<1>6. /\ \A p \in Place \ {n} : file'[p] = file[p]
      /\ file'[n] = NoFile /\ file' \in [Place -> {NoFile} \cup Seq(Nat)]
  BY <1>1, <1>2 DEF Typed
<1>7. Local(n)
  BY <1>1, <1>4, <1>5, <1>6 DEF Local
<1>8. Typed'
  BY <1>1, <1>2, <1>4, <1>5, <1>6 DEF Typed, OnlyConn, OnlyHandler
<1>9. Handling(n)'
  BY <1>1, <1>2, <1>3, <1>4, <1>5 DEF Handling, Stores
<1>10. Filing(n)
  BY <1>1, <1>3, <1>5, <1>6 DEF Filing, Succeeded
<1>11. Saying(n)
  <2>1. ~(Is("ok") /\ n = Peer) /\ (Live /\ n = Peer => conn[n].client)
    BY <1>1, HandlerFacts DEF Closed
  <2>2. conn[n].client => Dialogue(n)'
    <3>1. conn[n].client =>
             req.at \in {"send", "final"} /\ conn[n].down = <<>>
      BY <1>1, <1>3, HandlerFacts
         DEF Dialogue, Answered, Astray, Carried, Succeeded, Failed, Live, Is
    <3> QED BY <3>1, <1>1, <1>4, <1>5 DEF Dialogue, Astray, Is
  <2> QED BY <2>1, <2>2 DEF Saying
<1>12. Singly(n)
  BY <1>1, <1>3, <1>5 DEF Singly, Succeeded, Failed
<1> QED BY <1>7, <1>8, <1>9, <1>10, <1>11, <1>12, LocalStep

\* A handler that is astray takes a byte for a part of a message.
LEMMA SwallowStep ==
  ASSUME ExchangeInv, NEW n \in Node, handler[n].at = "astray", conn[n].up # <<>>,
         conn' = [conn EXCEPT ![n].up = Tail(@)],
         UNCHANGED <<role, req, handler, file, sum, active, writing, reported, breaks, disturbs>>
  PROVE  ExchangeInv'
<1>1. Typed /\ Handling(n) /\ n \in Place
  BY HandlerFacts
<1>2. Stores /\ reported[n] = "failure"
  BY <1>1 DEF Handling
<1>3. /\ OnlyConn(n) /\ conn'[n].down = conn[n].down
      /\ conn'[n].client = conn[n].client /\ conn'[n].server = conn[n].server
  BY <1>1, TakeOK
<1>4. OnlyHandler(n)
  BY <1>1 DEF OnlyHandler, Typed
<1>5. Local(n)
  BY <1>3, <1>4 DEF Local
<1>6. Typed'
  BY <1>1, <1>3 DEF Typed, OnlyConn
<1>7. Handling(n)'
  BY <1>1, <1>2, <1>3 DEF Handling, Stores
<1>8. Filing(n)
  BY <1>1, <1>2, HandlerFacts DEF Filing, ExchangeInv, Filed, Marked, Succeeded
<1>9. Saying(n)
  <2>1. ~(Is("ok") /\ n = Peer) /\ (Live /\ n = Peer => conn[n].client)
    BY HandlerFacts DEF Closed
  <2>2. conn[n].client => Dialogue(n)'
    <3>1. conn[n].client =>
             req.at \in {"send", "final"} /\ conn[n].down = <<>>
      BY <1>2, HandlerFacts
         DEF Dialogue, Answered, Astray, Carried, Succeeded, Failed, Live, Is
    <3> QED BY <3>1, <1>3 DEF Dialogue, Astray, Is
  <2> QED BY <2>1, <2>2 DEF Saying
<1>10. Singly(n)
  BY <1>2 DEF Singly, Succeeded, Failed
<1> QED BY <1>5, <1>6, <1>7, <1>8, <1>9, <1>10, LocalStep

\* handleStoreChunk has its bytes and answers.
LEMMA StoredOK ==
  ASSUME ExchangeInv, NEW n \in Node, handler[n].at = "store",
         Len(handler[n].got) = handler[n].size,
         NEW m \in {Ok, No}, Reply(n, m),
         NEW what \in {"success", "failure"}, ToReport(n, what), m = Ok <=> what = "success",
         UNCHANGED <<role, req, active, writing, reported, breaks, disturbs>>
  PROVE  /\ Typed /\ n \in Place /\ Stores /\ reported[n] = "none" /\ conn[n].up = <<>>
         /\ OnlyConn(n) /\ OnlyHandler(n) /\ handler'[n].at = what
         /\ handler'[n].at # "store" /\ handler[n].at # "none"
         /\ conn'[n].client = conn[n].client
         /\ Handling(n)' /\ Saying(n)
         /\ breaks = 0 => /\ req.left # <<>> /\ n = Peer
                          /\ req.at \in {"send", "final", "ok"}
<1>1. /\ Stores /\ handler[n].size = Size /\ conn[n].up = <<>> /\ reported[n] = "none"
      /\ Len(handler[n].got) = Size
  BY StoringOK
<1>2. Typed /\ n \in Place /\ Handling(n) /\ conn[n] \in Connection
  BY HandlerFacts
<1>3. m \in Message
  BY Messages
<1>4. /\ OnlyConn(n) /\ conn'[n].up = <<>> /\ conn'[n].client = conn[n].client
      /\ conn[n].client => conn'[n].down = Append(conn[n].down, m)
      /\ ~conn[n].client => conn'[n].down = conn[n].down
      /\ conn'[n].server = conn[n].server
  BY <1>1, <1>2, <1>3, ReplyOK
<1>5. OnlyHandler(n) /\ handler'[n].at = what
  BY <1>2, AnewOK DEF ToReport
<1>6. Handling(n)'
  BY <1>1, <1>2, <1>4, <1>5 DEF Handling, Stores
<1>7. ASSUME conn[n].client
      PROVE  /\ req.at \in {"send", "final"} /\ conn[n].down = <<>> /\ n = Peer
             /\ Is("send") => req.sent = Size
  <2>1. handler[n].got # <<>>
    BY <1>1, EmptySeq, DataOK
  <2>2. Len(handler[n].got) + Len(conn[n].up) = Size
    BY <1>1, EmptySeq, DataOK
  <2> QED BY <1>7, <2>1, <2>2, StoringOK DEF Is
<1>8. Saying(n)
  <2>1. ASSUME conn[n].client PROVE Dialogue(n)'
    <3>1. conn'[n].up = <<>> /\ conn'[n].down = <<m>>
      BY <2>1, <1>4, <1>7, One
    <3>2. Answered(n)'
      BY <3>1, <1>5 DEF Answered, Succeeded, Failed
    <3> QED BY <2>1, <3>2, <1>7 DEF Dialogue, Is
  <2>2. ~(Is("ok") /\ n = Peer)
    BY StoringOK
  <2>3. ~conn[n].client /\ conn[n] = Closed => conn'[n] = Closed
    BY <1>1, <1>2, <1>4, ClosedIs DEF OnlyConn
  <2> QED BY <2>1, <2>2, <2>3, HandlerFacts DEF Saying
<1>9. breaks = 0 => req.left # <<>> /\ n = Peer /\ req.at \in {"send", "final", "ok"}
  <2>1. SUFFICES ASSUME breaks = 0 PROVE req.left # <<>> /\ n = Peer /\ req.at \in {"send", "final"}
    OBVIOUS
  <2>2. Len(handler[n].got) + Len(conn[n].up) = Size
    BY <1>1, EmptySeq, DataOK
  <2>3. ~(Size < Size)
    BY DataOK
  <2>4. conn[n].client
    BY <2>1, <2>2, <2>3 DEF ExchangeInv, Single
  <2> QED BY <2>4, <1>7 DEF ExchangeInv, Turn
<1> QED BY <1>1, <1>2, <1>4, <1>5, <1>6, <1>8, <1>9

\* The bytes do not match, or the checksum cannot be written.
LEMMA StoreBadStep ==
  ASSUME ExchangeInv, NEW n \in Node, StoreBad(n)
  PROVE  ExchangeInv'
<1>1. /\ handler[n].at = "store" /\ Len(handler[n].got) = handler[n].size
      /\ sum' = sum \/ sum' = [sum EXCEPT ![n] = NoFile]
      /\ file' = [file EXCEPT ![n] = NoFile]
      /\ Reply(n, No) /\ ToReport(n, "failure")
      /\ UNCHANGED <<role, req, active, writing, reported, breaks, disturbs>>
  BY DEF StoreBad, Remove
<1>2. /\ Typed /\ n \in Place /\ Stores /\ reported[n] = "none"
      /\ OnlyConn(n) /\ OnlyHandler(n) /\ handler'[n].at = "failure"
      /\ conn'[n].client = conn[n].client /\ Handling(n)' /\ Saying(n)
  BY <1>1, StoredOK, Messages
<1>3. /\ \A p \in Place \ {n} : file'[p] = file[p]
      /\ file'[n] = NoFile /\ file' \in [Place -> {NoFile} \cup Seq(Nat)]
      /\ \A m \in Node \ {n} : sum'[m] = sum[m]
      /\ sum' \in [Node -> {NoFile, Data}]
  BY <1>1, <1>2 DEF Typed
<1>4. Local(n)
  BY <1>1, <1>2, <1>3 DEF Local
<1>5. Typed'
  BY <1>1, <1>2, <1>3 DEF Typed, OnlyConn, OnlyHandler
<1>6. Filing(n)
  BY <1>1, <1>2, <1>3 DEF Filing, Succeeded
<1>7. Singly(n)
  BY <1>1, <1>2 DEF Singly, Succeeded, Failed
<1> QED BY <1>2, <1>4, <1>5, <1>6, <1>7, LocalStep

\* The chunk is stored.
LEMMA StoreGoodStep ==
  ASSUME ExchangeInv, NEW n \in Node, StoreGood(n)
  PROVE  ExchangeInv'
<1>1. /\ handler[n].at = "store" /\ Len(handler[n].got) = handler[n].size
      /\ handler[n].got = handler[n].sum
      /\ sum' = [sum EXCEPT ![n] = handler[n].got]
      /\ Reply(n, Ok) /\ ToReport(n, "success")
      /\ UNCHANGED <<role, req, file, active, writing, reported, breaks, disturbs>>
  BY DEF StoreGood
<1>2. /\ Typed /\ n \in Place /\ Stores /\ reported[n] = "none"
      /\ OnlyConn(n) /\ OnlyHandler(n) /\ handler'[n].at = "success"
      /\ conn'[n].client = conn[n].client /\ Handling(n)' /\ Saying(n)
      /\ breaks = 0 => req.left # <<>> /\ n = Peer /\ req.at \in {"send", "final", "ok"}
  BY <1>1, StoredOK, Messages
<1>3. file[n] = handler[n].got /\ handler[n].got = Data /\ handler[n].sum = Data
  BY <1>1, StoringOK
<1>4. /\ \A m \in Node \ {n} : sum'[m] = sum[m]
      /\ sum'[n] = Data /\ sum' \in [Node -> {NoFile, Data}]
  BY <1>1, <1>2, <1>3 DEF Typed
<1>5. Local(n)
  BY <1>1, <1>2, <1>4 DEF Local
<1>6. Typed'
  BY <1>1, <1>2, <1>4 DEF Typed, OnlyConn, OnlyHandler
<1>7. Filing(n)
  BY <1>1, <1>2, <1>3, <1>4, WholePieces DEF Filing, Succeeded
<1>8. Singly(n)
  BY <1>1, <1>2 DEF Singly, Succeeded, Failed
<1> QED BY <1>2, <1>5, <1>6, <1>7, <1>8, LocalStep

\* handleStoreChunk reports and leaves activeWrites.
LEMMA ReportStep ==
  ASSUME ExchangeInv, NEW n \in Node, Report(n)
  PROVE  ExchangeInv'
<1> DEFINE what == IF handler[n].at = "success" THEN "success" ELSE "failure"
           next == IF handler[n].at = "broken" THEN "astray" ELSE "receive"
<1>1. /\ handler[n].at \in {"success", "failure", "broken"}
      /\ reported' = [reported EXCEPT ![n] = what] /\ active' = active \ {n}
      /\ UNCHANGED <<role, req, conn, file, sum, writing, breaks, disturbs>>
  BY DEF Report, Reporting
<1>2. Typed /\ Handling(n) /\ n \in Place
  BY HandlerFacts
<1>3. Stores /\ n \notin writing /\ (handler[n].at # "broken" => conn[n].up = <<>>)
  BY <1>1, <1>2, HandlerFacts DEF Handling
<1>4. OnlyConn(n)
  BY <1>1, <1>2 DEF OnlyConn, Typed
<1>5. OnlyHandler(n) /\ handler'[n].at = next
  BY <1>2, AnewOK DEF Report, Back
<1>6. /\ \A m \in Node \ {n} : reported'[m] = reported[m]
      /\ reported'[n] = what
      /\ reported' \in [Node -> {"none", "success", "failure"}]
  BY <1>1, <1>2 DEF Typed
<1>7. (Succeeded(n)' <=> Succeeded(n)) /\ (Failed(n)' <=> Failed(n))
  BY <1>1, <1>2, <1>5, <1>6 DEF Succeeded, Failed, Handling
<1>8. Local(n)
  BY <1>1, <1>4, <1>5, <1>6 DEF Local
<1>9. Typed'
  BY <1>1, <1>2, <1>3, <1>5, <1>6 DEF Typed, OnlyHandler
<1>10. Handling(n)'
  BY <1>1, <1>2, <1>3, <1>5, <1>6 DEF Handling, Stores
<1>11. Filing(n)
  BY <1>1, <1>3, <1>5, <1>7, HandlerFacts DEF Filing, ExchangeInv, Filed
<1>12. Saying(n)
  <2>1. Dialogue(n) => Dialogue(n)'
    BY <1>1, <1>3, <1>5, <1>7, One DEF Dialogue, Answered, Astray, Carried, Is, Stores
  <2> QED BY <1>1, <1>5, <1>7, <2>1, HandlerFacts DEF Saying
<1>13. Singly(n)
  BY <1>5, <1>7 DEF Singly, ExchangeInv, Single
<1> QED BY <1>8, <1>9, <1>10, <1>11, <1>12, <1>13, LocalStep

\* A handler that retrieves leaves its node's files alone: what is left to
\* show is what it says.
LEMMA RetrievingStep ==
  ASSUME ExchangeInv, NEW n \in Node, ~Stores,
         handler[n].at \in {"receive", "stat", "verify", "open", "serve"},
         OnlyConn(n), OnlyHandler(n), conn'[n].client = conn[n].client,
         handler'[n].at \in {"receive", "stat", "verify", "open", "serve"},
         Handling(n)', Saying(n),
         UNCHANGED <<role, req, files, writing, reported, breaks, disturbs>>
  PROVE  ExchangeInv'
<1>1. Typed /\ Handling(n) /\ n \in Place /\ n # Me
  BY HandlerFacts
<1>2. reported[n] = "none" /\ reported' = reported /\ ~Succeeded(n) /\ ~Succeeded(n)'
  BY <1>1 DEF Typed, Handling, Succeeded
<1>3. Local(n)
  BY DEF Local, files
<1>4. Typed'
  BY <1>1 DEF Typed, OnlyConn, OnlyHandler, files
<1>5. Filing(n)
  BY <1>1, <1>2, HandlerFacts DEF Filing, ExchangeInv, Filed, Marked, files
<1>6. Singly(n)
  BY <1>2 DEF Singly, Failed
<1> QED BY <1>3, <1>4, <1>5, <1>6, LocalStep

\* handleRetrieveChunk refuses.
LEMMA RetrieveRefusedStep ==
  ASSUME ExchangeInv, NEW n \in Node, RetrieveRefused(n)
  PROVE  ExchangeInv'
<1>1. /\ Receives(n, "retrieve")
      /\ UNCHANGED <<role, req, files, writing, reported, breaks, disturbs>>
  BY DEF RetrieveRefused
<1>2. /\ handler[n].at = "receive" /\ conn[n].up # <<>> /\ Tail(conn[n].up) = <<>>
      /\ ~Stores /\ reported[n] = "none"
  BY <1>1, BeginningOK
<1>3. Typed /\ Handling(n)
  BY HandlerFacts
<1>4. /\ OnlyConn(n) /\ conn'[n].up = <<>> /\ conn'[n].client = conn[n].client
      /\ conn'[n].server = conn[n].server /\ conn'[n].down = Append(conn[n].down, No)
  BY <1>2, <1>3, AnswerOK, Messages DEF RetrieveRefused
<1>5. OnlyHandler(n) /\ handler'[n].at = "receive"
  BY <1>3, AnewOK DEF RetrieveRefused, Back
<1>6. Handling(n)'
  BY <1>1, <1>2, <1>3, <1>4, <1>5 DEF Handling, Stores
<1>7. Saying(n)
  <2>1. conn[n].client => Is("ready") /\ conn[n].down = <<>>
    BY <1>1, BeginningOK
  <2>2. conn[n].client => Dialogue(n)'
    BY <1>1, <1>2, <1>4, <1>5, <2>1, One DEF Dialogue, Is, Stores
  <2> QED BY <1>1, <2>2, BeginningOK, HandlerFacts DEF Saying
<1> QED BY <1>1, <1>2, <1>4, <1>5, <1>6, <1>7, RetrievingStep

\* handleRetrieveChunk goes on to verify its chunk.
LEMMA RetrieveBeginStep ==
  ASSUME ExchangeInv, NEW n \in Node, RetrieveBegin(n)
  PROVE  ExchangeInv'
<1>1. /\ Receives(n, "retrieve") /\ conn' = [conn EXCEPT ![n].up = Tail(@)]
      /\ UNCHANGED <<role, req, files, writing, reported, breaks, disturbs>>
  BY DEF RetrieveBegin
<1>2. /\ handler[n].at = "receive" /\ conn[n].up # <<>> /\ Tail(conn[n].up) = <<>>
      /\ ~Stores /\ reported[n] = "none"
  BY <1>1, BeginningOK
<1>3. Typed /\ Handling(n)
  BY HandlerFacts
<1>4. /\ OnlyConn(n) /\ conn'[n].up = <<>> /\ conn'[n].down = conn[n].down
      /\ conn'[n].client = conn[n].client /\ conn'[n].server = conn[n].server
  BY <1>1, <1>2, <1>3, TakeOK
<1>5. OnlyHandler(n) /\ handler'[n].at = "stat" /\ handler'[n].sent = 0
  BY <1>3, AnewOK DEF RetrieveBegin
<1>6. Handling(n)'
  BY <1>1, <1>2, <1>3, <1>4, <1>5 DEF Handling, Stores
<1>7. Saying(n)
  <2>1. conn[n].client => Is("ready") /\ conn[n].down = <<>>
    BY <1>1, BeginningOK
  <2>2. conn[n].client => Dialogue(n)'
    BY <1>1, <1>4, <1>5, <2>1 DEF Dialogue, Is
  <2> QED BY <1>1, <2>2, BeginningOK, HandlerFacts DEF Saying
<1> QED BY <1>1, <1>2, <1>4, <1>5, <1>6, <1>7, RetrievingStep

\* A handler that verifies its chunk, has verified it, or serves it.
LEMMA ServingOK ==
  ASSUME ExchangeInv, NEW n \in Node, handler[n].at \in {"stat", "verify", "open", "serve"}
  PROVE  /\ ~Stores /\ conn[n].up = <<>> /\ reported[n] = "none"
         /\ handler[n].at # "stat" => handler[n].size \in 0..Size
         /\ handler[n].at \in {"open", "serve"} => handler[n].sum = Data
         /\ handler[n].at = "serve" => handler[n].sent \in 0..handler[n].size
         /\ handler[n].at # "serve" => handler[n].sent = 0
         /\ conn[n].client => /\ n = Peer /\ req.at \in {"ready", "copy"}
                              /\ handler[n].at # "serve" => Is("ready") /\ conn[n].down = <<>>
                              /\ Is("ready") /\ handler[n].at = "serve" =>
                                    /\ conn[n].down # <<>> /\ Head(conn[n].down) \in Readys
                                    /\ Carried(n, Tail(conn[n].down), 0)
                              /\ Is("copy") => Carried(n, conn[n].down, Len(req.got))
<1>1. Typed /\ Handling(n) /\ reported[n] \in {"none", "success", "failure"}
  BY HandlerFacts DEF Typed
<1>2. /\ ~Stores /\ conn[n].up = <<>> /\ reported[n] = "none"
      /\ handler[n].at # "stat" => handler[n].size \in 0..Size
      /\ handler[n].at \in {"open", "serve"} => handler[n].sum = Data
      /\ handler[n].at = "serve" => handler[n].sent \in 0..handler[n].size
      /\ handler[n].at # "serve" => handler[n].sent = 0
  BY <1>1 DEF Handling
<1>4. ASSUME conn[n].client
      PROVE  /\ n = Peer /\ req.at \in {"ready", "copy"}
             /\ handler[n].at # "serve" => Is("ready") /\ conn[n].down = <<>>
             /\ Is("ready") /\ handler[n].at = "serve" =>
                   /\ conn[n].down # <<>> /\ Head(conn[n].down) \in Readys
                   /\ Carried(n, Tail(conn[n].down), 0)
             /\ Is("copy") => Carried(n, conn[n].down, Len(req.got))
  <2>1. Live /\ n = Peer /\ Dialogue(n)
    BY <1>4, HandlerFacts
  <2>2. ~Answered(n) /\ ~Astray(n)
    BY <1>2 DEF Answered, Astray, Succeeded, Failed
  <2>3. ~Is("send") /\ ~Is("final")
    BY <2>1, <2>2 DEF Dialogue
  <2>4. req.at \in {"ready", "copy"}
    BY <2>1, <2>3 DEF Live, Is
  <2>5. Is("copy") => Carried(n, conn[n].down, Len(req.got)) /\ handler[n].at = "serve"
    BY <2>1 DEF Dialogue, Carried
  <2>6. Is("ready") => \/ handler[n].at # "serve" /\ conn[n].down = <<>>
                       \/ /\ conn[n].down # <<>> /\ Head(conn[n].down) \in Readys
                          /\ Carried(n, Tail(conn[n].down), 0) /\ handler[n].at = "serve"
    BY <1>2, <2>1 DEF Dialogue, Carried
  <2> QED BY <2>1, <2>4, <2>5, <2>6 DEF Is
<1> QED BY <1>2, <1>4

\* A step of a handler that verifies, and says nothing.
LEMMA VerifyingStep ==
  ASSUME ExchangeInv, NEW n \in Node, handler[n].at \in {"stat", "verify"},
         OnlyHandler(n), handler'[n].at \in {"verify", "open"}, Handling(n)',
         UNCHANGED <<role, req, conn, files, writing, reported, breaks, disturbs>>
  PROVE  ExchangeInv'
<1>1. ~Stores /\ reported[n] = "none"
  BY ServingOK
<1>2. Typed
  BY HandlerFacts
<1>3. OnlyConn(n)
  BY <1>2 DEF OnlyConn, Typed
<1>4. Saying(n)
  <2>1. ASSUME conn[n].client PROVE Dialogue(n)'
    <3>1. Is("ready") /\ conn[n].down = <<>>
      BY <2>1, ServingOK
    <3> QED BY <3>1 DEF Dialogue, Is
  <2> QED BY <1>1, <2>1, HandlerFacts DEF Saying, Succeeded
<1> QED BY <1>1, <1>3, <1>4, RetrievingStep

\* It has the size.
LEMMA StatStep ==
  ASSUME ExchangeInv, NEW n \in Node, Stat(n)
  PROVE  ExchangeInv'
<1> DEFINE k == Len(file[n])
<1>1. /\ handler[n].at = "stat" /\ file[n] # NoFile
      /\ handler' = [handler EXCEPT ![n].at = "verify", ![n].size = k]
      /\ UNCHANGED <<role, req, conn, files, writing, reported, breaks, disturbs>>
  BY DEF Stat
<1>2. ~Stores /\ conn[n].up = <<>> /\ reported[n] = "none" /\ handler[n].sent = 0
  BY <1>1, ServingOK
<1>3. Typed /\ Handling(n)
  BY HandlerFacts
<1>4. k \in 0..Size /\ k \in Nat
  BY <1>1, HandlerFacts, LenProperties, DataOK DEF Piece
<1> HIDE DEF k
<1>5. /\ OnlyHandler(n) /\ handler'[n].at = "verify" /\ handler'[n].size = k
      /\ handler'[n].sent = 0
  BY <1>1, <1>2, <1>3, <1>4 DEF OnlyHandler, Typed, Handler
<1>6. Handling(n)'
  BY <1>1, <1>2, <1>3, <1>4, <1>5 DEF Handling, Stores, Size
<1> QED BY <1>1, <1>5, <1>6, VerifyingStep

\* It has found that the chunk matches.
LEMMA VerifyStep ==
  ASSUME ExchangeInv, NEW n \in Node, Verify(n)
  PROVE  ExchangeInv'
<1>1. /\ handler[n].at = "verify" /\ file[n] = sum[n] /\ sum[n] # NoFile
      /\ UNCHANGED <<role, req, conn, files, writing, reported, breaks, disturbs>>
  BY DEF Verify
<1>2. /\ ~Stores /\ conn[n].up = <<>> /\ reported[n] = "none" /\ handler[n].sent = 0
      /\ handler[n].size \in 0..Size
  BY <1>1, ServingOK
<1>3. Typed /\ Handling(n)
  BY HandlerFacts
<1>4. handler' = [handler EXCEPT ![n].at = "open", ![n].sum = Data]
  BY <1>1, <1>3 DEF Verify, Typed
<1>5. /\ OnlyHandler(n) /\ handler'[n].at = "open" /\ handler'[n].size = handler[n].size
      /\ handler'[n].sum = Data /\ handler'[n].sent = 0
  BY <1>1, <1>2, <1>3, <1>4, DataOK DEF OnlyHandler, Typed, Handler
<1>6. Handling(n)'
  BY <1>1, <1>2, <1>3, <1>5 DEF Handling, Stores, Size
<1> QED BY <1>1, <1>5, <1>6, VerifyingStep

\* A handler that cannot serve its chunk says so.
LEMMA ServeNoStep ==
  ASSUME ExchangeInv, NEW n \in Node, handler[n].at \in {"stat", "verify", "open"},
         Reply(n, No), Back(n),
         UNCHANGED <<role, req, files, writing, reported, breaks, disturbs>>
  PROVE  ExchangeInv'
<1>2. ~Stores /\ conn[n].up = <<>> /\ reported[n] = "none"
  BY ServingOK
<1>3. Typed /\ Handling(n) /\ conn[n] \in Connection
  BY HandlerFacts
<1>4. /\ OnlyConn(n) /\ conn'[n].up = <<>> /\ conn'[n].client = conn[n].client
      /\ conn'[n].server = conn[n].server
      /\ conn[n].client => conn'[n].down = Append(conn[n].down, No)
      /\ ~conn[n].client => conn'[n].down = conn[n].down
  BY <1>2, <1>3, ReplyOK, Messages
<1>5. OnlyHandler(n) /\ handler'[n].at = "receive"
  BY <1>3, AnewOK DEF Back
<1>6. Handling(n)'
  BY <1>2, <1>3, <1>4, <1>5 DEF Handling, Stores
<1>7. Saying(n)
  <2>1. conn[n].client => Is("ready") /\ conn[n].down = <<>>
    BY ServingOK
  <2>2. conn[n].client => Dialogue(n)'
    BY <1>2, <1>4, <1>5, <2>1, One DEF Dialogue, Is, Stores
  <2>3. ~conn[n].client /\ conn[n] = Closed => conn'[n] = Closed
    BY <1>2, <1>3, <1>4, ClosedIs DEF OnlyConn
  <2>4. Is("ok") => ~Live
    BY DEF Is, Live
  <2> QED BY <1>2, <1>4, <1>5, <2>2, <2>3, <2>4, HandlerFacts DEF Saying, Succeeded
<1> QED BY <1>2, <1>4, <1>5, <1>6, <1>7, RetrievingStep

\* The handler answers with the size and the checksum.
LEMMA OpenStep ==
  ASSUME ExchangeInv, NEW n \in Node, Open(n)
  PROVE  ExchangeInv'
<1>1. /\ handler[n].at = "open" /\ handler' = [handler EXCEPT ![n].at = "serve"]
      /\ UNCHANGED <<role, req, files, writing, reported, breaks, disturbs>>
  BY DEF Open
<1> DEFINE Ready == RetrieveResp(handler[n].size, Data)
<1>2. /\ ~Stores /\ conn[n].up = <<>> /\ reported[n] = "none"
      /\ handler[n].size \in 0..Size /\ handler[n].sum = Data /\ handler[n].sent = 0
      /\ Ready \in Readys
  BY <1>1, ServingOK DEF Readys
<1>3. Typed /\ Handling(n) /\ conn[n] \in Connection
  BY HandlerFacts
<1>4. /\ OnlyConn(n) /\ conn'[n].up = <<>> /\ conn'[n].client = conn[n].client
      /\ conn'[n].server = conn[n].server
      /\ conn[n].client => conn'[n].down = Append(conn[n].down, Ready)
      /\ ~conn[n].client => conn'[n].down = conn[n].down
  <2>1. Reply(n, Ready)
    BY <1>2 DEF Open
  <2> HIDE DEF Ready
  <2> QED BY <2>1, <1>2, <1>3, ReplyOK, Messages
<1> HIDE DEF Ready
<1>5. /\ OnlyHandler(n) /\ handler'[n].at = "serve"
      /\ handler'[n].size = handler[n].size /\ handler'[n].sum = Data /\ handler'[n].sent = 0
  BY <1>1, <1>2, <1>3 DEF OnlyHandler, Typed, Handler
<1>6. Handling(n)'
  <2>1. 0 \in 0..handler[n].size
    BY <1>2, DataOK
  <2> QED BY <2>1, <1>1, <1>2, <1>3, <1>4, <1>5 DEF Handling, Stores, Size
<1>7. Saying(n)
  <2>1. conn[n].client => Is("ready") /\ conn[n].down = <<>>
    BY <1>1, ServingOK
  <2>2. ASSUME conn[n].client PROVE Dialogue(n)'
    <3>1. conn'[n].down = <<Ready>> /\ conn'[n].down # <<>> /\ Head(conn'[n].down) \in Readys
          /\ Tail(conn'[n].down) = <<>>
      BY <2>1, <2>2, <1>2, <1>4, One
    <3>2. Carried(n, <<>>, 0)'
      <4>1. Flow(<<>>, 0) /\ 0 + Len(<<>>) = 0
        BY Flows, DataOK, EmptySeq
      <4> QED BY <4>1, <1>4, <1>5 DEF Carried, Flow, Size
    <3> QED BY <2>1, <2>2, <3>1, <3>2, <1>1, <1>2 DEF Dialogue, Is, Stores, Readys, Size
  <2>3. ~conn[n].client /\ conn[n] = Closed => conn'[n] = Closed
    BY <1>2, <1>3, <1>4, ClosedIs DEF OnlyConn
  <2>4. Is("ok") => ~Live
    BY DEF Is, Live
  <2> QED BY <1>1, <1>2, <1>4, <1>5, <2>2, <2>3, <2>4, HandlerFacts DEF Saying, Succeeded
<1> QED BY <1>1, <1>2, <1>4, <1>5, <1>6, <1>7, RetrievingStep

\* The handler is through with the chunk.
LEMMA ServedStep ==
  ASSUME ExchangeInv, NEW n \in Node, handler[n].at = "serve", Back(n),
         UNCHANGED <<role, req, conn, files, writing, reported, breaks, disturbs>>
  PROVE  ExchangeInv'
<1>1. ~Stores /\ conn[n].up = <<>> /\ reported[n] = "none"
  BY ServingOK
<1>2. Typed /\ Handling(n) /\ conn[n] \in Connection
  BY HandlerFacts
<1>3. OnlyConn(n)
  BY <1>2 DEF OnlyConn, Typed
<1>4. OnlyHandler(n) /\ handler'[n].at = "receive"
  BY <1>2, AnewOK DEF Back
<1>5. Handling(n)'
  BY <1>1, <1>2, <1>4 DEF Handling, Stores
<1>6. Saying(n)
  <2>1. ASSUME conn[n].client PROVE Dialogue(n)'
    <3>1. /\ req.at \in {"ready", "copy"}
          /\ Is("ready") => /\ conn[n].down # <<>> /\ Head(conn[n].down) \in Readys
                            /\ Carried(n, Tail(conn[n].down), 0)
          /\ Is("copy") => Carried(n, conn[n].down, Len(req.got))
      BY <2>1, ServingOK
    <3>2. \A s, k : Carried(n, s, k) => Carried(n, s, k)'
      BY <1>4 DEF Carried, Flow
    <3> QED BY <1>1, <3>1, <3>2 DEF Dialogue, Is, Stores, Readys, Size
  <2> QED BY <1>1, <1>4, <2>1, HandlerFacts DEF Saying, Succeeded
<1> QED BY <1>1, <1>3, <1>4, <1>5, <1>6, RetrievingStep

\* The handler serves a byte of the file as it is now.
LEMMA ServeOneStep ==
  ASSUME ExchangeInv, NEW n \in Node,
         handler[n].at = "serve", handler[n].sent < handler[n].size,
         file[n] # NoFile, handler[n].sent < Len(file[n]),
         Reply(n, Byte(file[n][handler[n].sent + 1])),
         handler' = [handler EXCEPT ![n].sent = @ + 1],
         UNCHANGED <<role, req, files, writing, reported, breaks, disturbs>>
  PROVE  ExchangeInv'
<1> DEFINE b == file[n][handler[n].sent + 1]
<1>1. /\ ~Stores /\ conn[n].up = <<>> /\ reported[n] = "none"
      /\ handler[n].size \in 0..Size /\ handler[n].sum = Data
      /\ handler[n].sent \in 0..handler[n].size
  BY ServingOK
<1>2. Typed /\ Handling(n) /\ conn[n] \in Connection
  BY HandlerFacts
<1>3. /\ handler[n].sent \in Nat /\ handler[n].sent < Size
      /\ handler[n].sent + 1 \in 1..Size /\ handler[n].sent + 1 \in 0..handler[n].size
  BY <1>1, DataOK
<1>4. b \in At(handler[n].sent + 1) /\ b \in Nat
  <2>1. Piece(file[n])
    BY HandlerFacts
  <2>2. handler[n].sent + 1 \in 1..Len(file[n])
    BY <1>3, <2>1, LenProperties DEF Piece
  <2> QED BY <2>1, <2>2, PieceReads
<1> HIDE DEF b
<1>5. Byte(b) \in Message
  BY <1>4, Bytes
<1>6. /\ OnlyConn(n) /\ conn'[n].up = <<>> /\ conn'[n].client = conn[n].client
      /\ conn'[n].server = conn[n].server
      /\ conn[n].client => conn'[n].down = Append(conn[n].down, Byte(b))
      /\ ~conn[n].client => conn'[n].down = conn[n].down
  <2>1. Reply(n, Byte(b))
    BY DEF b
  <2> QED BY <2>1, <1>1, <1>2, <1>5, ReplyOK
<1>7. /\ OnlyHandler(n) /\ handler'[n].at = "serve"
      /\ handler'[n].size = handler[n].size /\ handler'[n].sum = Data
      /\ handler'[n].sent = handler[n].sent + 1
  <2> DEFINE next == handler[n].sent + 1
  <2>1. next \in Nat
    BY <1>3
  <2>2. handler' = [handler EXCEPT ![n].sent = next]
    OBVIOUS
  <2> HIDE DEF next
  <2>3. /\ OnlyHandler(n) /\ handler'[n].at = "serve"
        /\ handler'[n].size = handler[n].size /\ handler'[n].sum = Data
        /\ handler'[n].sent = next
    <3>1. handler \in [Node -> Handler] /\ handler[n] \in Handler
      BY <1>2 DEF Typed
    <3>2. [handler[n] EXCEPT !.sent = next] \in Handler
      BY <2>1, <3>1 DEF Handler
    <3>3. handler' = [handler EXCEPT ![n] = [handler[n] EXCEPT !.sent = next]]
      BY <2>2
    <3>4. handler'[n] = [handler[n] EXCEPT !.sent = next] /\ OnlyHandler(n)
      BY <3>1, <3>2, <3>3 DEF OnlyHandler
    <3> QED BY <3>1, <3>4, <1>1 DEF Handler
  <2> QED BY <2>3 DEF next
<1>8. Handling(n)'
  <2>1. handler'[n].sent \in 0..handler'[n].size
    BY <1>3, <1>7
  <2> QED BY <2>1, <1>1, <1>2, <1>6, <1>7 DEF Handling, Stores, Size
<1>9. ASSUME NEW s \in Seq(Message), NEW k \in Nat, Carried(n, s, k),
             NEW t, t = Append(s, Byte(b))
      PROVE  Carried(n, t, k)'
  <2>1. Flow(s, k) /\ k + Len(s) = handler[n].sent /\ Len(s) \in Nat
    BY <1>9, LenProperties DEF Carried
  <2>2. Flow(t, k) /\ Len(t) = Len(s) + 1
    BY <2>1, <1>3, <1>4, <1>9, FlowGrows
  <2>3. k + Len(t) = handler[n].sent + 1
    BY <2>1, <2>2
  <2> QED BY <2>2, <2>3, <1>6, <1>7 DEF Carried, Flow
<1>10. Saying(n)
  <2>1. ASSUME conn[n].client PROVE Dialogue(n)'
    <3>1. /\ req.at \in {"ready", "copy"}
          /\ Is("ready") => /\ conn[n].down # <<>> /\ Head(conn[n].down) \in Readys
                            /\ Carried(n, Tail(conn[n].down), 0)
          /\ Is("copy") => Carried(n, conn[n].down, Len(req.got))
      BY <2>1, ServingOK
    <3>2. conn'[n].down = Append(conn[n].down, Byte(b)) /\ conn[n].down \in Seq(Message)
      BY <2>1, <1>2, <1>6 DEF Connection
    <3>3. CASE Is("ready")
      <4>1. /\ Head(conn'[n].down) \in Readys /\ conn'[n].down # <<>>
            /\ Tail(conn'[n].down) = Append(Tail(conn[n].down), Byte(b))
            /\ Tail(conn[n].down) \in Seq(Message)
        <5>1. conn[n].down # <<>> /\ Head(conn[n].down) \in Readys
          BY <3>1, <3>3
        <5>2. /\ Head(Append(conn[n].down, Byte(b))) = Head(conn[n].down)
              /\ Tail(Append(conn[n].down, Byte(b))) = Append(Tail(conn[n].down), Byte(b))
          BY <5>1, <3>2, <1>5, Follows
        <5>3. Append(conn[n].down, Byte(b)) # <<>>
          BY <3>2, <1>5, AppendProperties
        <5>4. Tail(conn[n].down) \in Seq(Message)
          BY <5>1, <3>2, Streams
        <5> QED BY <5>1, <5>2, <5>3, <5>4, <3>2
      <4>2. Carried(n, Tail(conn[n].down), 0)'
        BY <3>1, <3>3, <4>1, <1>9
      <4> QED BY <3>3, <4>1, <4>2, <1>1 DEF Dialogue, Is, Stores, Readys, Size
    <3>4. CASE Is("copy")
      <4>1. Len(req.got) \in Nat
        BY <1>2, LenProperties DEF Typed, Requester
      <4>2. Carried(n, conn[n].down, Len(req.got))'
        BY <3>1, <3>2, <3>4, <4>1, <1>9
      <4> QED BY <3>2, <3>4, <4>2 DEF Dialogue, Is
    <3> QED BY <3>1, <3>3, <3>4 DEF Is
  <2>2. ~conn[n].client /\ conn[n] = Closed => conn'[n] = Closed
    BY <1>1, <1>2, <1>6, ClosedIs DEF OnlyConn
  <2>3. Is("ok") => ~Live
    BY DEF Is, Live
  <2> QED BY <1>1, <1>6, <1>7, <2>1, <2>2, <2>3, HandlerFacts DEF Saying, Succeeded
<1> QED BY <1>1, <1>6, <1>7, <1>8, <1>10, RetrievingStep

\* A handler that is astray, or its whole node, ends.
LEMMA MisreadStep ==
  ASSUME ExchangeInv, NEW n \in Node, handler[n].at = "astray",
         conn' = [conn EXCEPT ![n] = Closed], handler' = [handler EXCEPT ![n] = Idle],
         UNCHANGED <<role, req, file, sum, active, writing, reported, breaks, disturbs>>
  PROVE  ExchangeInv'
<1>1. Typed /\ Turn /\ Filed /\ Marked /\ Single /\ Talking /\ Through
  BY DEF ExchangeInv
<1>2. /\ Stores /\ reported[n] = "failure" /\ Failed(n) /\ ~Succeeded(n)
  BY HandlerFacts DEF Handling, Failed
<1>3. Closed \in Connection /\ Closed.up = <<>> /\ ~Closed.client /\ ~Closed.server
  BY EmptySeq DEF Closed, Connection
<1>4. Idle \in Handler /\ Idle.at = "none"
  BY EmptySeq DEF Idle, Handler
<1>5. /\ conn' \in [Node -> Connection] /\ conn'[n] = Closed
      /\ handler' \in [Node -> Handler] /\ handler'[n] = Idle
      /\ \A m \in Node \ {n} : conn'[m] = conn[m] /\ handler'[m] = handler[m]
  BY <1>1, <1>3, <1>4 DEF Typed
<1>6. /\ Peer' = Peer /\ (Live' <=> Live) /\ (Stores' <=> Stores) /\ Opening' = Opening
      /\ \A p : Source(p)' <=> Source(p)
      /\ \A m \in Node : (Succeeded(m)' <=> Succeeded(m)) /\ (Failed(m) => Failed(m)')
  <2>1. \A m \in Node \ {n} : /\ handler'[m] = handler[m] /\ reported'[m] = reported[m]
    BY <1>5
  <2> QED BY <2>1, <1>2, <1>4, <1>5 DEF Peer, Live, Stores, Opening, Source, Succeeded, Failed
<1>7. Typed'
  BY <1>1, <1>5 DEF Typed
<1>8. Turn'
  <2>1. \A m \in Node : /\ conn[m] = Closed => conn'[m] = Closed
                        /\ handler[m].at = "none" => handler'[m].at = "none"
                        /\ conn'[m].client => conn[m].client
    BY <1>3, <1>4, <1>5
  <2>2. \A i \in DOMAIN req.left : req.left[i] \in Node
    BY <1>1, LenProperties, ElementOfSeq DEF Typed, Requester
  <2> QED BY <2>1, <2>2, <1>1, <1>6 DEF Turn, Is
<1>9. ASSUME NEW m \in Node PROVE Handling(m)'
  <2>1. CASE m # n
    <3>1. Handling(m)
      BY DEF ExchangeInv
    <3> QED BY <2>1, <3>1, <1>5, <1>6, HandlingStays
  <2>2. CASE m = n
    BY <2>2, <1>2, <1>3, <1>4, <1>5, <1>6 DEF Handling
  <2> QED BY <2>1, <2>2
<1>10. Talking'
  <2>1. CASE Peer = n
    BY <2>1, <1>1, <1>3, <1>5, <1>6 DEF Talking
  <2>2. CASE Peer # n
    BY <2>2, <1>1, <1>5, <1>6
       DEF Talking, Dialogue, Answered, Astray, Carried, Succeeded, Failed, Flow, Is
  <2> QED BY <2>1, <2>2
<1>11. Through'
  <2>1. SUFFICES ASSUME Is("ok") PROVE Through'
    BY <1>6 DEF Through, Is
  <2>2. /\ conn[Peer].up = <<>> /\ conn[Peer].down = <<>> /\ handler[Peer].at # "store"
        /\ Succeeded(Peer)
    BY <2>1, <1>1, <1>2 DEF Through
  <2>3. Peer \in Node \ {n}
    <3>1. req.left # <<>>
      BY <2>1, <1>1 DEF Turn, Is
    <3> QED BY <3>1, <2>2, <1>1, <1>2, PeerFacts
  <2> QED BY <2>2, <2>3, <1>2, <1>5, <1>6 DEF Through
<1>12. Filed' /\ Marked'
  <2>1. \A m \in Node : (handler'[m].at = "store" <=> handler[m].at = "store")
                        /\ (handler'[m].at = "store" => handler'[m] = handler[m])
    BY <1>4, <1>5
  <2>2. Filed'
    BY <2>1, <1>1, <1>6 DEF Filed, Piece, Is
  <2>3. Marked'
    BY <1>1, <1>5, <1>6 DEF Marked
  <2> QED BY <2>2, <2>3
<1>13. Single'
  <2>1. SUFFICES ASSUME breaks = 0 PROVE Single'
    BY DEF Single
  <2>2. Live => conn'[Peer].client \/ Failed(Peer)'
    BY <2>1, <1>1, <1>2, <1>5, <1>6 DEF Single, Talking
  <2>3. ASSUME NEW m \in Node, handler'[m].at = "store", ~conn'[m].client
        PROVE  Len(handler'[m].got) + Len(conn'[m].up) < Size
    BY <2>1, <2>3, <1>1, <1>4, <1>5 DEF Single
  <2> QED BY <2>1, <2>2, <2>3, <1>1, <1>6 DEF Single
<1> QED BY <1>7, <1>8, <1>9, <1>10, <1>11, <1>12, <1>13 DEF ExchangeInv

\* Every step of a node's handler preserves the invariant.
LEMMA HandleStep ==
  ASSUME ExchangeInv, NEW n \in Node, Handle(n)
  PROVE  ExchangeInv'
<1>1. CASE ServeByte(n)
  <2>1. CASE handler[n].sent < Len(file[n]) /\ file[n] # NoFile /\
             Reply(n, Byte(file[n][handler[n].sent + 1])) /\
             handler' = [handler EXCEPT ![n].sent = @ + 1]
    BY <1>1, <2>1, ServeOneStep DEF ServeByte
  <2>2. CASE Back(n) /\ UNCHANGED conn
    BY <1>1, <2>2, ServedStep DEF ServeByte
  <2> QED BY <1>1, <2>1, <2>2 DEF ServeByte
<1>2. CASE Served(n)
  BY <1>2, ServedStep DEF Served
<1>3. CASE VerifyFails(n) \/ OpenFails(n)
  BY <1>3, ServeNoStep DEF VerifyFails, OpenFails
<1>4. CASE Misread(n)
  BY <1>4, SwallowStep, MisreadStep DEF Misread, files
<1> QED BY <1>1, <1>2, <1>3, <1>4, HandlerEndsStep, StoreRefusedStep, StoreBeginStep,
       StoreByteStep, StoreShortStep, StoreBrokenStep, StoreBadStep, StoreGoodStep,
       ReportStep, RetrieveRefusedStep, RetrieveBeginStep, StatStep, VerifyStep, OpenStep
    DEF Handle
-----------------------------------------------------------------------------
(* The steps of the requester.                                             *)

\* What the requester goes on with at the next node.
LEMMA NextNodeOK ==
  ASSUME Typed, req.left # <<>>, NextNode
  PROVE  /\ req' \in Requester /\ req'.at = "next" /\ req'.left = Tail(req.left)
         /\ req'.got = <<>> /\ req'.sent = 0
<1>1. Tail(req.left) \in Seq(Node) /\ req \in Requester /\ <<>> \in Seq(Nat)
  BY PeerFacts, EmptySeq DEF Typed
<1> QED BY <1>1 DEF NextNode, Requester

\* No handler has stored the chunk, or still can, for nothing that broke.
NoneStored ==
    /\ \A n \in Node : ~Succeeded(n)
    /\ Live /\ handler[Peer].at = "store" =>
          Len(handler[Peer].got) + Len(conn[Peer].up) < Size

\* The requester leaves a node for the next.
LEMMA LeaveStep ==
  ASSUME ExchangeInv, req.left # <<>>, NextNode, file' = Discarded,
         (Live /\ Hangup(Peer)) \/ (Is("next") /\ conn' = conn),
         UNCHANGED <<role, handler, sum, writing, reported, disturbs>>,
         active' = active \/ (role = "repair" /\ active' = active \cup {Me}),
         breaks' \in 0..MaxBreaks, breaks' = 0 => breaks = 0 /\ NoneStored
  PROVE  ExchangeInv'
<1>1. Typed /\ Turn /\ Filed /\ Marked /\ Single
  BY DEF ExchangeInv
<1>2. /\ req.left \in Seq(Node) /\ Peer = req.left[1] /\ 1 \in DOMAIN req.left
      /\ Peer \in Node /\ Tail(req.left) \in Seq(Node)
      /\ \A i \in DOMAIN Tail(req.left) :
            i + 1 \in DOMAIN req.left /\ i + 1 > 1 /\ Tail(req.left)[i] = req.left[i + 1]
  BY <1>1, PeerFacts
<1>3. /\ req' \in Requester /\ req'.at = "next" /\ req'.left = Tail(req.left)
      /\ req'.got = <<>> /\ req'.sent = 0
  BY <1>1, NextNodeOK
<1>4. /\ ~Live' /\ Is("next")' /\ ~Is("ok")' /\ ~Is("copy")' /\ ~Is("send")' /\ ~Is("final")'
      /\ (Stores' <=> Stores) /\ Opening' = Opening /\ \A p : Source(p)' <=> Source(p)
  BY <1>3 DEF Live, Is, Stores, Opening, Source
<1>5. /\ conn' \in [Node -> Connection]
      /\ \A n \in Node : /\ conn'[n].up = conn[n].up /\ conn'[n].server = conn[n].server
                         /\ ~conn'[n].client
                         /\ n # Peer => conn'[n] = conn[n]
  <2>1. CASE Live /\ Hangup(Peer)
    <3>1. /\ OnlyConn(Peer) /\ conn'[Peer].up = conn[Peer].up
          /\ conn'[Peer].client = FALSE /\ conn'[Peer].server = conn[Peer].server
      BY <2>1, <1>1, <1>2, HangupOK
    <3>2. \A n \in Node \ {Peer} : conn'[n] = conn[n] /\ ~conn[n].client
      BY <3>1, <1>1 DEF OnlyConn, Turn
    <3> QED BY <3>1, <3>2 DEF OnlyConn
  <2>2. CASE Is("next") /\ conn' = conn
    BY <2>2, <1>1 DEF Turn, Live, Is, Typed
  <2> QED BY <2>1, <2>2
<1>6. /\ file' \in [Place -> {NoFile} \cup Seq(Nat)]
      /\ \A p \in Place : file'[p] = IF p = Me /\ Is("copy") THEN NoFile ELSE file[p]
  BY <1>1 DEF Discarded, Typed, Place
<1>7. Typed'
  <2>1. active' \subseteq Place /\ writing' \subseteq active'
    BY <1>1 DEF Typed, Place
  <2> QED BY <2>1, <1>1, <1>3, <1>5, <1>6 DEF Typed
<1>8. Turn'
  <2>1. ASSUME NEW i \in DOMAIN req'.left
        PROVE  /\ i + 1 \in DOMAIN req.left /\ i + 1 > 1 /\ req'.left[i] = req.left[i + 1]
               /\ conn'[req'.left[i]] = Closed /\ handler[req'.left[i]].at = "none"
               /\ reported[req'.left[i]] = "none"
    <3>1. i + 1 \in DOMAIN req.left /\ i + 1 > 1 /\ req'.left[i] = req.left[i + 1]
      BY <1>2, <1>3
    <3>2. req.left[i + 1] \in Node /\ req.left[i + 1] # Peer
      <4>1. i + 1 # 1 /\ i + 1 \in 1..Len(req.left)
        BY <3>1, <1>2, LenProperties
      <4> QED BY <4>1, <3>1, <1>1, <1>2, ElementOfSeq DEF Turn
    <3> QED BY <3>1, <3>2, <1>1, <1>5 DEF Turn
  <2>2. ASSUME NEW i \in DOMAIN req'.left, NEW j \in DOMAIN req'.left,
               req'.left[i] = req'.left[j]
        PROVE  i = j
    <3>1. i + 1 = j + 1
      BY <2>1, <2>2, <1>1 DEF Turn
    <3>2. i \in Nat /\ j \in Nat
      BY <1>2, <1>3, LenProperties
    <3> QED BY <3>1, <3>2
  <2> QED BY <2>1, <2>2, <1>3, <1>4, <1>5 DEF Turn, Is
<1>9. ASSUME NEW n \in Node PROVE Handling(n)'
  <2>1. Handling(n)
    BY DEF ExchangeInv
  <2> QED BY <2>1, <1>4, <1>5, HandlingStays
<1>10. Talking' /\ Through'
  BY <1>4 DEF Talking, Through
<1>11. Filed'
  <2>1. \A n \in Node : n \in Place /\ n # Me
    BY ExchangeAssumption DEF Place
  <2>2. \A p \in Place : file'[p] = NoFile \/ Piece(file'[p])
    BY <1>1, <1>6 DEF Filed
  <2>3. \A p \in Place : \/ p \in writing \/ file'[p] \in {NoFile, Data, Rotten}
                         \/ p \in Node /\ handler[p].at = "store"
    BY <1>1, <1>6 DEF Filed
  <2>4. \A n \in Node : file'[n] = file[n]
    BY <2>1, <1>6
  <2> QED BY <2>2, <2>3, <2>4, <1>1, <1>4 DEF Filed, Succeeded, Piece
<1>12. Marked'
  <2>1. \A n \in active' \cap Node : n \in active
    BY ExchangeAssumption
  <2>2. Me \in active' => Me \in writing \/ (role = "repair" /\ req'.at \notin {"ok", "failed"})
    BY <1>1, <1>3 DEF Marked
  <2> QED BY <2>1, <2>2, <1>1, <1>4 DEF Marked
<1>13. Single'
  <2>1. SUFFICES ASSUME breaks' = 0 PROVE Single'
    BY DEF Single
  <2>2. breaks = 0 /\ NoneStored
    BY <2>1
  <2>3. \A n \in Node : ~Succeeded(n)'
    BY <2>2 DEF NoneStored, Succeeded
  <2>4. ASSUME NEW n \in Node, handler[n].at = "store"
        PROVE  Len(handler[n].got) + Len(conn[n].up) < Size
    BY <2>2, <2>4, <1>1 DEF NoneStored, Single, Turn
  <2>5. \A n \in Node : handler'[n].at = "store" =>
            Len(handler'[n].got) + Len(conn'[n].up) < Size
    BY <2>4, <1>5
  <2> QED BY <2>3, <2>5, <1>4 DEF Single
<1> QED BY <1>7, <1>8, <1>9, <1>10, <1>11, <1>12, <1>13 DEF ExchangeInv

\* A requester that retrieves has no node store the chunk.
LEMMA NothingStored ==
  ASSUME ExchangeInv, ~Stores
  PROVE  NoneStored
<1>1. ASSUME NEW n \in Node PROVE ~Succeeded(n) /\ handler[n].at # "store"
  BY HandlerFacts DEF Handling, Succeeded
<1>2. Live => Peer \in Node
  BY DEF ExchangeInv, Talking
<1> QED BY <1>1, <1>2 DEF NoneStored

\* While connected there is a node it is connected to.
LEMMA LiveFacts ==
  ASSUME ExchangeInv, Live
  PROVE  /\ req.left # <<>> /\ Peer \in Node /\ Peer # Me
         /\ conn[Peer] \in Connection /\ handler[Peer] \in Handler
         /\ Handling(Peer)
         /\ conn[Peer].client => Dialogue(Peer) /\ conn[Peer].server
         /\ ~conn[Peer].client => conn[Peer] = Closed
         /\ breaks = 0 => conn[Peer].client \/ Failed(Peer)
<1>1. req.left # <<>> /\ Peer \in Node
  BY DEF ExchangeInv, Turn, Live, Talking
<1> QED BY <1>1, HandlerFacts DEF ExchangeInv, Single, Handling

\* Nor has a node that has failed.
LEMMA FailedStored ==
  ASSUME ExchangeInv, Live, breaks = 0, Failed(Peer)
  PROVE  NoneStored
<1>1. ~Succeeded(Peer) /\ handler[Peer].at # "store"
  <2>1. Peer \in Node /\ Handling(Peer)
    BY LiveFacts
  <2> QED BY <2>1, HandlerFacts DEF Handling, Failed
<1>2. \A n \in Node : Succeeded(n) => n = Peer
  BY DEF ExchangeInv, Single
<1> QED BY <1>1, <1>2 DEF NoneStored

\* The node cannot be reached, or the requester's file is gone.
LEMMA DialFailsStep ==
  ASSUME ExchangeInv, DialFails
  PROVE  ExchangeInv'
<1>1. /\ Is("next") /\ req.left # <<>> /\ NextNode
      /\ \/ breaks < MaxBreaks /\ breaks' = breaks + 1
         \/ breaks' = breaks
      /\ UNCHANGED <<role, conn, handler, file, sum, active, writing, reported, disturbs>>
  BY DEF DialFails, files
<1>2. ~Live /\ Discarded = file
  BY <1>1 DEF Live, Is, Discarded
<1>3. breaks' \in 0..MaxBreaks /\ (breaks' = 0 => breaks = 0)
  BY <1>1, ExchangeAssumption DEF ExchangeInv, Typed
<1>4. breaks = 0 => NoneStored
  BY <1>1, <1>2 DEF ExchangeInv, Single, NoneStored, Is
<1> QED BY <1>1, <1>2, <1>3, <1>4, LeaveStep

\* The node has refused.
LEMMA RefusedStep ==
  ASSUME ExchangeInv, Refused
  PROVE  ExchangeInv'
<1>1. /\ req.at \in {"ready", "final"}
      /\ conn[Peer].down # <<>> /\ Head(conn[Peer].down) = No
      /\ NextNode /\ Hangup(Peer)
      /\ UNCHANGED <<role, handler, file, sum, active, writing, reported, breaks, disturbs>>
  BY DEF Refused, Is, files
<1>2. Live /\ Discarded = file
  BY <1>1 DEF Live, Is, Discarded
<1>3. conn[Peer].client /\ Dialogue(Peer)
  BY <1>1, <1>2, LiveFacts DEF Closed
<1>4. Stores => Failed(Peer)
  BY <1>1, <1>3, One, Messages DEF Dialogue, Answered, Astray, Is
<1>5. breaks = 0 => NoneStored
  BY <1>2, <1>4, NothingStored, FailedStored
<1>6. breaks' \in 0..MaxBreaks /\ breaks' = breaks
  BY <1>1 DEF ExchangeInv, Typed
<1> QED BY <1>1, <1>2, <1>5, <1>6, LiveFacts, LeaveStep

\* An error on the connection.
LEMMA LostStep ==
  ASSUME ExchangeInv, Lost
  PROVE  ExchangeInv'
<1>1. /\ Live /\ ~conn[Peer].server /\ file' = Discarded
      /\ NextNode /\ Hangup(Peer)
      /\ UNCHANGED <<role, handler, sum, active, writing, reported, breaks, disturbs>>
  BY DEF Lost, Live
<1>2. breaks = 0 => NoneStored
  BY <1>1, LiveFacts, FailedStored
<1>3. breaks' \in 0..MaxBreaks /\ breaks' = breaks
  BY <1>1 DEF ExchangeInv, Typed
<1> QED BY <1>1, <1>2, <1>3, LiveFacts, LeaveStep

\* getChunk's deadlines.
LEMMA DeadlineStep ==
  ASSUME ExchangeInv, Deadline
  PROVE  ExchangeInv'
<1>1. /\ Live /\ ~Stores /\ file' = Discarded
      /\ NextNode /\ Hangup(Peer)
      /\ UNCHANGED <<role, handler, sum, active, writing, reported, breaks, disturbs>>
  BY DEF Deadline, Live, Is, Stores
<1>2. breaks' \in 0..MaxBreaks /\ breaks' = breaks
  BY <1>1 DEF ExchangeInv, Typed
<1> QED BY <1>1, <1>2, NothingStored, LiveFacts, LeaveStep

\* Where replicate is in its copy.
LEMMA SendingOK ==
  ASSUME ExchangeInv, Is("send"), req.sent < Size
  PROVE  /\ role = "replicate" /\ Stores /\ Live /\ req.sent \in Nat
         /\ conn[Peer].client =>
               \/ /\ handler[Peer].at = "store" /\ conn[Peer].down = <<>>
                  /\ Len(handler[Peer].got) + Len(conn[Peer].up) = req.sent
               \/ Astray(Peer) /\ Failed(Peer)
<1>1. role = "replicate" /\ Stores /\ Live
  BY DEF ExchangeInv, Turn, Stores, Live, Is
<1>2. req.sent \in Nat /\ req.sent # Size
  BY DataOK DEF ExchangeInv, Typed, Requester
<1>3. Astray(Peer) => Failed(Peer)
  BY <1>1, LiveFacts DEF Astray, Failed, Handling
<1> QED BY <1>1, <1>2, <1>3, LiveFacts DEF Dialogue

\* replicate's file has become shorter.
LEMMA SendShortStep ==
  ASSUME ExchangeInv, Is("send"), req.sent < Size, NextNode, Hangup(Peer),
         UNCHANGED <<role, handler, files, writing, reported, breaks, disturbs>>
  PROVE  ExchangeInv'
<1>1. Live /\ Stores /\ Discarded = file
  BY SendingOK DEF Is, Discarded
<1>2. ASSUME breaks = 0 PROVE NoneStored
  <2>1. SUFFICES ASSUME ~Failed(Peer) PROVE NoneStored
    BY <1>1, <1>2, FailedStored
  <2>4. /\ handler[Peer].at = "store"
        /\ Len(handler[Peer].got) + Len(conn[Peer].up) = req.sent
    BY <2>1, <1>1, <1>2, SendingOK, LiveFacts
  <2>2. ~Succeeded(Peer)
    BY <1>1, <2>4, LiveFacts, StoringOK
  <2>3. \A n \in Node : Succeeded(n) => n = Peer
    BY <1>2 DEF ExchangeInv, Single
  <2> QED BY <2>2, <2>3, <2>4 DEF NoneStored
<1>3. breaks' \in 0..MaxBreaks /\ breaks' = breaks
  BY DEF ExchangeInv, Typed
<1> QED BY <1>1, <1>2, <1>3, LiveFacts, LeaveStep DEF files

\* The requester goes on with a node, or is through with it.
Staying ==
    /\ Live /\ UNCHANGED <<role, handler, sum, writing, reported, breaks, disturbs>>
    /\ req'.left = req.left /\ req'.at \in {"send", "final", "copy", "ok"}
    /\ OnlyConn(Peer) /\ conn'[Peer].server = conn[Peer].server
    /\ conn'[Peer].client = (conn[Peer].client /\ req'.at # "ok")
    /\ \A n \in Node : file'[n] = file[n]
    /\ active' \ {Me} = active \ {Me}
    /\ Me \in active' => Me \in writing \/ (role = "repair" /\ req'.at # "ok")

Phase ==
    /\ req.at = "final" => req'.at \in {"final", "ok"}
    /\ req.at = "send" => req'.at # "copy"
    /\ req'.at = "send" => role = "replicate" /\ req'.sent <= Size
    /\ req'.at = "final" => Stores
    /\ IF req'.at = "copy"
       THEN /\ ~Stores /\ req'.size \in 0..Size /\ req'.sum = Data
            /\ file'[Me] = req'.got /\ Piece(req'.got)
       ELSE (file'[Me] = file[Me] /\ ~Is("copy")) \/ file'[Me] = Data

Hearing ==
    /\ req'.at # "ok" =>
          IF conn[Peer].client THEN Dialogue(Peer)' ELSE conn'[Peer] = Closed
    /\ req'.at = "ok" => /\ conn[Peer].up = <<>> /\ conn'[Peer].up = <<>> /\ conn'[Peer].down = <<>>
                         /\ handler[Peer].at # "store"
                         /\ IF Stores THEN Succeeded(Peer) ELSE file'[Me] = Data

\* Such a step preserves the invariant.
LEMMA StayStep ==
  ASSUME ExchangeInv, Staying, Phase, Hearing, Typed', Handling(Peer)'
  PROVE  ExchangeInv'
<1>1. Typed /\ Turn /\ Filed /\ Marked /\ Single
  BY DEF ExchangeInv
<1>2. req.left # <<>> /\ Peer \in Node /\ Peer # Me
  BY LiveFacts DEF Staying
<1>3. /\ (Live' <=> req'.at # "ok") /\ ~Is("next")' /\ ~Is("ready")'
      /\ (Is("ok")' <=> req'.at = "ok") /\ (Is("copy")' <=> req'.at = "copy")
      /\ (Is("send")' <=> req'.at = "send") /\ (Is("final")' <=> req'.at = "final")
      /\ (Stores' <=> Stores) /\ Opening' = Opening /\ \A p : Source(p)' <=> Source(p)
      /\ Peer' = Peer
  BY DEF Staying, Live, Is, Stores, Opening, Source, Peer
<1>4. \A n \in Node \ {Peer} : conn'[n] = conn[n]
  BY DEF Staying, OnlyConn
<1>5. Turn'
  <2>1. ASSUME NEW i \in DOMAIN req.left, i > 1
        PROVE  /\ conn'[req.left[i]] = Closed /\ handler[req.left[i]].at = "none"
               /\ reported[req.left[i]] = "none"
    <3>1. req.left[i] \in Node /\ req.left[i] # Peer
      <4>1. i # 1 /\ i \in 1..Len(req.left) /\ Peer = req.left[1] /\ 1 \in DOMAIN req.left
            /\ req.left \in Seq(Node)
        BY <2>1, <1>1, <1>2, PeerFacts, LenProperties
      <4> QED BY <4>1, <1>1, ElementOfSeq DEF Turn
    <3> QED BY <2>1, <3>1, <1>1, <1>4 DEF Turn
  <2>2. ASSUME NEW n \in Node, conn'[n].client PROVE req'.at # "ok" /\ n = Peer
    BY <2>2, <1>1, <1>4 DEF Turn, Staying
  <2>3. req'.left # <<>> /\ req'.at \notin {"next", "ready", "failed"}
    BY <1>2 DEF Staying
  <2>4. /\ req'.at = "send" => role = "replicate" /\ req'.sent <= Size
        /\ req'.at = "final" => Stores
        /\ req'.at = "copy" => ~Stores /\ req'.size \in 0..Size /\ req'.sum = Data
    BY DEF Phase
  <2>5. /\ req'.left = req.left /\ role' = role /\ handler' = handler /\ reported' = reported
        /\ \A i, j \in DOMAIN req.left : req.left[i] = req.left[j] => i = j
    BY <1>1 DEF Staying, Turn
  <2> QED BY <2>1, <2>2, <2>3, <2>4, <2>5, <1>3 DEF Turn, Size, Is
<1>6. ASSUME NEW n \in Node PROVE Handling(n)'
  <2>1. Handling(n)
    BY DEF ExchangeInv
  <2>2. CASE n # Peer
    BY <2>1, <2>2, <1>3, <1>4, HandlingStays DEF Staying
  <2>3. CASE n = Peer
    BY <2>3, <1>3
  <2> QED BY <2>2, <2>3
<1>7. Talking'
  <2>1. SUFFICES ASSUME req'.at # "ok"
                 PROVE  (IF conn[Peer].client THEN Dialogue(Peer) ELSE conn[Peer] = Closed)'
    BY <1>2, <1>3 DEF Talking
  <2>2. conn'[Peer].client = conn[Peer].client
    <3>1. conn[Peer].client \in BOOLEAN
      BY <1>1, <1>2 DEF Typed, Connection
    <3> QED BY <2>1, <3>1 DEF Staying
  <2> QED BY <2>1, <2>2, <1>3 DEF Hearing
<1>8. Through'
  BY <1>3 DEF Through, Hearing, Staying, Succeeded
<1>9. Filed'
  <2>1. \A n \in Node : n \in Place /\ n # Me /\ file'[n] = file[n]
    BY ExchangeAssumption DEF Place, Staying
  <2>2. \A p \in Place : p \in Node \/ p = Me
    BY DEF Place
  <2>3. Me \in Place /\ Me \notin Node
    BY ExchangeAssumption DEF Place
  <2>4. file'[Me] = NoFile \/ Piece(file'[Me])
    BY <2>3, <1>1, WholePieces DEF Filed, Phase
  <2>5. Me \in writing \/ file'[Me] \in {NoFile, Data, Rotten} \/ req'.at = "copy"
    BY <2>3, <1>1 DEF Filed, Phase
  <2>6. req'.at = "copy" => file'[Me] = req'.got /\ Piece(req'.got)
    BY DEF Phase
  <2>7. /\ \A p \in Place : file'[p] = NoFile \/ Piece(file'[p])
        /\ \A p \in Place : \/ p \in writing \/ file'[p] \in {NoFile, Data, Rotten}
                            \/ p \in Node /\ handler[p].at = "store"
                            \/ p = Me /\ req'.at = "copy"
    BY <2>1, <2>2, <2>3, <2>4, <2>5, <1>1 DEF Filed
  <2>8. /\ writing' = writing /\ handler' = handler /\ reported' = reported /\ sum' = sum
    BY DEF Staying
  <2> QED BY <2>1, <2>6, <2>7, <2>8, <1>1, <1>3 DEF Filed, Succeeded, Piece
<1>10. Marked'
  <2>1. \A n \in active' \cap Node : n \in active
    BY ExchangeAssumption DEF Staying
  <2>2. Me \in active' => Me \in writing \/ (role = "repair" /\ req'.at \notin {"ok", "failed"})
    BY DEF Staying
  <2> QED BY <2>1, <2>2, <1>1, <1>3 DEF Marked, Staying
<1>11. Single'
  <2>1. SUFFICES ASSUME breaks = 0 PROVE Single'
    BY DEF Single, Staying
  <2>2. req'.at # "ok" => conn'[Peer].client \/ Failed(Peer)
    BY <2>1, <1>1 DEF Single, Staying
  <2>5. Failed(Peer) => handler[Peer].at # "store"
    BY <1>2, HandlerFacts DEF Handling, Failed
  <2>3. ASSUME NEW n \in Node, Succeeded(n)
        PROVE  n = Peer /\ req'.at \in {"send", "final", "ok"}
    <3>1. n = Peer /\ req.at \in {"send", "final"}
      BY <2>1, <2>3, <1>1 DEF Single, Staying, Live
    <3> QED BY <3>1 DEF Staying, Phase
  <2>4. ASSUME NEW n \in Node, handler[n].at = "store", ~conn'[n].client
        PROVE  n # Peer /\ ~conn[n].client /\ Len(handler[n].got) + Len(conn'[n].up) < Size
    <3>1. n # Peer
      BY <2>2, <2>4, <2>5 DEF Hearing
    <3> QED BY <2>1, <2>4, <3>1, <1>1, <1>4 DEF Single
  <2> QED BY <2>2, <2>3, <2>4, <1>2, <1>3 DEF Single, Staying, Succeeded, Failed
<1> QED BY <1>5, <1>6, <1>7, <1>8, <1>9, <1>10, <1>11 DEF ExchangeInv

\* put sends the chunk, replicate starts to.
LEMMA StartSendStep ==
  ASSUME ExchangeInv, StartSend
  PROVE  ExchangeInv'
<1> DEFINE chunk == [i \in DOMAIN Data |-> Byte(Data[i])]
           at == IF role = "put" THEN "final" ELSE "send"
<1>1. /\ Is("ready") /\ Stores /\ conn[Peer].down # <<>> /\ Head(conn[Peer].down) = Ok
      /\ conn' = [conn EXCEPT ![Peer].down = Tail(@),
                     ![Peer].up = IF role = "put" THEN @ \o chunk ELSE @]
      /\ req' = [req EXCEPT !.at = at]
      /\ UNCHANGED <<role, handler, file, sum, active, writing, reported, breaks, disturbs>>
  BY DEF StartSend, files
<1>2. chunk \in Seq(Message) /\ Len(chunk) = Size /\ Flow(chunk, 0) /\ Flow(<<>>, 0)
  BY Flows, DataOK
<1>3. Live /\ Typed /\ Turn
  BY <1>1 DEF Live, Is, ExchangeInv
<1>4. /\ Peer \in Node /\ Peer # Me /\ conn[Peer] \in Connection /\ handler[Peer] \in Handler
      /\ conn[Peer].client /\ Dialogue(Peer) /\ Handling(Peer)
  BY <1>1, <1>3, LiveFacts DEF Closed
<1>5. /\ handler[Peer].at = "store" /\ handler[Peer].got = <<>>
      /\ conn[Peer].up = <<>> /\ conn[Peer].down = <<Ok>> /\ Tail(conn[Peer].down) = <<>>
  BY <1>1, <1>4, One, Messages DEF Dialogue
<1>6. /\ OnlyConn(Peer) /\ conn'[Peer].down = <<>>
      /\ conn'[Peer].up = IF role = "put" THEN chunk ELSE <<>>
      /\ conn'[Peer].client = conn[Peer].client /\ conn'[Peer].server = conn[Peer].server
  <2>1. conn[Peer].up \o chunk = chunk /\ <<>> \in Seq(Message)
    BY <1>2, <1>5, ConcatEmptySeq, EmptySeq
  <2> HIDE DEF chunk
  <2>2. CASE role = "put"
    <3>1. conn' = [conn EXCEPT ![Peer].down = <<>>, ![Peer].up = chunk]
      BY <1>1, <1>5, <2>1, <2>2
    <3> QED BY <3>1, <2>1, <2>2, <1>2, <1>3, <1>4 DEF OnlyConn, Typed, Connection
  <2>3. CASE role # "put"
    <3>1. conn' = [conn EXCEPT ![Peer].down = <<>>, ![Peer].up = <<>>]
      BY <1>1, <1>5, <2>3
    <3> QED BY <3>1, <2>1, <2>3, <1>3, <1>4 DEF OnlyConn, Typed, Connection
  <2> QED BY <2>2, <2>3
<1> HIDE DEF chunk
<1>7. /\ req' \in Requester /\ req'.at = at /\ at \in {"send", "final"}
      /\ req'.left = req.left /\ req'.sent = 0
  BY <1>1, <1>3 DEF Typed, Turn, Requester, Is
<1> HIDE DEF at
<1>8. Peer' = Peer /\ Size \in Nat /\ Len(<<>>) = 0
  BY <1>7, DataOK, EmptySeq DEF Peer
<1>9. Staying
  BY <1>1, <1>3, <1>4, <1>6, <1>7 DEF Staying, ExchangeInv, Marked, Stores, Typed, Connection
<1>10. Phase
  BY <1>1, <1>3, <1>7, <1>8 DEF Phase, at, Stores, Is
<1>11. Hearing
  <2>1. Len(handler'[Peer].got) + Len(conn'[Peer].up) = IF at = "final" THEN Size ELSE 0
    BY <1>1, <1>2, <1>5, <1>6, <1>8 DEF at
  <2>2. Dialogue(Peer)'
    BY <1>1, <1>5, <1>6, <1>7, <1>8, <2>1 DEF Dialogue, Is, Size
  <2> QED BY <2>2, <1>4, <1>7 DEF Hearing
<1>12. Typed'
  BY <1>1, <1>3, <1>6, <1>7 DEF Typed, OnlyConn
<1>13. Handling(Peer)'
  <2>1. Flow(conn'[Peer].up, Len(handler'[Peer].got))
    BY <1>1, <1>2, <1>5, <1>6, <1>8
  <2> QED BY <2>1, <1>1, <1>4, <1>5, <1>6, <1>8 DEF Handling, Stores, Flow, Size
<1> QED BY <1>9, <1>10, <1>11, <1>12, <1>13, StayStep

\* replicate copies a byte of its file as it is now.
LEMMA SendOneStep ==
  ASSUME ExchangeInv, Is("send"), req.sent < Size,
         file[Me] # NoFile, req.sent < Len(file[Me]),
         conn' = [conn EXCEPT ![Peer].up =
            IF conn[Peer].server THEN Append(@, Byte(file[Me][req.sent + 1])) ELSE @],
         req' = [req EXCEPT !.sent = @ + 1],
         UNCHANGED <<role, handler, files, writing, reported, breaks, disturbs>>
  PROVE  ExchangeInv'
<1> DEFINE b == file[Me][req.sent + 1]
           next == req.sent + 1
<1>1. /\ Live /\ Stores /\ role = "replicate" /\ req.sent \in Nat /\ Size \in Nat
      /\ conn[Peer].client =>
            \/ /\ handler[Peer].at = "store" /\ conn[Peer].down = <<>>
               /\ Len(handler[Peer].got) + Len(conn[Peer].up) = req.sent
            \/ Astray(Peer)
  BY SendingOK, DataOK
<1>2. Typed /\ Turn /\ Filed /\ Me \in Place
  BY DEF ExchangeInv, Place
<1>3. /\ Peer \in Node /\ Peer # Me /\ conn[Peer] \in Connection /\ handler[Peer] \in Handler
      /\ Handling(Peer)
      /\ conn[Peer].client => conn[Peer].server
      /\ ~conn[Peer].client => conn[Peer] = Closed
      /\ conn[Peer].client \in BOOLEAN
  BY <1>1, LiveFacts DEF Connection
<1>4. b \in At(next) /\ b \in Nat /\ next \in Nat /\ next <= Size
  <2>1. Piece(file[Me])
    BY <1>2 DEF Filed
  <2>2. req.sent + 1 \in 1..Len(file[Me]) /\ req.sent + 1 <= Size
    BY <1>1, <2>1, LenProperties DEF Piece
  <2> QED BY <2>1, <2>2, <1>1, PieceReads
<1>5. Byte(b) \in Message
  BY <1>4, Bytes
<1> HIDE DEF b, next
<1>6. /\ req' \in Requester /\ req'.at = "send" /\ req'.left = req.left /\ req'.sent = next
  <2>1. req' = [req EXCEPT !.sent = next]
    BY DEF next
  <2> QED BY <2>1, <1>2, <1>4 DEF Typed, Requester, Is
<1>7. Peer' = Peer
  BY <1>6 DEF Peer
<1>8. CASE conn[Peer].client /\ ~Astray(Peer)
  <2>1. /\ Flow(conn[Peer].up, Len(handler[Peer].got)) /\ conn[Peer].up \in Seq(Message)
        /\ Len(handler[Peer].got) \in Nat /\ Len(conn[Peer].up) \in Nat
        /\ reported[Peer] = "none" /\ handler[Peer].size = Size /\ handler[Peer].sum = Data
    <3>1. handler[Peer].at = "store"
      BY <1>1, <1>8
    <3>2. handler[Peer].got \in Seq(Nat)
      BY <1>3 DEF Handler
    <3> QED BY <3>1, <3>2, <1>3, StoringOK, LenProperties
  <2>2. /\ Flow(Append(conn[Peer].up, Byte(b)), Len(handler[Peer].got))
        /\ Append(conn[Peer].up, Byte(b)) \in Seq(Message)
        /\ Len(Append(conn[Peer].up, Byte(b))) = Len(conn[Peer].up) + 1
    <3>1. Len(handler[Peer].got) + Len(conn[Peer].up) < Size
      BY <1>1, <1>8
    <3>2. b \in At(Len(handler[Peer].got) + Len(conn[Peer].up) + 1)
      BY <1>1, <1>4, <1>8 DEF next
    <3> QED BY <2>1, <3>1, <3>2, FlowGrows
  <2>3. conn' = [conn EXCEPT ![Peer].up = Append(conn[Peer].up, Byte(b))]
    BY <1>3, <1>8 DEF b
  <2>4. /\ OnlyConn(Peer) /\ conn'[Peer].up = Append(conn[Peer].up, Byte(b))
        /\ conn'[Peer].down = conn[Peer].down
        /\ conn'[Peer].client = conn[Peer].client /\ conn'[Peer].server = conn[Peer].server
    BY <2>2, <2>3, <1>2, <1>3, SendUpOK
  <2>5. Staying
    BY <2>4, <1>1, <1>2, <1>3, <1>6 DEF Staying, ExchangeInv, Marked, Stores, files
  <2>6. Phase
    BY <1>1, <1>4, <1>6 DEF Phase, files, Is
  <2>7. Hearing
    <3>1. Len(handler[Peer].got) + Len(conn'[Peer].up) = next
      <4>1. Len(conn'[Peer].up) = Len(conn[Peer].up) + 1
        BY <2>2, <2>4
      <4>2. ASSUME NEW g \in Nat, NEW u \in Nat PROVE g + (u + 1) = g + u + 1
        OBVIOUS
      <4>3. Len(handler[Peer].got) + Len(conn[Peer].up) = req.sent
        BY <1>1, <1>8
      <4>4. Len(handler[Peer].got) + (Len(conn[Peer].up) + 1)
               = Len(handler[Peer].got) + Len(conn[Peer].up) + 1
        BY <2>1, <4>2
      <4> QED BY <4>1, <4>3, <4>4 DEF next
    <3>2. Dialogue(Peer)'
      BY <3>1, <2>4, <1>1, <1>6, <1>7, <1>8 DEF Dialogue, Is
    <3> QED BY <3>2, <1>6, <1>8 DEF Hearing
  <2>8. Typed'
    BY <2>4, <1>2, <1>6 DEF Typed, OnlyConn, files
  <2>9. Handling(Peer)'
    <3>1. Flow(conn'[Peer].up, Len(handler'[Peer].got))
      BY <2>2, <2>4
    <3> QED BY <3>1, <2>1, <2>4, <1>1, <1>3, <1>7, <1>8 DEF Handling, Stores, Flow, Size
  <2> QED BY <2>5, <2>6, <2>7, <2>8, <2>9, StayStep
<1>10. CASE conn[Peer].client /\ Astray(Peer)
  <2>1. conn[Peer].up \in Seq(Message) /\ Append(conn[Peer].up, Byte(b)) \in Seq(Message)
    BY <1>3, <1>5, AppendProperties DEF Connection
  <2>2. conn' = [conn EXCEPT ![Peer].up = Append(conn[Peer].up, Byte(b))]
    BY <1>3, <1>10 DEF b
  <2>3. /\ OnlyConn(Peer) /\ conn'[Peer].up = Append(conn[Peer].up, Byte(b))
        /\ conn'[Peer].down = conn[Peer].down
        /\ conn'[Peer].client = conn[Peer].client /\ conn'[Peer].server = conn[Peer].server
    BY <2>1, <2>2, <1>2, <1>3, SendUpOK
  <2>4. Staying
    BY <2>3, <1>1, <1>2, <1>3, <1>6 DEF Staying, ExchangeInv, Marked, Stores, files
  <2>5. Phase
    BY <1>1, <1>4, <1>6 DEF Phase, files, Is
  <2>6. Hearing
    BY <2>3, <1>6, <1>7, <1>10 DEF Hearing, Dialogue, Astray, Is
  <2>7. Typed'
    BY <2>3, <1>2, <1>6 DEF Typed, OnlyConn, files
  <2>8. Handling(Peer)'
    BY <2>3, <1>1, <1>3, <1>7, <1>10 DEF Handling, Stores, Astray
  <2> QED BY <2>4, <2>5, <2>6, <2>7, <2>8, StayStep
<1>9. CASE ~conn[Peer].client
  <2>1. conn' = conn
    BY <1>2, <1>3, <1>9 DEF Closed, Typed, Connection
  <2>2. OnlyConn(Peer)
    BY <2>1, <1>2 DEF OnlyConn, Typed
  <2>3. Staying
    BY <2>1, <2>2, <1>1, <1>2, <1>3, <1>6, <1>9 DEF Staying, ExchangeInv, Marked, Stores, files
  <2>4. Phase
    BY <1>1, <1>4, <1>6 DEF Phase, files, Is
  <2>5. Hearing
    BY <2>1, <1>3, <1>6, <1>9 DEF Hearing
  <2>6. Typed'
    BY <2>1, <1>2, <1>6 DEF Typed, files
  <2>7. Handling(Peer)'
    BY <2>1, <1>3, <1>7 DEF Handling, Stores, Opening, Flow
  <2> QED BY <2>3, <2>4, <2>5, <2>6, <2>7, StayStep
<1> QED BY <1>8, <1>9, <1>10

\* replicate has copied the chunk.
LEMMA SendDoneStep ==
  ASSUME ExchangeInv, SendDone
  PROVE  ExchangeInv'
<1>1. /\ Is("send") /\ req.sent = Size /\ req' = [req EXCEPT !.at = "final"]
      /\ UNCHANGED <<role, conn, handler, file, sum, active, writing, reported, breaks, disturbs>>
  BY DEF SendDone, files, Size
<1>2. Live /\ Typed /\ Turn /\ Stores /\ role = "replicate"
  BY <1>1 DEF ExchangeInv, Turn, Live, Is, Stores
<1>3. /\ Peer \in Node /\ Peer # Me /\ Handling(Peer) /\ conn[Peer].client \in BOOLEAN
      /\ conn[Peer].client => Dialogue(Peer)
      /\ ~conn[Peer].client => conn[Peer] = Closed
  BY <1>2, LiveFacts DEF Connection
<1>4. req' \in Requester /\ req'.at = "final" /\ req'.left = req.left
  BY <1>1, <1>2 DEF Typed, Requester
<1>5. Peer' = Peer
  BY <1>4 DEF Peer
<1>6. Staying
  BY <1>1, <1>2, <1>3, <1>4 DEF Staying, ExchangeInv, Marked, Stores, Typed, OnlyConn
<1>7. Phase
  BY <1>1, <1>2, <1>4 DEF Phase, Is
<1>8. Hearing
  <2>1. conn[Peer].client => Dialogue(Peer)'
    BY <1>1, <1>3, <1>4, <1>5 DEF Dialogue, Is, Answered, Astray, Succeeded, Failed, Size
  <2> QED BY <2>1, <1>1, <1>3, <1>4 DEF Hearing
<1>9. Typed'
  BY <1>1, <1>2, <1>4 DEF Typed
<1>10. Handling(Peer)'
  BY <1>1, <1>3, <1>5 DEF Handling, Stores, Opening, Flow
<1> QED BY <1>6, <1>7, <1>8, <1>9, <1>10, StayStep

\* The node has confirmed.
LEMMA StoredStep ==
  ASSUME ExchangeInv, Stored
  PROVE  ExchangeInv'
<1>1. /\ Is("final") /\ conn[Peer].down # <<>> /\ Head(conn[Peer].down) = Ok
      /\ req' = [req EXCEPT !.at = "ok"] /\ Hangup(Peer)
      /\ UNCHANGED <<role, handler, file, sum, active, writing, reported, breaks, disturbs>>
  BY DEF Stored, files
<1>2. Live /\ Typed /\ Stores
  BY <1>1 DEF ExchangeInv, Turn, Live, Is
<1>3. /\ Peer \in Node /\ Peer # Me /\ Handling(Peer) /\ conn[Peer] \in Connection
      /\ conn[Peer].client /\ Dialogue(Peer)
  BY <1>1, <1>2, LiveFacts DEF Closed
<1>4. conn[Peer].up = <<>> /\ Succeeded(Peer) /\ handler[Peer].at # "store"
  <2>1. conn[Peer].up = <<>> /\ Succeeded(Peer)
    BY <1>1, <1>3, One, Messages DEF Dialogue, Answered, Astray
  <2> QED BY <2>1, <1>3 DEF Handling, Succeeded
<1>5. /\ OnlyConn(Peer) /\ conn'[Peer].up = conn[Peer].up /\ conn'[Peer].down = <<>>
      /\ conn'[Peer].client = FALSE /\ conn'[Peer].server = conn[Peer].server
  BY <1>1, <1>2, <1>3, HangupOK
<1>6. req' \in Requester /\ req'.at = "ok" /\ req'.left = req.left
  BY <1>1, <1>2 DEF Typed, Requester
<1>7. Peer' = Peer
  BY <1>6 DEF Peer
<1>8. Staying
  BY <1>1, <1>2, <1>3, <1>5, <1>6 DEF Staying, ExchangeInv, Marked, Stores, Typed
<1>9. Phase
  BY <1>1, <1>6 DEF Phase, Is
<1>10. Hearing
  BY <1>2, <1>4, <1>5, <1>6 DEF Hearing
<1>11. Typed'
  BY <1>1, <1>2, <1>5, <1>6 DEF Typed, OnlyConn
<1>12. Handling(Peer)'
  BY <1>1, <1>3, <1>5, <1>7 DEF Handling, Stores, Opening, Flow
<1> QED BY <1>8, <1>9, <1>10, <1>11, <1>12, StayStep

\* getChunk or repairChunk creates its file.
LEMMA StartCopyStep ==
  ASSUME ExchangeInv, StartCopy
  PROVE  ExchangeInv'
<1>1. /\ Is("ready") /\ ~Stores /\ conn[Peer].down # <<>> /\ Head(conn[Peer].down).is = "ready"
      /\ conn' = [conn EXCEPT ![Peer].down = Tail(@)]
      /\ file' = [file EXCEPT ![Me] = <<>>]
      /\ active' = IF role = "repair" THEN active \cup {Me} ELSE active
      /\ UNCHANGED <<role, handler, sum, writing, reported, breaks, disturbs>>
  BY DEF StartCopy
<1>2. Live /\ Typed /\ Turn /\ Me \in Place
  BY <1>1 DEF ExchangeInv, Live, Is, Place
<1>3. /\ Peer \in Node /\ Peer # Me /\ Handling(Peer) /\ conn[Peer] \in Connection
      /\ conn[Peer].client /\ Dialogue(Peer)
  BY <1>1, <1>2, LiveFacts DEF Closed
<1> DEFINE m == Head(conn[Peer].down)
<1>4. m \in Readys /\ m.size \in 0..Size /\ m.sum = Data /\ Carried(Peer, Tail(conn[Peer].down), 0)
  BY <1>1, <1>3, One, Messages DEF Dialogue, Handling
<1> HIDE DEF m
<1>5. /\ OnlyConn(Peer) /\ conn'[Peer].up = conn[Peer].up
      /\ conn'[Peer].down = Tail(conn[Peer].down)
      /\ conn'[Peer].client = conn[Peer].client /\ conn'[Peer].server = conn[Peer].server
  BY <1>1, <1>2, <1>3, TakeDownOK
<1>6. /\ req' \in Requester /\ req'.at = "copy" /\ req'.left = req.left /\ req'.got = <<>>
      /\ req'.size \in 0..Size /\ req'.sum = Data
  <2>1. req' = [req EXCEPT !.at = "copy", !.size = m.size, !.sum = Data]
    BY <1>4 DEF StartCopy, m
  <2>2. req.got = <<>> /\ req \in Requester
    BY <1>1, <1>2 DEF Turn, Typed, Is
  <2> DEFINE k == m.size
  <2>3. k \in Nat /\ <<>> \in Seq(Nat)
    BY <1>4, DataOK, EmptySeq
  <2> HIDE DEF k
  <2>4. req' = [req EXCEPT !.at = "copy", !.size = k, !.sum = Data]
    BY <2>1 DEF k
  <2>5. req'.size = k /\ k \in 0..Size
    BY <2>2, <2>4, <1>4 DEF Requester, k
  <2> QED BY <2>2, <2>3, <2>4, <2>5, DataOK DEF Requester
<1>7. Peer' = Peer
  BY <1>6 DEF Peer
<1>8. /\ file'[Me] = <<>> /\ file' \in [Place -> {NoFile} \cup Seq(Nat)]
      /\ \A n \in Node : file'[n] = file[n]
  BY <1>1, <1>2, EmptySeq, ExchangeAssumption DEF Typed, Place
<1>9. Staying
  <2>1. Me \in active' => Me \in writing \/ role = "repair"
    BY <1>1 DEF ExchangeInv, Marked
  <2>2. active' \ {Me} = active \ {Me}
    BY <1>1
  <2>3. conn'[Peer].client = (conn[Peer].client /\ req'.at # "ok")
    BY <1>3, <1>5, <1>6 DEF Connection
  <2> QED BY <1>1, <1>2, <1>5, <1>6, <1>8, <2>1, <2>2, <2>3 DEF Staying
<1>10. Phase
  BY <1>1, <1>6, <1>8, WholePieces DEF Phase, Is
<1>11. Hearing
  <2>1. Carried(Peer, conn[Peer].down, Len(req.got))'
    BY <1>1, <1>4, <1>5, <1>6, <1>7, EmptySeq DEF Carried, Flow, Size
  <2>2. Dialogue(Peer)'
    BY <2>1, <1>6 DEF Dialogue, Is
  <2> QED BY <2>2, <1>3, <1>6 DEF Hearing
<1>12. Typed'
  BY <1>1, <1>2, <1>5, <1>6, <1>8 DEF Typed, OnlyConn
<1>13. Handling(Peer)'
  BY <1>1, <1>3, <1>5, <1>7 DEF Handling, Stores, Opening, Flow
<1> QED BY <1>9, <1>10, <1>11, <1>12, <1>13, StayStep

\* A requester that copies has its bytes up to where its stream goes on.
LEMMA CopyingOK ==
  ASSUME ExchangeInv, Is("copy")
  PROVE  /\ Live /\ ~Stores /\ req.size \in 0..Size /\ req.sum = Data
         /\ req.got \in Seq(Nat) /\ Len(req.got) \in Nat
         /\ file[Me] = req.got /\ Piece(req.got) /\ Me \in Place
         /\ conn[Peer].client => Carried(Peer, conn[Peer].down, Len(req.got))
<1>1. Live
  BY DEF Live, Is
<1>2. req.got \in Seq(Nat) /\ Len(req.got) \in Nat
  BY LenProperties DEF ExchangeInv, Typed, Requester
<1> QED BY <1>1, <1>2, LiveFacts DEF ExchangeInv, Turn, Filed, Dialogue, Place

\* A byte of the copy.
LEMMA CopyByteStep ==
  ASSUME ExchangeInv, CopyByte
  PROVE  ExchangeInv'
<1> DEFINE b == Head(conn[Peer].down).b
<1>1. /\ Is("copy") /\ conn[Peer].down # <<>>
      /\ req' = [req EXCEPT !.got = Append(@, b)]
      /\ file' = [file EXCEPT ![Me] = Append(@, b)]
      /\ conn' = [conn EXCEPT ![Peer].down = Tail(@)]
      /\ UNCHANGED <<role, handler, sum, active, writing, reported, breaks, disturbs>>
  BY DEF CopyByte
<1>2. /\ Live /\ ~Stores /\ req.size \in 0..Size /\ req.sum = Data /\ req.got \in Seq(Nat)
      /\ Len(req.got) \in Nat /\ file[Me] = req.got /\ Piece(req.got) /\ Me \in Place
  BY <1>1, CopyingOK
<1>3. Typed
  BY DEF ExchangeInv
<1>4. /\ Peer \in Node /\ Peer # Me /\ Handling(Peer) /\ conn[Peer] \in Connection
      /\ conn[Peer].client /\ conn[Peer].client \in BOOLEAN
  BY <1>1, <1>2, LiveFacts DEF Closed, Connection
<1>5. Carried(Peer, conn[Peer].down, Len(req.got)) /\ conn[Peer].down \in Seq(Message)
  BY <1>1, <1>4, CopyingOK DEF Connection
<1>6. /\ b \in At(Len(req.got) + 1) /\ b \in Nat /\ Len(req.got) < Size
      /\ Flow(Tail(conn[Peer].down), Len(req.got) + 1)
      /\ Len(Tail(conn[Peer].down)) = Len(conn[Peer].down) - 1
  BY <1>1, <1>2, <1>5, FlowHead DEF Carried
<1> HIDE DEF b
<1>7. /\ Piece(Append(req.got, b)) /\ Append(req.got, b) \in Seq(Nat)
      /\ Len(Append(req.got, b)) = Len(req.got) + 1
  BY <1>2, <1>6, PieceGrows DEF Piece
<1>8. /\ OnlyConn(Peer) /\ conn'[Peer].up = conn[Peer].up
      /\ conn'[Peer].down = Tail(conn[Peer].down)
      /\ conn'[Peer].client = conn[Peer].client /\ conn'[Peer].server = conn[Peer].server
  BY <1>1, <1>3, <1>4, TakeDownOK
<1>9. /\ req' \in Requester /\ req'.at = "copy" /\ req'.left = req.left
      /\ req'.got = Append(req.got, b) /\ req'.size \in 0..Size /\ req'.sum = Data
  BY <1>1, <1>2, <1>3, <1>7 DEF Typed, Requester, Is
<1>10. Peer' = Peer
  BY <1>9 DEF Peer
<1>11. /\ file'[Me] = req'.got /\ file' \in [Place -> {NoFile} \cup Seq(Nat)]
       /\ \A n \in Node : file'[n] = file[n]
  BY <1>1, <1>2, <1>3, <1>7, <1>9, ExchangeAssumption DEF Typed, Place
<1>12. Staying
  <2>1. Me \in active' => Me \in writing \/ role = "repair"
    BY <1>1 DEF ExchangeInv, Marked
  <2>2. conn'[Peer].client = (conn[Peer].client /\ req'.at # "ok")
    BY <1>4, <1>8, <1>9
  <2> QED BY <1>1, <1>2, <1>8, <1>9, <1>11, <2>1, <2>2 DEF Staying
<1>13. Phase
  BY <1>1, <1>2, <1>7, <1>9, <1>11 DEF Phase, Is
<1>14. Hearing
  <2>1. Carried(Peer, conn[Peer].down, Len(req.got))'
    <3>1. Flow(conn'[Peer].down, Len(req'.got))
      BY <1>6, <1>7, <1>8, <1>9
    <3>2. Len(req'.got) + Len(conn'[Peer].down) = Len(req.got) + Len(conn[Peer].down)
      <4>1. Len(req'.got) = Len(req.got) + 1 /\ Len(conn'[Peer].down) = Len(conn[Peer].down) - 1
        BY <1>6, <1>7, <1>8, <1>9
      <4>2. ASSUME NEW g \in Nat, NEW u \in Nat PROVE g + 1 + (u - 1) = g + u
        OBVIOUS
      <4>3. Len(conn[Peer].down) \in Nat
        BY <1>5, LenProperties
      <4> QED BY <4>1, <4>2, <4>3, <1>2
    <3> QED BY <3>1, <3>2, <1>1, <1>5, <1>8, <1>10 DEF Carried, Flow, Size
  <2>2. Dialogue(Peer)'
    BY <2>1, <1>9 DEF Dialogue, Is
  <2> QED BY <2>2, <1>4, <1>9 DEF Hearing
<1>15. Typed'
  BY <1>1, <1>3, <1>8, <1>9, <1>11 DEF Typed, OnlyConn
<1>16. Handling(Peer)'
  BY <1>1, <1>4, <1>8, <1>10 DEF Handling, Stores, Opening, Flow
<1> QED BY <1>12, <1>13, <1>14, <1>15, <1>16, StayStep

\* The requester's own disk fails.
LEMMA CopyFailsStep ==
  ASSUME ExchangeInv, CopyFails \/ CopyRefused
  PROVE  ExchangeInv'
<1>1. /\ Live /\ ~Stores /\ file' = Discarded /\ NextNode /\ Hangup(Peer)
      /\ active' = active \/ (role = "repair" /\ active' = active \cup {Me})
      /\ UNCHANGED <<role, handler, sum, writing, reported, breaks, disturbs>>
  <2>1. CASE CopyFails
    BY <2>1, CopyingOK DEF CopyFails, Live, Is
  <2>2. CASE CopyRefused
    BY <2>2 DEF CopyRefused, Live, Is, Stores, Discarded
  <2> QED BY <2>1, <2>2
<1>2. breaks' \in 0..MaxBreaks /\ breaks' = breaks
  BY <1>1 DEF ExchangeInv, Typed
<1> QED BY <1>1, <1>2, NothingStored, LiveFacts, LeaveStep

\* The copy matches, or it is removed.
LEMMA CheckStep ==
  ASSUME ExchangeInv, Check
  PROVE  ExchangeInv'
<1>1. /\ Is("copy") /\ Len(req.got) = req.size /\ Hangup(Peer)
      /\ UNCHANGED <<role, handler, sum, writing, reported, breaks, disturbs>>
  BY DEF Check
<1>2. /\ Live /\ ~Stores /\ req.sum = Data
      /\ file[Me] = req.got /\ Me \in Place
  BY <1>1, CopyingOK
<1>3. Typed
  BY DEF ExchangeInv
<1>4. /\ Peer \in Node /\ Peer # Me /\ Handling(Peer) /\ conn[Peer] \in Connection
      /\ conn[Peer].client => Dialogue(Peer)
      /\ ~conn[Peer].client => conn[Peer] = Closed
  BY <1>2, LiveFacts
<1>5. CASE req.got # req.sum
  <2>1. NextNode /\ file' = [file EXCEPT ![Me] = NoFile] /\ active' = active
    BY <1>5 DEF Check
  <2>2. file' = Discarded
    BY <1>1, <2>1 DEF Discarded
  <2>3. breaks' \in 0..MaxBreaks
    BY <1>1, <1>3 DEF Typed
  <2> QED BY <1>1, <1>2, <2>1, <2>2, <2>3, NothingStored, LiveFacts, LeaveStep
<1>6. CASE req.got = req.sum
  <2>1. req' = [req EXCEPT !.at = "ok"] /\ active' = active \ {Me} /\ file' = file
    BY <1>6 DEF Check
  <2>2. /\ OnlyConn(Peer) /\ conn'[Peer].up = conn[Peer].up /\ conn'[Peer].down = <<>>
        /\ conn'[Peer].client = FALSE /\ conn'[Peer].server = conn[Peer].server
    BY <1>1, <1>3, <1>4, HangupOK
  <2>3. req' \in Requester /\ req'.at = "ok" /\ req'.left = req.left
    BY <2>1, <1>3 DEF Typed, Requester
  <2>4. Peer' = Peer
    BY <2>3 DEF Peer
  <2>5. conn[Peer].up = <<>> /\ handler[Peer].at # "store"
    <3>1. conn[Peer].up = <<>>
      BY <1>1, <1>4, CopyingOK DEF Carried, Closed
    <3> QED BY <3>1, <1>2, <1>4 DEF Handling
  <2>6. Staying
    <3>1. conn'[Peer].client = (conn[Peer].client /\ req'.at # "ok")
      BY <2>2, <2>3
    <3> QED BY <1>1, <1>2, <2>1, <2>2, <2>3, <3>1 DEF Staying
  <2>7. Phase
    BY <1>1, <1>2, <1>6, <2>1, <2>3 DEF Phase, Is
  <2>8. Hearing
    BY <1>2, <1>6, <2>1, <2>2, <2>3, <2>5 DEF Hearing
  <2>9. Typed'
    <3>1. Me \notin writing
      BY <1>2, ExchangeAssumption DEF ExchangeInv, Marked, Source, Stores
    <3> QED BY <3>1, <1>1, <1>3, <2>1, <2>2, <2>3 DEF Typed, OnlyConn
  <2>10. Handling(Peer)'
    BY <1>1, <1>4, <2>2, <2>4 DEF Handling, Stores, Opening, Flow
  <2> QED BY <2>6, <2>7, <2>8, <2>9, <2>10, StayStep
<1> QED BY <1>5, <1>6

\* The requester opens a connection and sends its request.
LEMMA DialStep ==
  ASSUME ExchangeInv, Dial
  PROVE  ExchangeInv'
<1>1. /\ Is("next") /\ req.left # <<>>
      /\ conn' = [conn EXCEPT ![Peer] =
            [up |-> <<Opening>>, down |-> <<>>, client |-> TRUE, server |-> TRUE]]
      /\ handler' = [handler EXCEPT ![Peer].at = "receive"]
      /\ req' = [req EXCEPT !.at = "ready"]
      /\ UNCHANGED <<role, file, sum, active, writing, reported, breaks, disturbs>>
  BY DEF Dial, Opening, files
<1>2. Typed /\ Turn /\ Filed /\ Marked /\ Single
  BY DEF ExchangeInv
<1>3. /\ req.left \in Seq(Node) /\ Peer = req.left[1] /\ 1 \in DOMAIN req.left
      /\ Peer \in Node /\ Peer # Me
  BY <1>1, <1>2, PeerFacts, ExchangeAssumption
<1>4. conn[Peer] = Closed /\ handler[Peer].at = "none" /\ reported[Peer] = "none"
  BY <1>1, <1>2, <1>3 DEF Turn
<1>5. /\ OnlyConn(Peer) /\ conn'[Peer].up = <<Opening>> /\ conn'[Peer].down = <<>>
      /\ conn'[Peer].client = TRUE /\ conn'[Peer].server = TRUE
  <2>1. <<Opening>> \in Seq(Message) /\ <<>> \in Seq(Message)
    BY Messages, EmptySeq
  <2>2. [up |-> <<Opening>>, down |-> <<>>, client |-> TRUE, server |-> TRUE] \in Connection
    BY <2>1 DEF Connection
  <2> HIDE DEF Connection
  <2> QED BY <2>2, <1>1, <1>2, <1>3 DEF OnlyConn, Typed
<1>6. OnlyHandler(Peer) /\ handler'[Peer].at = "receive"
  <2>1. handler \in [Node -> Handler] /\ handler[Peer] \in Handler
    BY <1>2, <1>3 DEF Typed
  <2> DEFINE r == [handler[Peer] EXCEPT !.at = "receive"]
  <2>2. r \in Handler /\ r.at = "receive"
    BY <2>1 DEF Handler
  <2>3. handler' = [handler EXCEPT ![Peer] = r]
    BY <1>1
  <2> HIDE DEF r
  <2>4. handler' \in [Node -> Handler] /\ handler'[Peer] = r
    BY <2>1, <2>2, <2>3, <1>3
  <2>5. \A m \in Node \ {Peer} : handler'[m] = handler[m]
    BY <2>1, <2>3, <1>3
  <2> QED BY <2>2, <2>4, <2>5 DEF OnlyHandler
<1>7. /\ req' \in Requester /\ req'.at = "ready" /\ req'.left = req.left
      /\ req'.got = <<>> /\ req'.sent = 0
  BY <1>1, <1>2 DEF Typed, Turn, Requester, Is
<1>8. /\ Peer' = Peer /\ Live' /\ (Stores' <=> Stores) /\ Opening' = Opening
      /\ Is("ready")' /\ ~Is("next")' /\ ~Is("send")' /\ ~Is("final")' /\ ~Is("copy")'
      /\ ~Is("ok")' /\ ~Is("copy") /\ \A p : Source(p)' <=> Source(p)
  BY <1>1, <1>7 DEF Peer, Live, Stores, Opening, Is, Source
<1>9. Typed'
  BY <1>1, <1>2, <1>5, <1>6, <1>7 DEF Typed, OnlyConn, OnlyHandler
<1>10. \A n \in Node : ~conn[n].client
  BY <1>1, <1>2 DEF Turn, Live, Is
<1>11. Turn'
  <2>1. ASSUME NEW i \in DOMAIN req.left, i > 1
        PROVE  /\ conn'[req.left[i]] = Closed /\ handler'[req.left[i]].at = "none"
               /\ reported[req.left[i]] = "none"
    <3>1. req.left[i] \in Node /\ req.left[i] # Peer
      <4>1. i # 1 /\ i \in 1..Len(req.left)
        BY <2>1, <1>3, LenProperties
      <4> QED BY <4>1, <1>2, <1>3, ElementOfSeq DEF Turn
    <3> QED BY <2>1, <3>1, <1>2, <1>5, <1>6 DEF Turn, OnlyConn, OnlyHandler
  <2>2. ASSUME NEW n \in Node, conn'[n].client PROVE n = Peer
    BY <2>2, <1>5, <1>10 DEF OnlyConn
  <2> QED BY <2>1, <2>2, <1>1, <1>2, <1>7, <1>8 DEF Turn, Is
<1>12. ASSUME NEW n \in Node PROVE Handling(n)'
  <2>1. Handling(n)
    BY DEF ExchangeInv
  <2>2. CASE n # Peer
    BY <2>1, <2>2, <1>1, <1>5, <1>6, <1>8, HandlingStays DEF OnlyConn, OnlyHandler
  <2>3. CASE n = Peer
    BY <2>3, <1>1, <1>4, <1>5, <1>6, <1>8 DEF Handling
  <2> QED BY <2>2, <2>3
<1>13. Talking' /\ Through'
  <2>1. Dialogue(Peer)'
    BY <1>5, <1>6, <1>8 DEF Dialogue
  <2> QED BY <2>1, <1>3, <1>5, <1>8 DEF Talking, Through
<1>14. \A n \in Node : /\ (Succeeded(n)' <=> Succeeded(n))
                       /\ (handler'[n].at = "store" => n # Peer /\ handler'[n] = handler[n])
  BY <1>1, <1>4, <1>6 DEF Succeeded, OnlyHandler
<1>15. Filed'
  <2>1. \A n \in Node : handler[n].at = "store" => handler'[n].at = "store"
    BY <1>4, <1>6 DEF OnlyHandler
  <2> QED BY <2>1, <1>1, <1>2, <1>8, <1>14 DEF Filed, Piece
<1>16. Marked'
  <2>1. \A n \in Node : handler[n].at \in {"store", "success", "failure", "broken"} =>
                            handler'[n].at \in {"store", "success", "failure", "broken"}
    BY <1>4, <1>6 DEF OnlyHandler
  <2> QED BY <2>1, <1>1, <1>2, <1>7, <1>8 DEF Marked
<1>17. Single'
  <2>1. SUFFICES ASSUME breaks = 0 PROVE Single'
    BY <1>1 DEF Single
  <2>2. \A n \in Node : ~Succeeded(n)
    BY <2>1, <1>1, <1>2 DEF Single, Is
  <2>3. ASSUME NEW n \in Node, handler'[n].at = "store"
        PROVE  Len(handler'[n].got) + Len(conn'[n].up) < Size
    <3>1. n # Peer /\ handler'[n] = handler[n] /\ conn'[n] = conn[n]
      BY <2>3, <1>5, <1>14 DEF OnlyConn
    <3> QED BY <2>1, <2>3, <3>1, <1>2, <1>10 DEF Single
  <2> QED BY <2>2, <2>3, <1>5, <1>8, <1>14 DEF Single
<1> QED BY <1>9, <1>11, <1>12, <1>13, <1>15, <1>16, <1>17 DEF ExchangeInv

\* No node is left.
LEMMA GiveUpStep ==
  ASSUME ExchangeInv, GiveUp
  PROVE  ExchangeInv'
<1>1. /\ Is("next") /\ req.left = <<>> /\ req' = [req EXCEPT !.at = "failed"]
      /\ active' = IF role = "repair" THEN active \ {Me} ELSE active
      /\ UNCHANGED <<role, conn, handler, file, sum, writing, reported, breaks, disturbs>>
  BY DEF GiveUp
<1>2. Typed /\ Turn /\ Filed /\ Marked /\ Single
  BY DEF ExchangeInv
<1>3. req' \in Requester /\ req'.at = "failed" /\ req'.left = req.left
  BY <1>1, <1>2 DEF Typed, Requester
<1>4. /\ ~Live' /\ ~Live /\ (Stores' <=> Stores) /\ Opening' = Opening
      /\ ~Is("next")' /\ ~Is("send")' /\ ~Is("final")' /\ ~Is("copy")' /\ ~Is("ok")' /\ ~Is("copy")
      /\ \A p : Source(p)' <=> Source(p)
  BY <1>1, <1>3 DEF Live, Stores, Opening, Is, Source
<1>5. Typed'
  <2>1. role = "repair" => Me \notin writing
    BY <1>2, ExchangeAssumption DEF Marked, Source
  <2> QED BY <2>1, <1>1, <1>2, <1>3 DEF Typed
<1>6. Turn'
  BY <1>1, <1>2, <1>3, <1>4 DEF Turn
<1>7. ASSUME NEW n \in Node PROVE Handling(n)'
  <2>1. Handling(n)
    BY DEF ExchangeInv
  <2> QED BY <2>1, <1>1, <1>4, HandlingStays
<1>8. Talking' /\ Through'
  BY <1>4 DEF Talking, Through
<1>9. Filed'
  BY <1>1, <1>2, <1>4 DEF Filed, Succeeded, Piece
<1>10. Marked'
  <2>1. Me \in active' => Me \in writing
    BY <1>1, <1>2 DEF Marked
  <2>2. \A n \in active' : n \in active
    BY <1>1
  <2> QED BY <2>1, <2>2, <1>1, <1>2, <1>4 DEF Marked
<1>11. Single'
  <2>1. breaks = 0 => \A n \in Node : ~Succeeded(n)
    BY <1>1, <1>2 DEF Single
  <2> QED BY <2>1, <1>1, <1>2, <1>4 DEF Single, Succeeded
<1> QED BY <1>5, <1>6, <1>7, <1>8, <1>9, <1>10, <1>11 DEF ExchangeInv

\* Every step of the requester preserves the invariant.
LEMMA RequestStep ==
  ASSUME ExchangeInv, Request \/ Deadline
  PROVE  ExchangeInv'
<1>1. CASE SendByte
  <2>1. Is("send") /\ req.sent < Size
    BY <1>1 DEF SendByte, Size
  <2> QED BY <1>1, <2>1, SendOneStep, SendShortStep DEF SendByte
<1> QED BY <1>1, DialFailsStep, DialStep, GiveUpStep, RefusedStep, LostStep, StartSendStep,
       SendDoneStep, StoredStep, StartCopyStep, CopyByteStep, CopyFailsStep, CheckStep,
       DeadlineStep
    DEF Request
-----------------------------------------------------------------------------
(* What else happens.                                                      *)

\* A connection breaks.
LEMMA BreakStep ==
  ASSUME ExchangeInv, NEW n \in Node, Break(n)
  PROVE  ExchangeInv'
<1>1. /\ conn[n].client /\ breaks < MaxBreaks /\ breaks' = breaks + 1
      /\ conn' = [conn EXCEPT ![n] = Closed]
      /\ UNCHANGED <<role, req, handler, file, sum, active, writing, reported, disturbs>>
  BY DEF Break, files
<1>2. Typed /\ Turn /\ Filed /\ Marked
  BY DEF ExchangeInv
<1>3. Live /\ n = Peer /\ Handling(n)
  BY <1>1, HandlerFacts
<1>4. Closed \in Connection /\ Closed.up = <<>> /\ ~Closed.client /\ ~Closed.server
  BY EmptySeq DEF Closed, Connection
<1>5. /\ conn' \in [Node -> Connection] /\ conn'[n] = Closed
      /\ \A m \in Node \ {n} : conn'[m] = conn[m]
  BY <1>1, <1>2, <1>4 DEF Typed
<1>6. breaks \in Nat /\ breaks' \in 0..MaxBreaks /\ breaks' # 0
  BY <1>1, <1>2, ExchangeAssumption DEF Typed
<1>7. Typed'
  BY <1>1, <1>2, <1>5, <1>6 DEF Typed
<1>8. /\ Peer' = Peer /\ (Live' <=> Live) /\ (Stores' <=> Stores) /\ Opening' = Opening
      /\ \A p : Source(p)' <=> Source(p)
  BY <1>1 DEF Peer, Live, Stores, Opening, Source
<1>9. Turn'
  <2>1. \A m \in Node : conn[m] = Closed => conn'[m] = Closed
    BY <1>5
  <2>2. \A m \in Node : conn'[m].client => conn[m].client
    BY <1>4, <1>5
  <2>3. \A i \in DOMAIN req.left : req.left[i] \in Node
    BY <1>2, LenProperties, ElementOfSeq DEF Typed, Requester
  <2> QED BY <2>1, <2>2, <2>3, <1>1, <1>2, <1>8 DEF Turn, Is
<1>10. ASSUME NEW m \in Node PROVE Handling(m)'
  <2>1. Handling(m)
    BY DEF ExchangeInv
  <2>2. CASE m # n
    BY <2>1, <2>2, <1>1, <1>5, <1>8, HandlingStays
  <2>3. CASE m = n
    <3>1. handler[n].at = "store" => Flow(<<>>, Len(handler[n].got))
      BY StoringOK, Flows
    <3>2. /\ conn'[n].up = <<>> /\ ~conn'[n].client /\ ~conn'[n].server
          /\ handler' = handler /\ reported' = reported
      BY <1>1, <1>4, <1>5
    <3>3. handler[n].at = "store" => Flow(conn'[n].up, Len(handler'[n].got))
      BY <3>1, <3>2
    <3>4. /\ handler'[n].at # "none" /\ conn'[n].up \in {<<>>, <<Opening>>}
          /\ handler'[n] = handler[n] /\ reported'[n] = reported[n]
      BY <1>1, <1>3, <3>2 DEF Handling
    <3>5. CASE handler[n].at = "receive"
      BY <1>3, <1>8, <2>3, <3>2, <3>4, <3>5 DEF Handling
    <3>6. CASE handler[n].at = "store"
      BY <1>3, <1>8, <2>3, <3>2, <3>3, <3>4, <3>6 DEF Handling, Flow, Size
    <3>7. CASE handler[n].at \in {"success", "failure"}
      BY <1>3, <1>8, <2>3, <3>2, <3>4, <3>7 DEF Handling
    <3>8. CASE handler[n].at \in {"stat", "verify", "open", "serve"}
      BY <1>3, <1>8, <2>3, <3>2, <3>4, <3>8 DEF Handling, Size
    <3>9. CASE handler[n].at \in {"broken", "astray"}
      BY <1>3, <1>8, <2>3, <3>2, <3>4, <3>9 DEF Handling
    <3> QED BY <3>2, <3>4, <3>5, <3>6, <3>7, <3>8, <3>9, HandlerFacts DEF Handler
  <2> QED BY <2>2, <2>3
<1>11. Talking'
  BY <1>3, <1>4, <1>5, <1>8 DEF Talking
<1>12. Through' /\ Single'
  BY <1>1, <1>3, <1>6 DEF Through, Single, Live, Is
<1>13. Filed' /\ Marked'
  BY <1>1, <1>2, <1>8 DEF Filed, Marked, Succeeded, Piece, Is
<1> QED BY <1>7, <1>9, <1>10, <1>11, <1>12, <1>13 DEF ExchangeInv

\* Nothing that happens to the file a transfer reads takes what it writes.
LEMMA DisturbStep ==
  ASSUME ExchangeInv, NEW p \in Place, Source(p), Typed',
         UNCHANGED <<role, req, conn, handler, reported, breaks>>,
         \A q \in Place \ {p} : file'[q] = file[q],
         \A n \in Node \ {p} : sum'[n] = sum[n],
         active' \ {p} = active \ {p}, writing' \ {p} = writing \ {p},
         file'[p] = NoFile \/ Piece(file'[p]),
         p \in writing' \/ file'[p] \in {NoFile, Data, Rotten},
         p \in active' => p \in writing' \/ (p \in active /\ p \notin writing)
  PROVE  ExchangeInv'
<1>1. Typed /\ Turn /\ Filed /\ Marked /\ Single /\ Talking /\ Through
  BY DEF ExchangeInv
<1>2. /\ Peer' = Peer /\ (Live' <=> Live) /\ (Stores' <=> Stores) /\ Opening' = Opening
      /\ \A q : (Source(q)' <=> Source(q)) /\ \A at : Is(at)' <=> Is(at)
      /\ \A n \in Node : Succeeded(n)' <=> Succeeded(n)
  BY DEF Peer, Live, Stores, Opening, Source, Is, Succeeded
<1>3. ASSUME NEW n \in Node, n = p
      PROVE  ~Stores /\ ~Succeeded(n) /\ handler[n].at # "store"
  <2>1. ~Stores
    BY <1>3, ExchangeAssumption DEF Source
  <2> QED BY <2>1, HandlerFacts DEF Handling, Succeeded
<1>4. p = Me => Stores /\ ~Is("copy")
  BY <1>1, ExchangeAssumption DEF Source, Stores, Turn
<1>5. ASSUME NEW n \in Node, n # p
      PROVE  /\ n \in Place /\ file'[n] = file[n] /\ sum'[n] = sum[n]
             /\ (n \in active' <=> n \in active) /\ (n \in writing' <=> n \in writing)
  BY <1>5 DEF Place
<1>6. p # Me => /\ file'[Me] = file[Me] /\ (Me \in active' <=> Me \in active)
                /\ (Me \in writing' <=> Me \in writing)
  BY DEF Place
<1>7. Turn'
  BY <1>1, <1>2 DEF Turn
<1>8. ASSUME NEW n \in Node PROVE Handling(n)'
  <2>1. Handling(n)
    BY DEF ExchangeInv
  <2> QED BY <2>1, <1>2, HandlingStays
<1>9. Talking'
  <2>1. Dialogue(Peer)' <=> Dialogue(Peer)
    BY <1>2 DEF Dialogue, Answered, Astray, Carried, Flow, Succeeded, Failed, Is
  <2> QED BY <2>1, <1>1, <1>2 DEF Talking
<1>10. Through'
  <2>1. ~Stores => file'[Me] = file[Me]
    BY <1>4, <1>6
  <2> QED BY <2>1, <1>1, <1>2 DEF Through, Succeeded, Is
<1>11. Filed'
  <2>1. ASSUME NEW q \in Place
        PROVE  /\ file'[q] = NoFile \/ Piece(file'[q])
               /\ \/ q \in writing' \/ file'[q] \in {NoFile, Data, Rotten}
                  \/ q \in Node /\ handler[q].at = "store"
                  \/ q = Me /\ Is("copy")
    <3>1. CASE q = p
      BY <3>1
    <3>2. CASE q # p
      <4>1. file'[q] = file[q] /\ (q \in writing' <=> q \in writing)
        BY <3>2
      <4> QED BY <4>1, <1>1 DEF Filed
    <3> QED BY <3>1, <3>2
  <2>2. ASSUME NEW n \in Node
        PROVE  /\ handler[n].at = "store" => file'[n] = handler[n].got /\ Piece(handler[n].got)
               /\ Succeeded(n) => file'[n] = Data /\ sum'[n] = Data
    BY <1>1, <1>3, <1>5 DEF Filed
  <2>3. Is("copy") => file'[Me] = req.got /\ Piece(req.got)
    BY <1>1, <1>4, <1>6 DEF Filed
  <2>4. handler' = handler /\ req' = req
    OBVIOUS
  <2> QED BY <2>1, <2>2, <2>3, <2>4, <1>2 DEF Filed, Piece
<1>12. Marked'
  <2>1. \A q \in writing' : Source(q)
    BY <1>1 DEF Marked
  <2>2. ASSUME NEW n \in active' \cap Node
        PROVE  n \in writing' \/ handler[n].at \in {"store", "success", "failure", "broken"}
    <3>1. CASE n = p
      BY <3>1, <2>2, <1>1 DEF Marked
    <3>2. CASE n # p
      BY <3>2, <2>2, <1>1, <1>5 DEF Marked
    <3> QED BY <3>1, <3>2
  <2>3. Me \in active' => Me \in writing' \/ (role = "repair" /\ req.at \notin {"ok", "failed"})
    BY <1>1, <1>6 DEF Marked
  <2> QED BY <2>1, <2>2, <2>3, <1>2 DEF Marked
<1>13. Single'
  BY <1>1, <1>2 DEF Single, Failed
<1> QED BY <1>7, <1>8, <1>9, <1>10, <1>11, <1>12, <1>13 DEF ExchangeInv

\* The four things that happen to a file.
LEMMA FileStep ==
  ASSUME ExchangeInv, NEW p \in Place, Truncate(p) \/ Rewrite(p) \/ Rot(p) \/ Delete(p)
  PROVE  ExchangeInv'
<1>1. Typed /\ Filed /\ Marked /\ (disturbs < MaxDisturb => disturbs + 1 \in 0..MaxDisturb)
  BY ExchangeAssumption DEF ExchangeInv, Typed
<1>2. CASE Truncate(p)
  <2>1. /\ Source(p) /\ disturbs' \in 0..MaxDisturb
        /\ file' = [file EXCEPT ![p] = <<>>]
        /\ active' = active \cup {p} /\ writing' = writing \cup {p}
        /\ UNCHANGED <<role, req, conn, handler, sum, reported, breaks>>
    BY <1>1, <1>2 DEF Truncate, Disturb
  <2>2. /\ file'[p] = <<>> /\ file' \in [Place -> {NoFile} \cup Seq(Nat)]
        /\ \A q \in Place \ {p} : file'[q] = file[q]
    BY <1>1, <2>1, EmptySeq DEF Typed
  <2>3. Typed'
    BY <1>1, <2>1, <2>2 DEF Typed
  <2> QED BY <2>1, <2>2, <2>3, WholePieces, DisturbStep
<1>3. CASE Rewrite(p)
  <2>1. /\ p \in writing /\ active' = active \ {p} /\ writing' = writing \ {p}
        /\ \/ file' = [file EXCEPT ![p] = Data]
           \/ file' = [file EXCEPT ![p] = NoFile]
        /\ UNCHANGED <<role, req, conn, handler, sum, reported, breaks, disturbs>>
    BY <1>3 DEF Rewrite
  <2>2. /\ file'[p] \in {NoFile, Data} /\ file' \in [Place -> {NoFile} \cup Seq(Nat)]
        /\ \A q \in Place \ {p} : file'[q] = file[q]
    BY <1>1, <2>1, DataOK DEF Typed
  <2>3. Typed'
    BY <1>1, <2>1, <2>2 DEF Typed
  <2>4. Source(p)
    BY <1>1, <2>1 DEF Marked
  <2> QED BY <2>1, <2>2, <2>3, <2>4, WholePieces, DisturbStep
<1>4. CASE Rot(p)
  <2>1. /\ Source(p) /\ disturbs' \in 0..MaxDisturb /\ file' = [file EXCEPT ![p] = Rotten]
        /\ UNCHANGED <<role, req, conn, handler, sum, active, writing, reported, breaks>>
    BY <1>1, <1>4 DEF Rot, Disturb
  <2>2. /\ file'[p] = Rotten /\ file' \in [Place -> {NoFile} \cup Seq(Nat)]
        /\ \A q \in Place \ {p} : file'[q] = file[q]
    BY <1>1, <2>1, DataOK DEF Typed
  <2>3. Typed'
    BY <1>1, <2>1, <2>2 DEF Typed
  <2> QED BY <2>1, <2>2, <2>3, WholePieces, DisturbStep
<1>5. CASE Delete(p)
  <2>1. /\ Source(p) /\ disturbs' \in 0..MaxDisturb /\ file' = [file EXCEPT ![p] = NoFile]
        /\ p \notin active
        /\ sum' = IF p = Me THEN sum ELSE [sum EXCEPT ![p] = NoFile]
        /\ UNCHANGED <<role, req, conn, handler, active, writing, reported, breaks>>
    BY <1>1, <1>5 DEF Delete, Disturb
  <2>2. /\ file'[p] = NoFile /\ file' \in [Place -> {NoFile} \cup Seq(Nat)]
        /\ \A q \in Place \ {p} : file'[q] = file[q]
    BY <1>1, <2>1 DEF Typed
  <2>3. sum' \in [Node -> {NoFile, Data}] /\ \A n \in Node \ {p} : sum'[n] = sum[n]
    BY <1>1, <2>1 DEF Typed
  <2>4. Typed'
    BY <1>1, <2>1, <2>2, <2>3 DEF Typed
  <2> QED BY <2>1, <2>2, <2>3, <2>4, DisturbStep
<1> QED BY <1>2, <1>3, <1>4, <1>5

\* The invariant holds at the start and every step preserves it.
LEMMA ExchangeInitial == Init => ExchangeInv
<1> SUFFICES ASSUME Init PROVE ExchangeInv
  OBVIOUS
<1>1. PICK s \in [1..Cardinality(Node) -> Node] :
         /\ \A i, j \in DOMAIN s : s[i] = s[j] => i = j
         /\ req = [at |-> "next", left |-> s, got |-> <<>>, size |-> 0, sum |-> <<>>, sent |-> 0]
  BY DEF Init
<1>2. Cardinality(Node) \in Nat
  BY ExchangeAssumption, FS_CardinalityType
<1>3. s \in Seq(Node) /\ <<>> \in Seq(Nat) /\ <<>> \in Seq(Message)
  BY <1>2, EmptySeq
<1>4. req \in Requester /\ req.left = s /\ req.at = "next" /\ req.got = <<>> /\ req.sent = 0
  BY <1>1, <1>3 DEF Requester
<1>5. /\ role \in Role /\ conn = [n \in Node |-> Closed] /\ handler = [n \in Node |-> Idle]
      /\ file \in [Place -> {Data, Rotten, NoFile}]
      /\ sum = [n \in Node |-> IF file[n] = NoFile THEN NoFile ELSE Data]
      /\ active = {} /\ writing = {} /\ reported = [n \in Node |-> "none"]
      /\ breaks = 0 /\ disturbs = 0
  BY DEF Init
<1>6. /\ ~Live /\ Is("next") /\ ~Is("send") /\ ~Is("final") /\ ~Is("copy") /\ ~Is("ok")
  BY <1>4 DEF Live, Is
<1>7. Closed \in Connection /\ Idle \in Handler
  BY <1>3 DEF Closed, Connection, Idle, Handler
<1>8. \A n \in Node : /\ conn[n].up = <<>> /\ ~conn[n].client /\ ~conn[n].server
                      /\ handler[n].at = "none" /\ reported[n] = "none" /\ ~Succeeded(n)
  BY <1>5 DEF Closed, Idle, Succeeded
<1>9. Typed
  <2>1. file \in [Place -> {NoFile} \cup Seq(Nat)] /\ sum \in [Node -> {NoFile, Data}]
    BY <1>5, DataOK
  <2>2. conn \in [Node -> Connection] /\ handler \in [Node -> Handler]
    BY <1>5, <1>7
  <2> QED BY <2>1, <2>2, <1>4, <1>5, ExchangeAssumption DEF Typed
<1>10. Turn
  <2>1. \A i \in DOMAIN s : s[i] \in Node
    BY <1>1
  <2>2. \A n \in Node : conn[n] = Closed
    BY <1>5
  <2> QED BY <2>1, <2>2, <1>1, <1>4, <1>6, <1>8 DEF Turn, Is
<1>11. ASSUME NEW n \in Node PROVE Handling(n)
  BY <1>8 DEF Handling
<1>12. Talking /\ Through
  BY <1>6 DEF Talking, Through
<1>13. Filed
  <2>1. \A p \in Place : file[p] \in {Data, Rotten, NoFile}
    BY <1>5
  <2> QED BY <2>1, <1>6, <1>8, WholePieces DEF Filed
<1>14. Marked
  BY <1>5 DEF Marked
<1>15. Single
  BY <1>6, <1>8 DEF Single
<1> QED BY <1>9, <1>10, <1>11, <1>12, <1>13, <1>14, <1>15 DEF ExchangeInv

\* Every step preserves the invariant.
LEMMA ExchangeNext == ExchangeInv /\ [Next]_vars => ExchangeInv'
<1> SUFFICES ASSUME ExchangeInv, [Next]_vars PROVE ExchangeInv'
  OBVIOUS
<1>1. CASE UNCHANGED vars
  <2>1. /\ UNCHANGED <<role, req, conn, handler, file, sum, active, writing, reported>>
        /\ UNCHANGED <<breaks, disturbs>>
    BY <1>1 DEF vars, files
  <2>2. Typed' /\ Turn'
    BY <2>1 DEF ExchangeInv, Typed, Turn, Live, Is, Peer, Stores
  <2>3. ASSUME NEW n \in Node PROVE Handling(n)'
    BY <2>1 DEF ExchangeInv, Handling, Flow, Opening, Stores
  <2>4. Dialogue(Peer)' <=> Dialogue(Peer)
    BY <2>1 DEF Dialogue, Answered, Astray, Carried, Flow, Succeeded, Failed, Is, Peer, Opening, Stores
  <2>5. Talking' /\ Through'
    BY <2>1, <2>4 DEF ExchangeInv, Talking, Through, Live, Is, Peer, Succeeded, Stores
  <2>6. Filed' /\ Marked' /\ Single'
    BY <2>1 DEF ExchangeInv, Filed, Marked, Single, Piece, Succeeded, Failed, Live, Is, Peer, Source, Stores
  <2> QED BY <2>2, <2>3, <2>5, <2>6 DEF ExchangeInv
<1>2. CASE Next
  BY <1>2, RequestStep, HandleStep, BreakStep, FileStep DEF Next
<1> QED BY <1>1, <1>2

\* The invariant is one.
LEMMA ExchangeInvariant == Spec => []ExchangeInv
BY ExchangeInitial, ExchangeNext, PTL DEF Spec
-----------------------------------------------------------------------------
(* The theorems.                                                           *)

\* Requester, handlers, files and bounds have their types, a file has nothing
\* in it but a part of the chunk or of a rotten copy, and a handler that has
\* ended has closed its end.
THEOREM ExchangeTyped == Spec => []TypeOK
<1>1. ASSUME ExchangeInv PROVE TypeOK
  <2>1. Typed /\ Turn /\ Filed
    BY <1>1 DEF ExchangeInv
  <2>2. req.at \notin {"next", "failed"} => req.left # <<>>
    BY <2>1 DEF Turn
  <2>3. ASSUME NEW n \in Node
        PROVE  /\ handler[n].at \in {"none", "receive", "astray", "store", "success",
                                     "failure", "broken", "stat", "verify", "open", "serve"}
               /\ reported[n] \in {"none", "success", "failure"}
               /\ handler[n].at = "none" => ~conn[n].server
    BY <1>1, <2>1 DEF ExchangeInv, Typed, Handler, Handling
  <2>4. NoFile \in Contents /\ Data \in Contents
    BY WholePieces, PieceIsContents DEF Contents
  <2>5. file \in [Place -> Contents] /\ sum \in [Node -> Contents]
    <3>1. \A p \in Place : file[p] \in Contents
      BY <2>1, <2>4, PieceIsContents DEF Filed
    <3> QED BY <2>1, <2>4, <3>1 DEF Typed
  <2> QED BY <2>1, <2>2, <2>3, <2>5 DEF TypeOK, Typed, Requester
<1> QED BY <1>1, ExchangeInvariant, PTL

\* Whatever is refused, cut short, given up or broken, no end of a connection
\* takes bytes of the chunk for a message or a message for bytes, but the
\* handler of a node that could not write in mid-chunk, which is astray.
THEOREM StreamsFramed == Spec => []Framed
<1>1. ASSUME ExchangeInv PROVE Framed
  <2>1. Typed /\ Turn /\ Talking /\ Through
    BY <1>1 DEF ExchangeInv
  <2>2. ASSUME NEW n \in Node, conn[n].up # <<>>, handler[n].at = "receive"
        PROVE  ~IsByte(Head(conn[n].up))
    <3>1. conn[n].up = <<Opening>>
      BY <1>1, <2>2, HandlerFacts DEF Handling
    <3> QED BY <3>1, One, Messages
  <2>3. ASSUME NEW n \in Node, conn[n].up # <<>>, handler[n].at = "store"
        PROVE  IsByte(Head(conn[n].up))
    <3>1. /\ Flow(conn[n].up, Len(handler[n].got)) /\ conn[n].up \in Seq(Message)
          /\ Len(handler[n].got) \in Nat
      BY <1>1, <2>3, StoringOK, LenProperties
    <3> QED BY <2>3, <3>1, FlowHead
  <2>4. ASSUME req.left # <<>>, conn[Peer].down # <<>>
        PROVE  IF Is("copy") THEN IsByte(Head(conn[Peer].down)) ELSE ~IsByte(Head(conn[Peer].down))
    <3>1. Live
      <4>1. ~Is("next")
        BY <2>1, <2>4, PeerFacts DEF Turn, Closed
      <4>2. ~Is("ok") /\ ~Is("failed")
        BY <2>1, <2>4 DEF Through, Turn
      <4> QED BY <4>1, <4>2, <2>1 DEF Typed, Requester, Live, Is
    <3>2. conn[Peer].client /\ Dialogue(Peer) /\ conn[Peer].down \in Seq(Message)
      BY <1>1, <2>4, <3>1, LiveFacts DEF Closed, Connection
    <3>3. CASE Is("copy")
      <4>1. Flow(conn[Peer].down, Len(req.got)) /\ Len(req.got) \in Nat
        BY <1>1, <3>2, <3>3, CopyingOK DEF Carried
      <4> QED BY <2>4, <3>2, <3>3, <4>1, FlowHead
    <3>4. CASE ~Is("copy")
      <4>1. Head(conn[Peer].down) \in {Ok, No} \cup Readys
        BY <2>4, <3>1, <3>2, <3>4, One DEF Dialogue, Answered, Astray, Live, Is
      <4> QED BY <3>4, <4>1, Messages
    <3> QED BY <3>3, <3>4
  <2> QED BY <2>2, <2>3, <2>4 DEF Framed
<1> QED BY <1>1, ExchangeInvariant, PTL

\* A requester that succeeds has delivered the chunk, whatever happened to
\* files and connections on the way.
THEOREM SuccessDelivers == Spec => []Delivered
<1>1. ASSUME ExchangeInv PROVE Delivered
  <2>1. SUFFICES ASSUME Is("ok") PROVE Delivered
    BY DEF Delivered
  <2>2. Peer \in Node
    BY <1>1, <2>1, PeerFacts DEF ExchangeInv, Turn, Is
  <2>3. IF Stores THEN Succeeded(Peer) ELSE file[Me] = Data
    BY <1>1, <2>1 DEF ExchangeInv, Through
  <2>4. Succeeded(Peer) => file[Peer] = Data /\ sum[Peer] = Data
    BY <1>1, <2>2 DEF ExchangeInv, Filed
  <2> QED BY <2>3, <2>4 DEF Delivered, Succeeded
<1> QED BY <1>1, ExchangeInvariant, PTL

\* When requester and handlers are done no path is in activeWrites for them
\* and no incomplete file is left, whatever failed on the way.
THEOREM NothingPartialLeft == Spec => []NothingPartial
<1>1. ASSUME ExchangeInv PROVE NothingPartial
  <2>1. SUFFICES ASSUME Ended PROVE NothingPartial
    BY DEF NothingPartial
  <2>2. Typed /\ Filed /\ Marked /\ \A n \in Node : handler[n].at = "none"
    BY <1>1, <2>1 DEF ExchangeInv, Ended
  <2>3. ASSUME NEW p \in active PROVE p \in writing
    <3>1. CASE p \in Node
      BY <2>2, <2>3, <3>1 DEF Marked
    <3>2. CASE p = Me
      BY <2>1, <2>2, <2>3, <3>2 DEF Marked, Ended, Is
    <3> QED BY <2>2, <3>1, <3>2 DEF Typed, Place
  <2>4. active = writing
    BY <2>2, <2>3 DEF Typed
  <2>5. ASSUME NEW p \in Place \ writing PROVE file[p] \in {NoFile, Data, Rotten}
    BY <2>1, <2>2 DEF Filed, Ended, Is
  <2> QED BY <2>4, <2>5 DEF NothingPartial
<1> QED BY <1>1, ExchangeInvariant, PTL

\* As long as no connection breaks at most one candidate stores the chunk,
\* and none does for a requester that fails.
THEOREM OneStores == Spec => []StoredOnce
<1>1. ASSUME ExchangeInv PROVE StoredOnce
  <2> DEFINE stored == {n \in Node : reported[n] = "success"}
  <2>1. SUFFICES ASSUME breaks = 0
                 PROVE  Cardinality(stored) <= 1 /\ (stored # {} => ~Is("failed"))
    BY DEF StoredOnce
  <2>2. \A n \in stored : n = Peer /\ ~Is("failed")
    BY <1>1, <2>1 DEF ExchangeInv, Single, Succeeded, Is
  <2>3. stored \subseteq {Peer}
    BY <2>2
  <2>4. IsFiniteSet({Peer}) /\ Cardinality({Peer}) = 1
    BY FS_Singleton
  <2>5. Cardinality(stored) <= 1
    <3> HIDE DEF stored
    <3> QED BY <2>3, <2>4, FS_Subset
  <2> QED BY <2>2, <2>5
<1> QED BY <1>1, ExchangeInvariant, PTL
=============================================================================
