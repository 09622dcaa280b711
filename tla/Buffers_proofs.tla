--------------------------- MODULE Buffers_proofs ---------------------------
(***************************************************************************)
(* The buffers that calls reuse hand older bytes to the parsers: for every *)
(* length of the buffers, requests and datagrams, and any number of calls. *)
(***************************************************************************)
EXTENDS FeedBuffer, FlowBuffer, SequenceTheorems, TLAPS

-----------------------------------------------------------------------------
(* FeedBuffer.                                                             *)

\* What the cells of a buffer may hold: zeros, and the numbers of operations
\* from the one that replaced the buffer to the last one.
Written(b, from, to) ==
    b \in Seq(Nat) /\ \A i \in 1..Len(b) : b[i] = 0 \/ b[i] \in from..to

\* Since the buffer was replaced, everything in it stems from the operations since.
FeedInv ==
    /\ ops \in Nat /\ grown \in Nat /\ grown < ops
    /\ Written(buff, ops - grown, ops)
    /\ MessageIsStale

\* A stretch of cells with one content.
LEMMA Filled ==
    ASSUME NEW n \in Nat, NEW v \in Nat
    PROVE  /\ Fill(n, v) \in Seq(Nat) /\ Len(Fill(n, v)) = n
           /\ \A i \in 1..n : Fill(n, v)[i] = v
  BY DEF Fill

\* A buffer that an operation has just replaced.
LEMMA FillWritten ==
    ASSUME NEW n \in Nat, NEW v \in Nat PROVE Written(Fill(n, v), v, v)
  <1>1. Fill(n, v) \in Seq(Nat) /\ Len(Fill(n, v)) = n /\ \A i \in 1..n : Fill(n, v)[i] = v
    BY Filled
  <1>2. v \in v..v
    OBVIOUS
  <1> QED BY <1>1, <1>2 DEF Written

\* Growing a buffer adds zeros behind it.
LEMMA GrowWritten ==
    ASSUME NEW b, NEW from \in Nat, NEW to \in Nat, Written(b, from, to)
    PROVE  Written(Grow(b), from, to) /\ Len(Grow(b)) = Len(b) + Chunk
  <1>1. /\ Fill(Chunk, 0) \in Seq(Nat) /\ Len(Fill(Chunk, 0)) = Chunk /\ Chunk \in Nat
        /\ \A i \in 1..Chunk : Fill(Chunk, 0)[i] = 0
    BY Filled, FeedBufferAssumption
  <1>2. b \in Seq(Nat) /\ \A i \in 1..Len(b) : b[i] = 0 \/ b[i] \in from..to
    BY DEF Written
  <1>3. Grow(b) \in Seq(Nat) /\ Len(Grow(b)) = Len(b) + Chunk
    <2>1. Grow(b) \in Seq(Nat)
      BY <1>1, <1>2 DEF Grow
    <2>2. Len(Grow(b)) = Len(b) + Len(Fill(Chunk, 0))
      BY <1>1, <1>2 DEF Grow
    <2> QED BY <1>1, <2>1, <2>2
  <1>4. ASSUME NEW i \in 1..Len(Grow(b)) PROVE Grow(b)[i] = 0 \/ Grow(b)[i] \in from..to
    <2>1. CASE i <= Len(b)
      BY <1>1, <1>2, <1>3, <2>1 DEF Grow
    <2>2. CASE i > Len(b)
      <3>1. i - Len(b) \in 1..Chunk
        BY <1>2, <1>3, <2>2, <1>1
      <3>2. Grow(b)[i] = Fill(Chunk, 0)[i - Len(b)]
        BY <1>1, <1>2, <1>3, <2>2, <3>1 DEF Grow
      <3> QED BY <1>1, <3>1, <3>2
    <2> QED BY <1>2, <2>1, <2>2
  <1> QED BY <1>3, <1>4 DEF Written

\* A datagram overwrites the beginning and leaves the rest.
LEMMA ReadWritten ==
    ASSUME NEW b, NEW from \in Nat, NEW to \in Nat, Written(b, from, to),
           NEW d \in Nat, NEW v \in Nat, v >= from, v >= to
    PROVE  /\ Written(ReadInto(b, d, v), from, v) /\ Len(ReadInto(b, d, v)) = Len(b)
           /\ \A i \in 1..Len(b) : i > d => ReadInto(b, d, v)[i] = b[i]
  BY DEF Written, ReadInto

\* What follows n cells.
LEMMA FromWritten ==
    ASSUME NEW b, NEW from \in Nat, NEW to \in Nat, Written(b, from, to),
           NEW n \in 0..Len(b)
    PROVE  /\ Written(From(b, n), from, to) /\ Len(From(b, n)) = Len(b) - n
           /\ \A i \in 1..(Len(b) - n) : From(b, n)[i] = b[n + i]
  BY DEF Written, From

\* Of a handshake's buffer remain its own bytes and zeros.
LEMMA AuthenticatedWritten ==
    ASSUME NEW v \in Nat, NEW r \in Request, NEW d \in Datagram
    PROVE  Written(Authenticated(v, r, d), v, v)
  <1> DEFINE reciver == ReadInto(Grow(Fill(r, v)), d, v)
  <1>1. r \in Nat /\ d \in Nat
    BY FeedBufferAssumption
  <1>2. Written(Fill(r, v), v, v)
    BY <1>1, FillWritten
  <1>3. Written(Grow(Fill(r, v)), v, v)
    BY <1>2, GrowWritten
  <1>4. Written(reciver, v, v)
    BY <1>1, <1>3, ReadWritten
  <1>5. Received(reciver, d) \in 0..Len(reciver)
    BY <1>1, <1>4 DEF Received, Written
  <1>6. Authenticated(v, r, d) = From(reciver, Received(reciver, d))
    BY DEF Authenticated, Grow
  <1> HIDE DEF reciver
  <1> QED BY <1>4, <1>5, <1>6, FromWritten

\* A read, also one that fails, leaves bytes of the same operations and its own.
LEMMA ReadIntoGrown ==
    ASSUME FeedInv, NEW d \in Nat
    PROVE  LET b == ReadInto(Grow(buff), d, ops + 1)
           IN  /\ Written(b, ops - grown, ops + 1)
               /\ Len(b) = Len(Grow(buff))
               /\ \A i \in 1..Len(b) : i > d => b[i] = 0 \/ b[i] \in (ops - grown)..ops
  <1>1. ops \in Nat /\ ops - grown \in Nat /\ ops + 1 \in Nat
    BY DEF FeedInv
  <1>2. Written(Grow(buff), ops - grown, ops)
    BY <1>1, GrowWritten DEF FeedInv
  <1>3. ops + 1 >= ops - grown /\ ops + 1 >= ops
    BY DEF FeedInv
  <1>4. /\ Written(ReadInto(Grow(buff), d, ops + 1), ops - grown, ops + 1)
        /\ Len(ReadInto(Grow(buff), d, ops + 1)) = Len(Grow(buff))
        /\ \A i \in 1..Len(Grow(buff)) : i > d =>
              ReadInto(Grow(buff), d, ops + 1)[i] = Grow(buff)[i]
    BY <1>1, <1>2, <1>3, ReadWritten
  <1> QED BY <1>2, <1>4 DEF Written

\* Every operation on the feed buffer keeps its invariant.
LEMMA FeedNextInv == FeedInv /\ [Next]_vars => FeedInv'
  <1> SUFFICES ASSUME FeedInv, [Next]_vars PROVE FeedInv'
    OBVIOUS
  <1>0. ops \in Nat /\ grown \in Nat /\ grown < ops
    BY DEF FeedInv
  <1>1. ASSUME NEW r \in Request, Send(r) PROVE FeedInv'
    <2>1. Written(Fill(r, ops + 1), ops + 1, ops + 1)
      BY <1>0, FillWritten, FeedBufferAssumption
    <2> QED BY <1>0, <1>1, <2>1 DEF Send, RequestBuffer, FeedInv, MessageIsStale
  <1>2. ASSUME NEW r \in Request, NEW d \in Datagram, Authenticate(r, d) PROVE FeedInv'
    <2>1. Written(Authenticated(ops + 1, r, d), ops + 1, ops + 1)
      BY <1>0, AuthenticatedWritten
    <2> QED BY <1>0, <1>2, <2>1 DEF Authenticate, FeedInv, MessageIsStale
  <1>3. ASSUME NEW d \in Datagram \cup {0}, RecFails(d) PROVE FeedInv'
    <2>1. Written(ReadInto(Grow(buff), d, ops + 1), ops - grown, ops + 1)
      BY FeedBufferAssumption, ReadIntoGrown
    <2>2. ops' - grown' = ops - grown
      BY <1>0, <1>3 DEF RecFails
    <2> QED BY <1>0, <1>3, <2>1, <2>2 DEF RecFails, FeedInv, MessageIsStale
  <1>4. ASSUME NEW d \in Datagram, RecFeedMsg(d) PROVE FeedInv'
    <2> DEFINE b == ReadInto(Grow(buff), d, ops + 1)
    <2>1. d \in Nat
      BY FeedBufferAssumption
    <2>2. /\ Written(b, ops - grown, ops + 1)
          /\ \A i \in 1..Len(b) : i > d => b[i] = 0 \/ b[i] \in (ops - grown)..ops
      BY <2>1, ReadIntoGrown
    <2>3. /\ ops' = ops + 1 /\ grown' = grown + 1 /\ buff' = b
          /\ \/ result' = << >>
             \/ Parsed(b, d) # << >> /\ Head(Parsed(b, d)) # 0 /\ result' = <<Head(Parsed(b, d))>>
      BY <1>4 DEF RecFeedMsg
    <2> HIDE DEF b
    <2>4. b \in Seq(Nat) /\ Received(b, d) \in 0..Len(b)
      BY <2>1, <2>2 DEF Written, Received
    <2>5. ASSUME Parsed(b, d) # << >>, Head(Parsed(b, d)) # 0
          PROVE  Head(Parsed(b, d)) \in (ops - grown)..ops
      <3>1. /\ Parsed(b, d) \in Seq(Nat) /\ Len(Parsed(b, d)) = Len(b) - Received(b, d)
            /\ \A i \in 1..(Len(b) - Received(b, d)) : Parsed(b, d)[i] = b[Received(b, d) + i]
        <4>1. ops - grown \in Nat /\ ops + 1 \in Nat
          BY <1>0
        <4>2. /\ Written(From(b, Received(b, d)), ops - grown, ops + 1)
              /\ Len(From(b, Received(b, d))) = Len(b) - Received(b, d)
              /\ \A i \in 1..(Len(b) - Received(b, d)) :
                    From(b, Received(b, d))[i] = b[Received(b, d) + i]
          BY <2>2, <2>4, <4>1, FromWritten
        <4> QED BY <4>2 DEF Parsed, Written
      <3>2. Head(Parsed(b, d)) = b[Received(b, d) + 1] /\ Received(b, d) + 1 \in 1..Len(b)
        BY <2>4, <2>5, <3>1
      <3>3. Received(b, d) + 1 > d
        BY <2>1, <2>4, <3>2 DEF Received
      <3> QED BY <2>2, <2>5, <3>2, <3>3
    <2>6. MessageIsStale'
      <3>1. CASE result' = << >>
        BY <3>1 DEF MessageIsStale
      <3>2. CASE result' # << >>
        <4>1. result' = <<Head(Parsed(b, d))>> /\ Head(Parsed(b, d)) \in (ops - grown)..ops
          BY <2>3, <2>5, <3>2
        <4>2. Head(result') = Head(Parsed(b, d))
          BY <4>1
        <4> QED BY <1>0, <2>3, <4>1, <4>2 DEF MessageIsStale
      <3> QED BY <3>1, <3>2
    <2>7. ops' - grown' = ops - grown
      BY <1>0, <2>3
    <2> QED BY <1>0, <2>2, <2>3, <2>6, <2>7 DEF FeedInv
  <1>5. CASE UNCHANGED vars
    BY <1>5 DEF vars, FeedInv, MessageIsStale
  <1> QED BY <1>1, <1>2, <1>3, <1>4, <1>5 DEF Next

\* RecFeedMsg never returns the datagram it has received, whatever the lengths
\* of requests and datagrams: a message consists of the bytes of an earlier
\* operation since the buffer was last replaced.
THEOREM MessageIsStaleAlways == Spec => []MessageIsStale
  <1>1. Init => FeedInv
    <2> SUFFICES ASSUME Init PROVE FeedInv
      OBVIOUS
    <2>1. ops = 1 /\ grown = 0 /\ result = << >>
      BY DEF Init
    <2>2. Written(buff, 1, 1)
      BY AuthenticatedWritten DEF Init
    <2> QED BY <2>1, <2>2 DEF FeedInv, MessageIsStale
  <1>2. FeedInv => MessageIsStale
    BY DEF FeedInv
  <1> QED BY <1>1, <1>2, FeedNextInv, PTL DEF Spec

\* The buffer is as long as its reads made it: Chunk for each since it was
\* replaced, and at the most a request and a Chunk that were there before.
BufferAccounted ==
    \E r \in Request :
        grown * Chunk <= Len(buff) /\ Len(buff) <= r + (grown + 1) * Chunk

\* What a handshake leaves is no longer than its request and a Chunk.
LEMMA AuthenticatedLength ==
    ASSUME NEW v \in Nat, NEW r \in Request, NEW d \in Datagram
    PROVE  Len(Authenticated(v, r, d)) \in 0..(r + Chunk)
  <1> DEFINE reciver == ReadInto(Grow(Fill(r, v)), d, v)
  <1>1. r \in Nat /\ d \in Nat /\ Chunk \in Nat
    BY FeedBufferAssumption
  <1>2. Written(Fill(r, v), v, v) /\ Len(Fill(r, v)) = r
    BY <1>1, FillWritten, Filled
  <1>3. Written(Grow(Fill(r, v)), v, v) /\ Len(Grow(Fill(r, v))) = r + Chunk
    BY <1>2, GrowWritten
  <1>4. Written(reciver, v, v) /\ Len(reciver) = r + Chunk
    BY <1>1, <1>3, ReadWritten
  <1>5. Received(reciver, d) \in 0..Len(reciver)
    BY <1>1, <1>4 DEF Received, Written
  <1>6. Authenticated(v, r, d) = From(reciver, Received(reciver, d))
    BY DEF Authenticated, Grow
  <1> HIDE DEF reciver
  <1>7. Len(From(reciver, Received(reciver, d))) = Len(reciver) - Received(reciver, d)
    BY <1>4, <1>5, FromWritten
  <1> QED BY <1>1, <1>4, <1>5, <1>6, <1>7

\* One read more, one Chunk more.
LEMMA OneChunkMore ==
    ASSUME NEW g \in Nat, NEW k \in Nat
    PROVE  /\ (g + 1) * k = g * k + k
           /\ (g + 1 + 1) * k = (g + 1) * k + k
           /\ g * k \in Nat
  OBVIOUS

\* A buffer that was just replaced, of which n cells are left.
LEMMA ReplacedAccounted ==
    ASSUME NEW r \in Request, grown' = 0, Len(buff') \in 0..(r + Chunk)
    PROVE  BufferAccounted'
  <1>1. r \in Nat /\ Chunk \in Nat
    BY FeedBufferAssumption
  <1>2. grown' * Chunk = 0 /\ (grown' + 1) * Chunk = Chunk
    BY <1>1
  <1> QED BY <1>1, <1>2 DEF BufferAccounted

\* A read makes the buffer longer whether or not it fails.
LEMMA ReadAccounted ==
    ASSUME FeedInv, BufferAccounted, NEW d \in Nat,
           buff' = ReadInto(Grow(buff), d, ops + 1), grown' = grown + 1
    PROVE  BufferAccounted'
  <1>1. Chunk \in Nat /\ grown \in Nat /\ ops \in Nat /\ ops - grown \in Nat
    BY FeedBufferAssumption DEF FeedInv
  <1>2. Len(Grow(buff)) = Len(buff) + Chunk /\ Len(buff) \in Nat
    <2>1. Written(buff, ops - grown, ops)
      BY DEF FeedInv
    <2>2. Len(Grow(buff)) = Len(buff) + Chunk
      BY <1>1, <2>1, GrowWritten
    <2>3. Len(buff) \in Nat
      BY <2>1 DEF Written
    <2> QED BY <2>2, <2>3
  <1>3. Len(buff') = Len(buff) + Chunk
    BY <1>2, ReadIntoGrown
  <1>4. PICK r \in Request : grown * Chunk <= Len(buff) /\ Len(buff) <= r + (grown + 1) * Chunk
    BY DEF BufferAccounted
  <1>5. r \in Nat
    BY FeedBufferAssumption
  <1>6. grown' * Chunk <= Len(buff') /\ Len(buff') <= r + (grown' + 1) * Chunk
    <2>1. /\ grown' * Chunk = grown * Chunk + Chunk
          /\ (grown' + 1) * Chunk = (grown + 1) * Chunk + Chunk
          /\ grown * Chunk \in Nat
      BY <1>1, OneChunkMore
    <2>2. (grown + 1) * Chunk = grown * Chunk + Chunk
      BY <1>1, OneChunkMore
    <2> DEFINE x == grown * Chunk
               y == (grown + 1) * Chunk
               z == (grown' + 1) * Chunk
               w == grown' * Chunk
    <2>3. /\ x \in Nat /\ y = x + Chunk /\ w = x + Chunk /\ z = y + Chunk
          /\ x <= Len(buff) /\ Len(buff) <= r + y
      BY <1>4, <2>1, <2>2
    <2> HIDE DEF x, y, z, w
    <2>4. w <= Len(buff') /\ Len(buff') <= r + z
      BY <1>1, <1>2, <1>3, <1>5, <2>3
    <2> QED BY <2>4 DEF w, z
  <1> QED BY <1>6 DEF BufferAccounted

\* The feed buffer grows by a Chunk with every read, those that fail
\* included, and shrinks only when a request or a handshake replaces it: its
\* length is that of the reads since, whatever was received.
THEOREM BufferGrowsWithReads == Spec => []BufferAccounted
  <1>1. Init => FeedInv /\ BufferAccounted
    <2> SUFFICES ASSUME Init PROVE FeedInv /\ BufferAccounted
      OBVIOUS
    <2>1. ops = 1 /\ grown = 0 /\ result = << >>
      BY DEF Init
    <2>2. PICK r \in Request, d \in Datagram : buff = Authenticated(1, r, d)
      BY DEF Init
    <2>3. Written(buff, 1, 1) /\ Len(buff) \in 0..(r + Chunk)
      BY <2>2, AuthenticatedWritten, AuthenticatedLength
    <2>4. grown * Chunk = 0 /\ (grown + 1) * Chunk = Chunk /\ r \in Nat /\ Chunk \in Nat
      BY <2>1, FeedBufferAssumption
    <2> QED BY <2>1, <2>3, <2>4 DEF FeedInv, MessageIsStale, BufferAccounted
  <1>2. FeedInv /\ BufferAccounted /\ [Next]_vars => BufferAccounted'
    <2> SUFFICES ASSUME FeedInv, BufferAccounted, [Next]_vars PROVE BufferAccounted'
      OBVIOUS
    <2>1. ops \in Nat /\ Chunk \in Nat
      BY FeedBufferAssumption DEF FeedInv
    <2>2. ASSUME NEW r \in Request, Send(r) PROVE BufferAccounted'
      <3>1. r \in Nat /\ buff' = Fill(r, ops + 1) /\ grown' = 0
        BY <2>2, FeedBufferAssumption DEF Send, RequestBuffer
      <3>2. Len(buff') = r
        BY <2>1, <3>1, Filled
      <3> QED BY <2>1, <3>1, <3>2, ReplacedAccounted
    <2>3. ASSUME NEW r \in Request, NEW d \in Datagram, Authenticate(r, d) PROVE BufferAccounted'
      <3>1. buff' = Authenticated(ops + 1, r, d) /\ grown' = 0
        BY <2>3 DEF Authenticate
      <3> QED BY <2>1, <3>1, AuthenticatedLength, ReplacedAccounted
    <2>4. ASSUME NEW d \in Datagram \cup {0}, RecFails(d) PROVE BufferAccounted'
      BY <2>4, FeedBufferAssumption, ReadAccounted DEF RecFails
    <2>5. ASSUME NEW d \in Datagram, RecFeedMsg(d) PROVE BufferAccounted'
      BY <2>5, FeedBufferAssumption, ReadAccounted DEF RecFeedMsg
    <2>6. CASE UNCHANGED vars
      BY <2>6 DEF vars, BufferAccounted
    <2> QED BY <2>2, <2>3, <2>4, <2>5, <2>6 DEF Next
  <1> QED BY <1>1, <1>2, FeedNextInv, PTL DEF Spec

-----------------------------------------------------------------------------
(* FlowBuffer.                                                             *)

\* The words a program writes: none is the id that the case of IPv4 expects.
Part ==
    {"zero", "data", "src", "dst", "ports", "OLD1", "OLD2", "src1", "src2", "src3", "src4",
     "dst1", "dst2", "dst3", "dst4", "label", "V6_1", "V6_2"}

\* A word of the buffer after n calls.
Cell(n) == (0..n) \X Part

\* Every word was written by a call made, the last one by a call that filled
\* the buffer.
RelayInv ==
    /\ relayOps \in Nat
    /\ relay \in [1..Size -> Cell(relayOps)]
    /\ Size > 0 => relay[Size] = <<0, "zero">> \/ relay[Size][1] \in filled
    /\ FlowIsStale

\* The words of the two footers: only the one for IPv6 ends in its own id.
LEMMA FlowPartsLength ==
    /\ FlowParts["V4"] \in Seq(Part) /\ Len(FlowParts["V4"]) = 5
    /\ FlowParts["V6"] \in Seq(Part) /\ Len(FlowParts["V6"]) = 12
    /\ FlowParts["V6"][12] = "V6_2"
    /\ \A i \in 1..5 : FlowParts["V4"][i] # "V6_2"
    /\ Family = {"V4", "V6"}
  <1>1. FlowParts["V4"] = <<"src", "dst", "ports", "OLD1", "OLD2">>
    BY DEF FlowParts
  <1>2. FlowParts["V6"] = <<"src1", "src2", "src3", "src4", "dst1", "dst2", "dst3", "dst4",
                            "ports", "label", "V6_1", "V6_2">>
    BY DEF FlowParts
  <1>3. FlowParts["V4"] \in Seq(Part) /\ Len(FlowParts["V4"]) = 5
    BY <1>1 DEF Part
  <1>4. FlowParts["V6"] \in Seq(Part)
    BY <1>2 DEF Part
  <1>5. Len(FlowParts["V6"]) = 12 /\ FlowParts["V6"][12] = "V6_2"
    BY <1>2
  <1>6. \A i \in 1..5 : FlowParts["V4"][i] # "V6_2"
    BY <1>1
  <1>7. Family = {"V4", "V6"}
    BY DEF Family, FlowParts
  <1> QED BY <1>3, <1>4, <1>5, <1>6, <1>7

\* The words of a packet: data, then the flow.
LEMMA DataThenFlow ==
    ASSUME NEW k \in Nat, NEW flow \in Seq(Part)
    PROVE  /\ Payload(k) \o flow \in Seq(Part) /\ Len(Payload(k) \o flow) = k + Len(flow)
           /\ \A i \in 1..(k + Len(flow)) :
                 (Payload(k) \o flow)[i] = IF i <= k THEN "data" ELSE flow[i - k]
  <1>1. "data" \in Part
    BY DEF Part
  <1>2. Payload(k) \in Seq(Part)
    BY <1>1 DEF Payload
  <1>3. Len(Payload(k)) = k /\ \A i \in 1..k : Payload(k)[i] = "data"
    BY DEF Payload
  <1>4. /\ Payload(k) \o flow \in Seq(Part)
        /\ Len(Payload(k) \o flow) = Len(Payload(k)) + Len(flow)
        /\ \A i \in 1..(Len(Payload(k)) + Len(flow)) : (Payload(k) \o flow)[i] =
              IF i <= Len(Payload(k)) THEN Payload(k)[i] ELSE flow[i - Len(Payload(k))]
    BY <1>2, ConcatProperties, Zenon
  <1> QED BY <1>3, <1>4

\* What arrives: data and a footer, whose last word tells the family.
LEMMA PacketParts ==
    ASSUME NEW k \in Nat, NEW fam \in Family
    PROVE  LET parts == Payload(k) \o FlowParts[fam]
           IN  /\ parts \in Seq(Part) /\ Len(parts) = k + (IF fam = "V6" THEN 12 ELSE 5)
               /\ fam = "V6" => parts[k + 12] = "V6_2"
               /\ fam = "V4" => \A i \in 1..(k + 5) : parts[i] # "V6_2"
  <1>1. PICK flow \in Seq(Part) : flow = FlowParts[fam]
    BY FlowPartsLength
  <1>2. PICK parts \in Seq(Part) : parts = Payload(k) \o flow
    BY DataThenFlow
  <1>3. Len(parts) = k + Len(flow)
    BY <1>2, DataThenFlow, Zenon
  <1>4. \A i \in 1..(k + Len(flow)) : parts[i] = IF i <= k THEN "data" ELSE flow[i - k]
    BY <1>2, DataThenFlow, Zenon
  <1>5. Len(flow) = IF fam = "V6" THEN 12 ELSE 5
    BY <1>1, FlowPartsLength
  <1>6. ASSUME fam = "V6" PROVE parts[k + 12] = "V6_2"
    <2>1. Len(flow) = 12 /\ flow[12] = "V6_2"
      BY <1>1, <1>6, FlowPartsLength
    <2> QED BY <1>4, <2>1
  <1>7. ASSUME fam = "V4", NEW i \in 1..(k + 5) PROVE parts[i] # "V6_2"
    <2>1. Len(flow) = 5 /\ \A j \in 1..5 : flow[j] # "V6_2"
      BY <1>1, <1>7, FlowPartsLength
    <2>2. parts[i] = IF i <= k THEN "data" ELSE flow[i - k]
      BY <1>4, <2>1
    <2>3. i <= k \/ i - k \in 1..5
      OBVIOUS
    <2> QED BY <2>1, <2>2, <2>3
  <1>8. Len(parts) = k + (IF fam = "V6" THEN 12 ELSE 5)
    BY <1>3, <1>5
  <1> QED BY <1>1, <1>2, <1>6, <1>7, <1>8, Zenon

\* A cell names the call that wrote it and the word it holds.
LEMMA CellParts ==
    ASSUME NEW n \in Nat
    PROVE  /\ \A x \in Cell(n) : x[1] \in 0..n /\ x[2] \in Part /\ x = <<x[1], x[2]>>
           /\ \A x \in Cell(n) : x \in Cell(n + 1)
           /\ \A p \in Part : <<n, p>> \in Cell(n)
  BY DEF Cell

\* ... and the cells that call number n makes of them.
LEMMA CellsWritten ==
    ASSUME NEW n \in Nat, NEW parts \in Seq(Part)
    PROVE  /\ Len(Cells(n, parts)) = Len(parts)
           /\ \A i \in 1..Len(parts) : Cells(n, parts)[i] = <<n, parts[i]>>
           /\ \A i \in 1..Len(parts) : Cells(n, parts)[i] \in Cell(n)
  <1>1. Len(Cells(n, parts)) = Len(parts)
    BY DEF Cells
  <1>2. \A i \in 1..Len(parts) : Cells(n, parts)[i] = <<n, parts[i]>>
    BY DEF Cells
  <1>3. \A i \in 1..Len(parts) : parts[i] \in Part
    BY ElementOfSeq
  <1> QED BY <1>1, <1>2, <1>3, CellParts, Zenon

\* A footer is found only in at least 12 words that end with that of IPv6,
\* and both addresses are the first four of these.
LEMMA FooterFound ==
    ASSUME NEW n \in Nat, NEW s \in Seq(Cell(n)), FromTailUdpFlow(s).is = "flow"
    PROVE  /\ Len(s) >= 12 /\ s[Len(s)][2] = "V6_2"
           /\ FromTailUdpFlow(s).src = SubSeq(LastCells(s, 12), 1, 4)
           /\ FromTailUdpFlow(s).dst = FromTailUdpFlow(s).src
           /\ DOMAIN FromTailUdpFlow(s) = {"is", "src", "dst", "excess"}
  <1>1. Len(s) >= 2
    BY DEF FromTailUdpFlow, Failure, Nothing
  <1>2. s[Len(s) - 1][2] # "V4|OLD1"
    <2>1. s[Len(s) - 1] \in Cell(n)
      BY <1>1
    <2>2. s[Len(s) - 1][2] \in Part
      BY <2>1, CellParts
    <2> QED BY <2>2 DEF Part
  <1>3. Tail2(s) # <<"V4|OLD1", "V4|OLD2">>
    BY <1>2 DEF Tail2
  <1>4. Tail2(s) = <<"V6_1", "V6_2">> /\ Len(s) >= 12
    BY <1>1, <1>3 DEF FromTailUdpFlow, Failure, Nothing
  <1>5. FromTailUdpFlow(s) = ReadFlow(LastCells(s, 12), 4)
    BY <1>1, <1>3, <1>4 DEF FromTailUdpFlow
  <1>6. s[Len(s)][2] = "V6_2"
    BY <1>4 DEF Tail2
  <1> QED BY <1>4, <1>5, <1>6 DEF ReadFlow, Nothing

\* The two addresses are words of s.
LEMMA AddressWords ==
    ASSUME NEW n \in Nat, NEW s \in Seq(Cell(n)), Len(s) >= 12
    PROVE  LET src == SubSeq(LastCells(s, 12), 1, 4)
           IN  Len(src) = 4 /\ \A i \in DOMAIN src : src[i] \in Cell(n)
  <1>1. /\ LastCells(s, 12) \in Seq(Cell(n)) /\ Len(LastCells(s, 12)) = 12
    BY DEF LastCells
  <1>2. PICK last \in Seq(Cell(n)) : last = LastCells(s, 12) /\ Len(last) = 12
    BY <1>1
  <1>3. /\ Len(SubSeq(last, 1, 4)) = 4 /\ DOMAIN SubSeq(last, 1, 4) = 1..4
        /\ \A i \in 1..4 : SubSeq(last, 1, 4)[i] = last[i]
    BY <1>2
  <1>4. \A i \in 1..4 : last[i] \in Cell(n)
    <2>1. Len(last) = 12
      BY <1>2, Zenon
    <2>2. \A i \in 1..4 : i \in 1..Len(last)
      BY <2>1
    <2> QED BY <2>2, ElementOfSeq, Zenon
  <1> QED BY <1>2, <1>3, <1>4

\* Writing cells of the call keeps what the invariant says of the words.
LEMMA OverwriteKeeps ==
    ASSUME RelayInv, relayOps' = relayOps + 1, NEW parts \in Seq(Part), NEW at \in Nat,
           Overwrite(at, Cells(relayOps + 1, parts)), Size \in Nat
    PROVE  /\ relay' \in [1..Size -> Cell(relayOps')]
           /\ Size > 0 => relay'[Size] = <<0, "zero">> \/ relay'[Size][1] \in filled'
           /\ \A i \in 1..Size : i - at \in 1..Len(parts) =>
                 relay'[i] = <<relayOps', parts[i - at]>>
           /\ \A i \in 1..Size : i - at \notin 1..Len(parts) => relay'[i] = relay[i]
           /\ filled \subseteq filled'
  <1>0. relayOps \in Nat /\ relayOps + 1 \in Nat
    BY DEF RelayInv
  <1>1. /\ Len(Cells(relayOps + 1, parts)) = Len(parts)
        /\ \A i \in 1..Len(parts) : Cells(relayOps + 1, parts)[i] = <<relayOps + 1, parts[i]>>
        /\ \A i \in 1..Len(parts) : Cells(relayOps + 1, parts)[i] \in Cell(relayOps + 1)
    BY <1>0, CellsWritten
  <1>2. PICK c : c = Cells(relayOps + 1, parts)
    OBVIOUS
  <1>3. /\ Len(c) = Len(parts)
        /\ \A i \in 1..Len(parts) : c[i] = <<relayOps + 1, parts[i]>>
        /\ \A i \in 1..Len(parts) : c[i] \in Cell(relayOps + 1)
    BY <1>1, <1>2, Zenon
  <1>4. /\ relay' = [i \in 1..Size |-> IF i - at \in 1..Len(parts) THEN c[i - at] ELSE relay[i]]
        /\ filled' = IF at + Len(parts) >= Size THEN filled \cup {relayOps'} ELSE filled
    BY <1>2, <1>3, Zenon DEF Overwrite
  <1>5. \A i \in 1..Size : relay[i] \in Cell(relayOps + 1)
    <2>1. \A i \in 1..Size : relay[i] \in Cell(relayOps)
      BY DEF RelayInv
    <2> QED BY <1>0, <2>1, CellParts
  <1>6. relay' \in [1..Size -> Cell(relayOps + 1)]
    BY <1>3, <1>4, <1>5
  <1>7. /\ \A i \in 1..Size : i - at \in 1..Len(parts) =>
                 relay'[i] = <<relayOps', parts[i - at]>>
        /\ \A i \in 1..Size : i - at \notin 1..Len(parts) => relay'[i] = relay[i]
    BY <1>3, <1>4
  <1>8. ASSUME Size > 0 PROVE relay'[Size] = <<0, "zero">> \/ relay'[Size][1] \in filled'
    <2>1. CASE Size - at \in 1..Len(parts)
      <3>1. relay'[Size] = <<relayOps', parts[Size - at]>>
        BY <1>7, <1>8, <2>1
      <3>2. at + Len(parts) >= Size
        BY <2>1
      <3>3. relayOps' \in filled'
        BY <1>4, <3>2
      <3> QED BY <3>1, <3>3
    <2>2. CASE Size - at \notin 1..Len(parts)
      <3>1. relay'[Size] = relay[Size] /\ filled \subseteq filled'
        BY <1>4, <1>7, <1>8, <2>2
      <3> QED BY <1>8, <3>1 DEF RelayInv
    <2> QED BY <2>1, <2>2
  <1>9. filled \subseteq filled'
    BY <1>4
  <1> QED BY <1>6, <1>7, <1>8, <1>9

\* What follows the first m of n words.
LEMMA RestOf ==
    ASSUME NEW S, NEW f, NEW m \in Nat, NEW n \in Nat, m <= n,
           \A i \in (m + 1)..n : f[i] \in S
    PROVE  /\ SubSeq(f, m + 1, n) \in Seq(S)
           /\ Len(SubSeq(f, m + 1, n)) = n - m
           /\ \A i \in 1..(n - m) : SubSeq(f, m + 1, n)[i] = f[m + i]
  <1>1. m + 1 \in Int /\ n \in Int
    OBVIOUS
  <1>2. SubSeq(f, m + 1, n) \in Seq(S)
    BY <1>1, SubSeqProperties
  <1>3. Len(SubSeq(f, m + 1, n)) = n - m
    BY <1>1, SubSeqProperties
  <1>4. \A i \in 1..(n - m) : SubSeq(f, m + 1, n)[i] = f[m + i]
    BY <1>1, SubSeqProperties
  <1> QED BY <1>2, <1>3, <1>4

\* What ReceiveFrom looks at is never of the datagram: a footer there was
\* written before, at the end of the buffer.
LEMMA ReceiveFromInv ==
    ASSUME RelayInv, NEW k \in 0..Size, NEW fam \in Family, ReceiveFrom(k, fam)
    PROVE  RelayInv'
  <1>0. relayOps \in Nat /\ Size \in Nat /\ k \in Nat
    BY FlowBufferAssumption DEF RelayInv
  <1>1. PICK parts \in Seq(Part) :
          /\ parts = Payload(k) \o FlowParts[fam]
          /\ Len(parts) = k + (IF fam = "V6" THEN 12 ELSE 5)
          /\ fam = "V6" => parts[k + 12] = "V6_2"
          /\ fam = "V4" => \A i \in 1..(k + 5) : parts[i] # "V6_2"
    BY <1>0, PacketParts, Zenon
  <1>2. PICK size : size = IF Len(parts) > Size THEN Size ELSE Len(parts)
    OBVIOUS
  <1>3. PICK s : s = AfterDatagram(relay', size)
    OBVIOUS
  <1>4. PICK flow : flow = FromTailUdpFlow(s)
    OBVIOUS
  <1>5. Len(Cells(relayOps + 1, parts)) = Len(parts)
    BY <1>0, CellsWritten
  <1>6. /\ relayOps' = relayOps + 1
        /\ Overwrite(0, Cells(relayOps + 1, parts))
        /\ received' = IF flow.is = "flow"
                       THEN [flow EXCEPT !.excess = (size - FlowLen(flow)) - k] ELSE flow
    BY <1>1, <1>2, <1>3, <1>4, <1>5, Zenon DEF ReceiveFrom
  <1>7. /\ relay' \in [1..Size -> Cell(relayOps')]
        /\ Size > 0 => relay'[Size] = <<0, "zero">> \/ relay'[Size][1] \in filled'
        /\ \A i \in 1..Size : i - 0 \in 1..Len(parts) => relay'[i] = <<relayOps', parts[i - 0]>>
        /\ \A i \in 1..Size : i - 0 \notin 1..Len(parts) => relay'[i] = relay[i]
        /\ filled \subseteq filled'
    BY <1>0, <1>6, OverwriteKeeps
  <1>8. /\ size \in 0..Size
        /\ \A i \in (size + 1)..Size : i - 0 \notin 1..Len(parts)
    <2>1. Len(parts) \in Nat
      OBVIOUS
    <2> QED BY <1>0, <1>2, <2>1
  <1>9. \A i \in (size + 1)..Size : relay'[i] = relay[i] /\ relay[i] \in Cell(relayOps)
    <2>1. \A i \in (size + 1)..Size : i \in 1..Size
      BY <1>0, <1>8
    <2>2. \A i \in 1..Size : relay[i] \in Cell(relayOps)
      BY DEF RelayInv
    <2> QED BY <1>7, <1>8, <2>1, <2>2, Zenon
  <1>10. s = SubSeq(relay', size + 1, Size)
    BY <1>3, Zenon DEF AfterDatagram
  <1>11. /\ s \in Seq(Cell(relayOps)) /\ Len(s) = Size - size
         /\ \A i \in 1..(Size - size) : s[i] = relay'[size + i]
    <2>1. \A i \in (size + 1)..Size : relay'[i] \in Cell(relayOps)
      BY <1>9, Zenon
    <2>2. size \in Nat /\ size <= Size
      BY <1>0, <1>8
    <2>3. SubSeq(relay', size + 1, Size) \in Seq(Cell(relayOps))
      BY <1>0, <2>1, <2>2, RestOf, Zenon
    <2>4. Len(SubSeq(relay', size + 1, Size)) = Size - size
      BY <1>0, <2>1, <2>2, RestOf
    <2>5. \A i \in 1..(Size - size) : SubSeq(relay', size + 1, Size)[i] = relay'[size + i]
      BY <1>0, <2>1, <2>2, RestOf
    <2> QED BY <1>10, <2>3, <2>4, <2>5, Zenon
  <1>12. CASE flow.is # "flow"
    <2>1. received' = flow
      BY <1>6, <1>12
    <2>2. FlowIsStale'
      BY <1>12, <2>1 DEF FlowIsStale
    <2> QED BY <1>0, <1>6, <1>7, <2>2 DEF RelayInv
  <1>13. CASE flow.is = "flow"
    <2>1. /\ Len(s) >= 12 /\ s[Len(s)][2] = "V6_2"
          /\ flow.src = SubSeq(LastCells(s, 12), 1, 4)
          /\ flow.dst = flow.src
          /\ DOMAIN flow = {"is", "src", "dst", "excess"}
      BY <1>0, <1>4, <1>11, <1>13, FooterFound, Zenon
    <2>2. Len(flow.src) = 4 /\ \A i \in DOMAIN flow.src : flow.src[i] \in Cell(relayOps)
      BY <1>0, <1>11, <2>1, AddressWords, Zenon
    <2>3. size = Len(parts) /\ size <= Size - 12 /\ Len(parts) <= Size - 12
      BY <1>0, <1>2, <1>8, <1>11, <2>1
    <2>4. FlowLen(flow) = 12
      BY <2>2, FlowPartsLength DEF FlowLen
    <2>5. /\ received'.src = flow.src /\ received'.dst = flow.dst
          /\ received'.excess = (size - 12) - k
      BY <1>6, <1>13, <2>1, <2>4
    <2>6. \E n \in filled' : n < relayOps' /\ relay'[Size] = <<n, "V6_2">>
      <3>1. /\ relay'[Size] = relay[Size] /\ relay[Size] \in Cell(relayOps)
            /\ s[Len(s)] = relay'[Size]
        <4>1. Size \in (size + 1)..Size /\ Len(s) \in 1..(Size - size) /\ size + Len(s) = Size
          BY <1>0, <1>8, <1>11, <2>3
        <4> QED BY <1>9, <1>11, <4>1
      <3>2. relay[Size][2] = "V6_2"
        BY <2>1, <3>1, Zenon
      <3>3. relay[Size][1] \in 0..relayOps /\ relay[Size] = <<relay[Size][1], relay[Size][2]>>
        BY <1>0, <3>1, CellParts
      <3>4. relay[Size] # <<0, "zero">>
        BY <3>2
      <3>5. relay[Size][1] \in filled
        <4>1. Size > 0
          BY <1>0, <1>8, <2>3
        <4> QED BY <3>4, <4>1 DEF RelayInv
      <3>6. relay[Size][1] < relayOps'
        BY <1>0, <1>6, <3>3
      <3>7. relay'[Size] = <<relay[Size][1], "V6_2">>
        BY <3>1, <3>2, <3>3, Zenon
      <3>8. relay[Size][1] \in filled'
        BY <1>7, <3>5
      <3> QED BY <3>6, <3>7, <3>8, Zenon
    <2>7. \A i \in DOMAIN received'.src : received'.src[i][1] < relayOps'
      <3>1. \A i \in DOMAIN flow.src : flow.src[i][1] \in 0..relayOps
        BY <1>0, <2>2, CellParts, Zenon
      <3>2. \A x \in 0..relayOps : x < relayOps'
        BY <1>0, <1>6
      <3> QED BY <2>5, <3>1, <3>2, Zenon
    <2>8. received'.excess =
            IF \E i \in 1..Size : relay'[i] = <<relayOps', "V6_2">> THEN 0 ELSE -7
      <3>1. CASE fam = "V6"
        <4>1. k + 12 \in 1..Size /\ (k + 12) - 0 \in 1..Len(parts) /\ (k + 12) - 0 = k + 12
          BY <1>0, <1>1, <2>3, <3>1
        <4>2. relay'[k + 12] = <<relayOps', "V6_2">>
          BY <1>1, <1>7, <3>1, <4>1
        <4>3. received'.excess = 0
          BY <1>0, <1>1, <2>3, <2>5, <3>1
        <4> QED BY <4>1, <4>2, <4>3
      <3>2. CASE fam = "V4"
        <4>1. received'.excess = -7
          BY <1>0, <1>1, <2>3, <2>5, <3>2
        <4>2. ASSUME NEW i \in 1..Size PROVE relay'[i] # <<relayOps', "V6_2">>
          <5>1. CASE i - 0 \in 1..Len(parts)
            <6>1. relay'[i] = <<relayOps', parts[i]>> /\ parts[i] # "V6_2"
              BY <1>0, <1>1, <1>7, <3>2, <5>1
            <6> QED BY <6>1
          <5>2. CASE i - 0 \notin 1..Len(parts)
            <6>1. relay'[i] = relay[i] /\ relay[i] \in Cell(relayOps)
              BY <1>7, <5>2 DEF RelayInv
            <6>2. relay'[i][1] \in 0..relayOps
              BY <1>0, <6>1, CellParts
            <6>3. relay'[i][1] # relayOps'
              BY <1>0, <1>6, <6>2
            <6> QED BY <6>3
          <5> QED BY <5>1, <5>2
        <4> QED BY <4>1, <4>2
      <3> QED BY <3>1, <3>2, FlowPartsLength
    <2>9. received'.dst = received'.src
      BY <2>1, <2>5
    <2>10. FlowIsStale'
      BY <2>6, <2>7, <2>8, <2>9 DEF FlowIsStale
    <2> QED BY <1>0, <1>6, <1>7, <2>10 DEF RelayInv
  <1> QED BY <1>12, <1>13

\* Send appends a flow in the buffer of its caller.
LEMMA SendFlowInv ==
    ASSUME RelayInv, NEW k \in 0..Size, NEW fam \in Family, SendFlow(k, fam)
    PROVE  RelayInv'
  <1>0. relayOps \in Nat /\ Size \in Nat /\ k \in Nat
    BY FlowBufferAssumption DEF RelayInv
  <1>1. relayOps' = relayOps + 1 /\ received' = Nothing
    BY DEF SendFlow
  <1>2. FlowIsStale'
    BY <1>1 DEF FlowIsStale, Nothing
  <1>3. PICK parts \in Seq(Part) : parts = FlowParts[fam]
    BY FlowPartsLength
  <1>4. CASE Overwrite(k, Cells(relayOps + 1, parts))
    <2>1. /\ relay' \in [1..Size -> Cell(relayOps')]
          /\ Size > 0 => relay'[Size] = <<0, "zero">> \/ relay'[Size][1] \in filled'
      BY <1>0, <1>1, <1>4, OverwriteKeeps
    <2> QED BY <1>0, <1>1, <1>2, <2>1 DEF RelayInv
  <1>5. CASE UNCHANGED <<relay, filled>>
    <2>1. relay' \in [1..Size -> Cell(relayOps + 1)]
      <3>1. relay \in [1..Size -> Cell(relayOps)]
        BY DEF RelayInv
      <3> QED BY <1>0, <1>5, <3>1, CellParts
    <2> QED BY <1>0, <1>1, <1>2, <1>5, <2>1 DEF RelayInv
  <1>6. Overwrite(k, Cells(relayOps + 1, parts)) \/ UNCHANGED <<relay, filled>>
    BY <1>3, Zenon DEF SendFlow
  <1> QED BY <1>4, <1>5, <1>6

\* Every call on the relay buffer keeps its invariant.
LEMMA RelayNextInv == RelayInv /\ [RelayNext]_relayVars => RelayInv'
  <1>1. ASSUME RelayInv, UNCHANGED relayVars PROVE RelayInv'
    BY <1>1 DEF relayVars, RelayInv, FlowIsStale
  <1> QED BY <1>1, ReceiveFromInv, SendFlowInv DEF RelayNext

\* Whatever the size of the caller's buffer, the data and the order of calls,
\* ReceiveFrom returns no datagram with its own flow, and the length it
\* returns is right for IPv6 only.
THEOREM FlowIsStaleAlways == RelaySpec => []FlowIsStale
  <1>1. RelayInit => RelayInv
    <2> SUFFICES ASSUME RelayInit PROVE RelayInv
      OBVIOUS
    <2>1. <<0, "zero">> \in Cell(0)
      BY DEF Cell, Part
    <2>2. relay \in [1..Size -> Cell(relayOps)]
      BY <2>1 DEF RelayInit
    <2>3. Size > 0 => relay[Size] = <<0, "zero">>
      BY FlowBufferAssumption DEF RelayInit
    <2>4. FlowIsStale /\ relayOps \in Nat
      BY DEF RelayInit, FlowIsStale, Nothing
    <2> QED BY <2>2, <2>3, <2>4 DEF RelayInv
  <1>2. RelayInv => FlowIsStale
    BY DEF RelayInv
  <1> QED BY <1>1, <1>2, RelayNextInv, PTL DEF RelaySpec

=============================================================================
