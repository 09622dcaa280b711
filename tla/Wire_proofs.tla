---------------------------- MODULE Wire_proofs ----------------------------
(***************************************************************************)
(* Every control message is read back as it was written, for all values of *)
(* all fields and for every length at which the receive buffer cuts it.    *)
(*                                                                         *)
(* What has been written is described without recursion: there is a        *)
(* sequence of suffixes, each of which is the bytes of one field followed  *)
(* by the next suffix.  The reader is always at the beginning of one, or   *)
(* past the end of the bytes.                                              *)
(***************************************************************************)
EXTENDS Wire, SequenceTheorems, TLAPS

\* A received part of a message: the bytes of w are the first ones of s.
StartOf(w, s) ==
    /\ w \in Seq(Byte) /\ s \in Seq(Byte) /\ Len(w) <= Len(s)
    /\ \A i \in 1..Len(w) : w[i] = s[i]

\* A byte is a number.
LEMMA Bytes == 0 \in Byte /\ Byte \subseteq Nat
  BY DEF Byte

\* What a number that is cut short reads as.
LEMMA ZeroBytes == ASSUME NEW n \in Nat PROVE Zero(n) \in Seq(Byte) /\ Len(Zero(n)) = n
  BY Bytes DEF Zero

\* The bytes that a number is written in.
LEMMA NumBytes ==
    ASSUME NEW n \in Byte, NEW w \in Nat PROVE Num(n, w) \in Seq(Byte) /\ Len(Num(n, w)) = w
  BY Bytes DEF Num

\* The two parts into which a read divides the bytes.
LEMMA TakeBytes ==
    ASSUME NEW b \in Seq(Byte), NEW n \in 0..Len(b)
    PROVE  /\ Take(b, n) \in Seq(Byte) /\ Len(Take(b, n)) = n
           /\ \A i \in 1..n : Take(b, n)[i] = b[i]
           /\ Drop(b, n) \in Seq(Byte) /\ Len(Drop(b, n)) = Len(b) - n
           /\ \A i \in 1..(Len(b) - n) : Drop(b, n)[i] = b[n + i]
  BY DEF Take, Drop

\* Bytes written after each other.
LEMMA Joined ==
    ASSUME NEW a \in Seq(Byte), NEW b \in Seq(Byte), NEW s \in Seq(Byte)
    PROVE  /\ a \o b \in Seq(Byte) /\ b \o s \in Seq(Byte)
           /\ Len(a \o b) = Len(a) + Len(b)
           /\ (a \o b) \o s = a \o (b \o s)
  <1>1. a \o b \in Seq(Byte) /\ b \o s \in Seq(Byte) /\ Len(a \o b) = Len(a) + Len(b)
    BY ConcatProperties
  <1>2. (a \o b) \o s = a \o (b \o s)
    BY ConcatAssociative
  <1> QED BY <1>1, <1>2, Zenon

\* A read divides the bytes without losing or adding any.
LEMMA Halves ==
    ASSUME NEW b \in Seq(Byte), NEW n \in 0..Len(b) PROVE Take(b, n) \o Drop(b, n) = b
  <1> DEFINE both == Take(b, n) \o Drop(b, n)
  <1>1. /\ Take(b, n) \in Seq(Byte) /\ Len(Take(b, n)) = n
        /\ \A i \in 1..n : Take(b, n)[i] = b[i]
        /\ Drop(b, n) \in Seq(Byte) /\ Len(Drop(b, n)) = Len(b) - n
        /\ \A i \in 1..(Len(b) - n) : Drop(b, n)[i] = b[n + i]
    BY TakeBytes
  <1>2. /\ both \in Seq(Byte) /\ Len(both) = Len(Take(b, n)) + Len(Drop(b, n))
        /\ \A i \in 1..(Len(Take(b, n)) + Len(Drop(b, n))) :
              both[i] = IF i <= Len(Take(b, n)) THEN Take(b, n)[i]
                        ELSE Drop(b, n)[i - Len(Take(b, n))]
    BY <1>1, ConcatProperties, Zenon
  <1> HIDE DEF both
  <1>3. Len(b) \in Nat /\ n \in Nat /\ n <= Len(b)
    OBVIOUS
  <1>4. both \in Seq(Byte) /\ Len(both) = Len(b)
    BY <1>1, <1>2, <1>3
  <1>5. ASSUME NEW i \in 1..Len(b) PROVE both[i] = b[i]
    <2>1. both[i] = IF i <= n THEN Take(b, n)[i] ELSE Drop(b, n)[i - n]
      BY <1>1, <1>2, <1>3
    <2>2. CASE i <= n
      BY <1>1, <1>3, <2>1, <2>2
    <2>3. CASE ~ (i <= n)
      <3>1. i - n \in 1..(Len(b) - n) /\ n + (i - n) = i
        BY <1>3, <2>3
      <3> QED BY <1>1, <2>1, <2>3, <3>1
    <2> QED BY <2>2, <2>3
  <1>6. both = b
    BY <1>4, <1>5, SeqEqual
  <1> QED BY <1>6 DEF both

\* Where the bytes of e are there, they are read as e and what follows is a
\* part of what was written after it.
LEMMA TakeStart ==
    ASSUME NEW e \in Seq(Byte), NEW s \in Seq(Byte), NEW w, StartOf(w, e \o s), Len(e) <= Len(w)
    PROVE  /\ Take(w, Len(e)) = e
           /\ StartOf(Drop(w, Len(e)), s)
           /\ Len(Drop(w, Len(e))) = Len(w) - Len(e)
  <1>1. /\ e \o s \in Seq(Byte) /\ Len(e \o s) = Len(e) + Len(s)
        /\ \A i \in 1..(Len(e) + Len(s)) :
              (e \o s)[i] = IF i <= Len(e) THEN e[i] ELSE s[i - Len(e)]
    BY ConcatProperties
  <1> DEFINE m == e \o s
  <1>2. /\ w \in Seq(Byte) /\ Len(w) <= Len(e) + Len(s)
        /\ \A i \in 1..Len(w) : w[i] = m[i]
    BY <1>1 DEF StartOf
  <1>3. \A i \in 1..(Len(e) + Len(s)) : m[i] = IF i <= Len(e) THEN e[i] ELSE s[i - Len(e)]
    BY <1>1
  <1> HIDE DEF m
  <1>4. Len(e) \in 0..Len(w)
    BY <1>2
  <1>5. /\ Take(w, Len(e)) \in Seq(Byte) /\ Len(Take(w, Len(e))) = Len(e)
        /\ \A i \in 1..Len(e) : Take(w, Len(e))[i] = w[i]
        /\ Drop(w, Len(e)) \in Seq(Byte) /\ Len(Drop(w, Len(e))) = Len(w) - Len(e)
        /\ \A i \in 1..(Len(w) - Len(e)) : Drop(w, Len(e))[i] = w[Len(e) + i]
    BY <1>2, <1>4, TakeBytes
  <1>6. Take(w, Len(e)) = e
    <2>1. \A i \in 1..Len(e) : Take(w, Len(e))[i] = e[i]
      <3> TAKE i \in 1..Len(e)
      <3>1. i \in 1..Len(w) /\ i \in 1..(Len(e) + Len(s)) /\ i <= Len(e)
        BY <1>2, <1>4
      <3> QED BY <1>2, <1>3, <1>5, <3>1
    <2> QED BY <1>5, <2>1, SeqEqual
  <1>7. \A i \in 1..(Len(w) - Len(e)) : Drop(w, Len(e))[i] = s[i]
    <2> TAKE i \in 1..(Len(w) - Len(e))
    <2>1. /\ Len(e) + i \in 1..Len(w) /\ Len(e) + i \in 1..(Len(e) + Len(s))
          /\ ~ (Len(e) + i <= Len(e)) /\ (Len(e) + i) - Len(e) = i
      BY <1>2, <1>4
    <2> QED BY <1>2, <1>3, <1>5, <2>1
  <1> QED BY <1>2, <1>5, <1>6, <1>7 DEF StartOf

\* The outcome of a read: what it made of a field and what it left.
IsOk(r, v, rest) == r.is = "ok" /\ r.val = v /\ r.rest = rest

\* A read that succeeds returns what it was given to return.
LEMMA OkIsOk == ASSUME NEW v, NEW rest PROVE IsOk(Ok(v, rest), v, rest)
  BY DEF IsOk, Ok

\* ReadU8 to ReadU64.
LEMMA ReadNumStart ==
    ASSUME NEW e \in Seq(Byte), NEW s \in Seq(Byte), NEW w, StartOf(w, e \o s)
    PROVE  \/ /\ Len(e) <= Len(w) /\ IsOk(ReadNum(w, Len(e)), e, Drop(w, Len(e)))
              /\ StartOf(Drop(w, Len(e)), s) /\ Len(Drop(w, Len(e))) = Len(w) - Len(e)
           \/ Len(w) < Len(e) /\ IsOk(ReadNum(w, Len(e)), Zero(Len(e)), << >>)
  <1>1. Len(w) \in Nat /\ Len(e) \in Nat
    BY DEF StartOf
  <1>2. CASE Len(w) < Len(e)
    BY <1>2, OkIsOk DEF ReadNum
  <1>3. CASE ~ (Len(w) < Len(e))
    <2>1. Len(e) <= Len(w)
      BY <1>1, <1>3
    <2>2. ReadNum(w, Len(e)) = Ok(Take(w, Len(e)), Drop(w, Len(e)))
      BY <1>3 DEF ReadNum
    <2>3. /\ Take(w, Len(e)) = e /\ StartOf(Drop(w, Len(e)), s)
          /\ Len(Drop(w, Len(e))) = Len(w) - Len(e)
      BY <2>1, TakeStart
    <2>4. IsOk(ReadNum(w, Len(e)), e, Drop(w, Len(e)))
      BY <2>2, <2>3, OkIsOk
    <2> QED BY <2>1, <2>3, <2>4
  <1> QED BY <1>2, <1>3

\* ReadBuff.
LEMMA ReadBuffStart ==
    ASSUME NEW e \in Seq(Byte), NEW s \in Seq(Byte), NEW w, StartOf(w, e \o s)
    PROVE  \/ /\ Len(e) <= Len(w) /\ IsOk(ReadBuff(w, Len(e)), e, Drop(w, Len(e)))
              /\ StartOf(Drop(w, Len(e)), s) /\ Len(Drop(w, Len(e))) = Len(w) - Len(e)
           \/ Len(w) < Len(e) /\ ReadBuff(w, Len(e)) = Fail("error")
  <1>1. Len(w) \in Nat /\ Len(e) \in Nat
    BY DEF StartOf
  <1>2. CASE Len(w) < Len(e)
    BY <1>2 DEF ReadBuff
  <1>3. CASE ~ (Len(w) < Len(e))
    <2>1. Len(e) <= Len(w)
      BY <1>1, <1>3
    <2>2. ReadBuff(w, Len(e)) = Ok(Take(w, Len(e)), Drop(w, Len(e)))
      BY <1>3 DEF ReadBuff
    <2>3. /\ Take(w, Len(e)) = e /\ StartOf(Drop(w, Len(e)), s)
          /\ Len(Drop(w, Len(e))) = Len(w) - Len(e)
      BY <2>1, TakeStart
    <2>4. IsOk(ReadBuff(w, Len(e)), e, Drop(w, Len(e)))
      BY <2>2, <2>3, OkIsOk
    <2> QED BY <2>1, <2>3, <2>4
  <1> QED BY <1>2, <1>3

\* A field that was written as e is read back whole, or is missing bytes and
\* then an error or zeroed, with nothing left.
ReadsBack(r, v, e, zeroed, w, s) ==
    \/ /\ Len(e) <= Len(w) /\ r.is = "ok" /\ r.val = v
       /\ StartOf(r.rest, s) /\ Len(r.rest) = Len(w) - Len(e)
    \/ /\ Len(w) < Len(e)
       /\ r.is = "error" \/ IsOk(r, zeroed, << >>)

\* The numbers of 4 and 8 bytes: ReadU32 and ReadU64 read what was written, or 0.
LEMMA NumReadsBack ==
    ASSUME NEW f \in {"u32", "u64"}, NEW v \in Value(f), NEW s \in Seq(Byte),
           NEW w, StartOf(w, Write(f, v) \o s)
    PROVE  ReadsBack(Read(f, w), v, Write(f, v), Zeroed(f, v), w, s)
  <1>1. v \in Seq(Byte) /\ Len(v) = Width[f]
    BY DEF Value, Lengths, Width
  <1>2. Write(f, v) = v
    BY DEF Write, Width
  <1>3. Read(f, w) = ReadNum(w, Len(v))
    BY <1>1 DEF Read, Width
  <1>4. Zeroed(f, v) = Zero(Len(v))
    BY DEF Zeroed
  <1>5. StartOf(w, v \o s)
    BY <1>2
  <1> QED BY <1>1, <1>2, <1>3, <1>4, <1>5, ReadNumStart DEF ReadsBack, IsOk

\* The 32 bytes of AgentRegister's signature: ReadBuff reads them or fails.
LEMMA SigReadsBack ==
    ASSUME NEW v \in Value("sig"), NEW s \in Seq(Byte), NEW w, StartOf(w, Write("sig", v) \o s)
    PROVE  ReadsBack(Read("sig", w), v, Write("sig", v), Zeroed("sig", v), w, s)
  <1>1. v \in Seq(Byte) /\ Len(v) = 32
    BY DEF Value, Lengths
  <1>2. Write("sig", v) = v
    BY DEF Write, Width
  <1>3. Read("sig", w) = ReadBuff(w, Len(v))
    BY <1>1 DEF Read, Width
  <1>4. StartOf(w, v \o s)
    BY <1>2
  <1>5. \/ /\ Len(v) <= Len(w) /\ IsOk(ReadBuff(w, Len(v)), v, Drop(w, Len(v)))
           /\ StartOf(Drop(w, Len(v)), s) /\ Len(Drop(w, Len(v))) = Len(w) - Len(v)
        \/ Len(w) < Len(v) /\ ReadBuff(w, Len(v)) = Fail("error")
    BY <1>1, <1>4, ReadBuffStart
  <1>6. Fail("error").is = "error"
    BY DEF Fail
  <1> QED BY <1>2, <1>3, <1>5, <1>6 DEF ReadsBack, IsOk

\* A token behind its length of 8 bytes; without that length it reads as empty.
LEMMA TokenReadsBack ==
    ASSUME NEW v \in Value("token"), NEW s \in Seq(Byte),
           NEW w, StartOf(w, Write("token", v) \o s)
    PROVE  ReadsBack(Read("token", w), v, Write("token", v), Zeroed("token", v), w, s)
  <1> DEFINE n == Num(Len(v), 8)
             r == ReadNum(w, 8)
             rest == Drop(w, 8)
  <1>1. v \in Seq(Byte) /\ Len(v) \in Byte /\ Len(v) \in Nat
    BY DEF Value, Lengths
  <1>2. n \in Seq(Byte) /\ Len(n) = 8 /\ n[1] = 0 /\ n[8] = Len(v)
    <2>1. n \in Seq(Byte) /\ Len(n) = 8
      BY <1>1, NumBytes
    <2>2. n[1] = 0 /\ n[8] = Len(v)
      BY DEF Num
    <2> QED BY <2>1, <2>2
  <1>3. Write("token", v) = n \o v
    BY DEF Write, Width, WriteToken
  <1>4. Read("token", w) = IF r.val[1] # 0 THEN Fail("panic") ELSE ReadBuff(r.rest, r.val[8])
    BY DEF Read, Width, ReadToken
  <1>5. Zeroed("token", v) = << >>
    BY DEF Zeroed
  <1> HIDE DEF n
  <1>6. v \o s \in Seq(Byte) /\ (n \o v) \o s = n \o (v \o s) /\ Len(n \o v) = 8 + Len(v)
    BY <1>1, <1>2, Joined
  <1>7. StartOf(w, n \o (v \o s))
    BY <1>3, <1>6
  <1>8. \/ 8 <= Len(w) /\ IsOk(r, n, rest) /\ StartOf(rest, v \o s) /\ Len(rest) = Len(w) - 8
        \/ Len(w) < 8 /\ IsOk(r, Zero(8), << >>)
    BY <1>2, <1>6, <1>7, ReadNumStart
  <1>9. Len(w) \in Nat
    BY DEF StartOf
  <1>10. CASE 8 <= Len(w) /\ IsOk(r, n, rest) /\ StartOf(rest, v \o s) /\ Len(rest) = Len(w) - 8
    <2>1. Read("token", w) = ReadBuff(rest, Len(v))
      BY <1>2, <1>4, <1>10 DEF IsOk
    <2> HIDE DEF rest, r
    <2>2. \/ /\ Len(v) <= Len(rest) /\ IsOk(ReadBuff(rest, Len(v)), v, Drop(rest, Len(v)))
             /\ StartOf(Drop(rest, Len(v)), s) /\ Len(Drop(rest, Len(v))) = Len(rest) - Len(v)
          \/ Len(rest) < Len(v) /\ ReadBuff(rest, Len(v)) = Fail("error")
      BY <1>1, <1>10, ReadBuffStart
    <2>3. Fail("error").is = "error"
      BY DEF Fail
    <2>4. /\ Len(v) <= Len(rest) => Len(Write("token", v)) <= Len(w)
          /\ Len(rest) < Len(v) => Len(w) < Len(Write("token", v))
          /\ Len(rest) - Len(v) = Len(w) - Len(Write("token", v))
      <3>1. Len(Write("token", v)) = 8 + Len(v)
        BY <1>3, <1>6, Zenon
      <3> QED BY <1>1, <1>9, <1>10, <3>1, SMTT(30)
    <2> QED BY <2>1, <2>2, <2>3, <2>4 DEF ReadsBack, IsOk
  <1>11. CASE Len(w) < 8 /\ IsOk(r, Zero(8), << >>)
    <2>1. Read("token", w) = ReadBuff(<< >>, 0)
      BY <1>4, <1>11 DEF IsOk, Zero
    <2>2. ReadBuff(<< >>, 0) = Ok(<< >>, << >>)
      <3>1. Take(<< >>, 0) = << >> /\ Drop(<< >>, 0) = << >> /\ ~ (Len(<< >>) < 0)
        BY DEF Take, Drop
      <3> QED BY <3>1, Zenon DEF ReadBuff
    <2>3. IsOk(Read("token", w), << >>, << >>)
      BY <2>1, <2>2, OkIsOk
    <2> QED BY <1>1, <1>3, <1>5, <1>6, <1>9, <1>11, <2>3 DEF ReadsBack
  <1> QED BY <1>8, <1>10, <1>11

\* An address has 4 or 16 bytes and 2 of the port.
LEMMA AddrSizes ==
    ASSUME NEW v \in Value("addr")
    PROVE  /\ v \in Seq(Byte) /\ Len(v) \in {6, 18}
           /\ Len(v) - 2 \in {4, 16} /\ Len(v) - 2 \in 0..Len(v)
  <1>1. v \in Seq(Byte) /\ Len(v) \in {6, 18}
    BY DEF Value, Lengths
  <1>2. 6 - 2 \in {4, 16} /\ 6 - 2 \in 0..6 /\ 18 - 2 \in {4, 16} /\ 18 - 2 \in 0..18
    OBVIOUS
  <1> QED BY <1>1, <1>2, Zenon

\* AddressPort: without its port it is read with port 0, without its address it fails.
LEMMA AddrReadsBack ==
    ASSUME NEW v \in Value("addr"), NEW s \in Seq(Byte),
           NEW w, StartOf(w, Write("addr", v) \o s)
    PROVE  ReadsBack(Read("addr", w), v, Write("addr", v), Zeroed("addr", v), w, s)
  <1> DEFINE n == Len(v) - 2
             tag == <<IF Len(v) = 18 THEN 6 ELSE 4>>
             ip == Take(v, n)
             port == Drop(v, n)
             t == ReadNum(w, 1)
             rest == Drop(w, 1)
  <1>1. v \in Seq(Byte) /\ Len(v) \in {6, 18} /\ n \in {4, 16} /\ n \in 0..Len(v)
    BY AddrSizes
  <1>2. ip \in Seq(Byte) /\ Len(ip) = n /\ port \in Seq(Byte) /\ Len(port) = 2
    <2>1. ip \in Seq(Byte) /\ Len(ip) = n /\ port \in Seq(Byte) /\ Len(port) = Len(v) - n
      BY <1>1, TakeBytes, Zenon
    <2>2. Len(v) - n = 2
      BY <1>1
    <2> QED BY <2>1, <2>2
  <1>3. ip \o port = v
    BY <1>1, Halves, Zenon
  <1>4. tag \in Seq(Byte) /\ Len(tag) = 1 /\ tag[1] = IF Len(v) = 18 THEN 6 ELSE 4
    BY DEF Byte
  <1>5. Write("addr", v) = tag \o v
    BY DEF Write, Width, WriteAddr
  <1>6. Zeroed("addr", v) = ip \o Zero(2)
    BY DEF Zeroed
  <1>7. Read("addr", w) = ReadAddr(w)
    BY DEF Read, Width
  <1>8. tag = IF n = 16 THEN <<6>> ELSE <<4>>
    BY <1>1
  <1> HIDE DEF tag, ip, port, n
  <1>9. /\ v \o s \in Seq(Byte) /\ (tag \o v) \o s = tag \o (v \o s)
        /\ Len(tag \o v) = 1 + Len(v)
    BY <1>1, <1>4, Joined
  <1>10. StartOf(w, tag \o (v \o s)) /\ Len(w) \in Nat
    <2>1. StartOf(w, tag \o (v \o s))
      BY <1>5, <1>9, Zenon
    <2>2. w \in Seq(Byte)
      BY DEF StartOf
    <2> QED BY <2>1, <2>2
  <1>11. \/ 1 <= Len(w) /\ IsOk(t, tag, rest) /\ StartOf(rest, v \o s) /\ Len(rest) = Len(w) - 1
         \/ Len(w) < 1 /\ IsOk(t, Zero(1), << >>)
    BY <1>4, <1>9, <1>10, ReadNumStart
  <1>12. CASE 1 <= Len(w) /\ IsOk(t, tag, rest) /\ StartOf(rest, v \o s) /\ Len(rest) = Len(w) - 1
    <2>1. ReadAddr(w) = ReadIPPort(rest, n)
      BY <1>1, <1>8, <1>12 DEF ReadAddr, IsOk
    <2> HIDE DEF rest, t
    <2> DEFINE b == ReadBuff(rest, n)
               rest2 == Drop(rest, n)
               p == ReadNum(b.rest, 2)
    <2>2. port \o s \in Seq(Byte) /\ v \o s = ip \o (port \o s)
      BY <1>2, <1>3, Joined, ZenonT(30)
    <2>3. StartOf(rest, ip \o (port \o s))
      BY <1>12, <2>2
    <2>4. \/ /\ n <= Len(rest) /\ IsOk(b, ip, rest2)
             /\ StartOf(rest2, port \o s) /\ Len(rest2) = Len(rest) - n
          \/ Len(rest) < n /\ b = Fail("error")
      BY <1>2, <2>2, <2>3, ReadBuffStart
    <2>5. ReadIPPort(rest, n) = IF b.is = "ok" THEN Ok(b.val \o p.val, p.rest) ELSE b
      BY DEF ReadIPPort
    <2> HIDE DEF b, rest2
    <2>6. CASE Len(rest) < n /\ b = Fail("error")
      <3>1. b.is = "error"
        BY <2>6 DEF Fail
      <3>2. Read("addr", w).is = "error"
        BY <1>7, <2>1, <2>5, <3>1
      <3>3. Len(w) < 1 + Len(v)
        BY <1>1, <1>10, <1>12, <2>6 DEF n
      <3> QED BY <1>5, <1>9, <3>2, <3>3 DEF ReadsBack
    <2>7. CASE /\ n <= Len(rest) /\ IsOk(b, ip, rest2)
               /\ StartOf(rest2, port \o s) /\ Len(rest2) = Len(rest) - n
      <3>1. ReadIPPort(rest, n) = Ok(ip \o p.val, p.rest) /\ p = ReadNum(rest2, 2)
        BY <2>5, <2>7 DEF IsOk
      <3>2. \/ /\ 2 <= Len(rest2) /\ IsOk(p, port, Drop(rest2, 2))
               /\ StartOf(Drop(rest2, 2), s) /\ Len(Drop(rest2, 2)) = Len(rest2) - 2
            \/ Len(rest2) < 2 /\ IsOk(p, Zero(2), << >>)
        BY <1>2, <2>7, <3>1, ReadNumStart
      <3> HIDE DEF p
      <3>3. IsOk(Read("addr", w), ip \o p.val, p.rest)
        BY <1>7, <2>1, <3>1, OkIsOk
      <3>4. /\ 2 <= Len(rest2) => Len(Write("addr", v)) <= Len(w)
            /\ Len(rest2) < 2 => Len(w) < Len(Write("addr", v))
            /\ Len(rest2) - 2 = Len(w) - Len(Write("addr", v))
        <4>1. Len(Write("addr", v)) = 1 + Len(v)
          BY <1>5, <1>9, Zenon
        <4>2. Len(rest2) = Len(w) - 1 - (Len(v) - 2)
          BY <1>12, <2>7 DEF n
        <4> QED BY <1>1, <1>10, <4>1, <4>2, SMTT(30)
      <3> QED BY <1>3, <1>6, <3>2, <3>3, <3>4 DEF ReadsBack, IsOk
    <2> QED BY <2>4, <2>6, <2>7
  <1>13. CASE Len(w) < 1 /\ IsOk(t, Zero(1), << >>)
    <2>1. Zero(1) # <<4>> /\ Zero(1) # <<6>>
      <3>1. Zero(1)[1] = 0
        BY DEF Zero
      <3> QED BY <3>1
    <2>2. ReadAddr(w) = Fail("error")
      BY <1>13, <2>1 DEF ReadAddr, IsOk
    <2>3. Read("addr", w).is = "error"
      BY <1>7, <2>2 DEF Fail
    <2>4. Len(w) < Len(Write("addr", v))
      BY <1>1, <1>5, <1>9, <1>10, <1>13
    <2> QED BY <2>3, <2>4 DEF ReadsBack
  <1> QED BY <1>11, <1>12, <1>13

\* The fields that a reader takes as its writer gives them.
Plain == {"u32", "u64", "addr", "token", "sig"}

\* Each field that reader and writer share is read back, fails, or is zeroed.
LEMMA PlainReadsBack ==
    ASSUME NEW f \in Plain, NEW v \in Value(f), NEW s \in Seq(Byte),
           NEW w, StartOf(w, Write(f, v) \o s)
    PROVE  ReadsBack(Read(f, w), v, Write(f, v), Zeroed(f, v), w, s)
  <1>1. CASE f \in {"u32", "u64"}
    BY <1>1, NumReadsBack
  <1>2. CASE f = "sig"
    BY <1>2, SigReadsBack
  <1>3. CASE f = "token"
    BY <1>3, TokenReadsBack
  <1>4. CASE f = "addr"
    BY <1>4, AddrReadsBack
  <1> QED BY <1>1, <1>2, <1>3, <1>4 DEF Plain

-----------------------------------------------------------------------------
(* The tables of fields.                                                   *)

\* The kinds of fields that a writer has.
Field ==
    {"u16", "u32", "u64", "proto", "ip", "addr", "sig", "token", "opt32", "opt64",
     "optSession", "found"}

\* Every kind of field has its lengths.
LEMMA Fields == DOMAIN Lengths = Field
  BY DEF Lengths, Field

\* The contents of ControlRequest.
Request == {"Ping", "AgentRegister", "AgentKeepAlive", "SetupUdpChannel", "AgentCheckPortMapping"}

\* The contents of ControlResponse.
Response ==
    {"Pong", "InvalidSignature", "Unauthorized", "RequestQueued", "TryAgainLater",
     "AgentRegistered", "AgentPortMapping", "UdpChannelDetails"}

\* The messages are the requests, the responses and NewClient.
LEMMA Kinds ==
    /\ Kind = Request \cup Response \cup {"NewClient"}
    /\ DOMAIN RequestID = Request /\ DOMAIN ResponseID = Response
  BY DEF Kind, Writer, RequestID, ResponseID, Request, Response

\* The bytes of every field.
LEMMA WriteBytes ==
    ASSUME NEW f \in Field, NEW v \in Value(f)
    PROVE  Write(f, v) \in Seq(Byte) /\ (f \in Plain => Len(Write(f, v)) >= 1)
  <1>1. v \in Seq(Byte) /\ Len(v) \in Lengths[f] /\ Len(v) \in Nat
    BY DEF Value
  <1>2. CASE f \in {"u16", "u32", "u64", "proto", "ip", "sig"}
    <2>1. Write(f, v) = v
      BY <1>2 DEF Write, Width
    <2>2. Len(v) >= 1
      BY <1>1, <1>2 DEF Lengths
    <2> QED BY <1>1, <2>1, <2>2
  <1>3. CASE f = "addr"
    <2> DEFINE tag == <<IF Len(v) = 18 THEN 6 ELSE 4>>
    <2>1. Write(f, v) = tag \o v
      BY <1>3 DEF Write, Width, WriteAddr
    <2>2. tag \in Seq(Byte) /\ Len(tag) = 1
      BY DEF Byte
    <2> HIDE DEF tag
    <2>3. tag \o v \in Seq(Byte) /\ Len(tag \o v) = Len(tag) + Len(v)
      BY <1>1, <2>2, ConcatProperties
    <2> QED BY <1>1, <2>1, <2>2, <2>3
  <1>4. CASE f \in {"opt32", "opt64", "optSession"}
    <2>1. Write(f, v) = IF v = << >> THEN <<0>> ELSE <<1>> \o v
      BY <1>4 DEF Write, Width, WriteOption
    <2>2. <<0>> \in Seq(Byte) /\ <<1>> \in Seq(Byte)
      BY DEF Byte
    <2>3. <<1>> \o v \in Seq(Byte)
      BY <1>1, <2>2, ConcatProperties
    <2> QED BY <1>4, <2>1, <2>2, <2>3 DEF Plain
  <1>5. CASE f = "token"
    <2> DEFINE n == Num(Len(v), 8)
    <2>1. Write(f, v) = n \o v
      BY <1>5 DEF Write, Width, WriteToken
    <2>2. Len(v) \in Byte
      BY <1>1, <1>5 DEF Lengths
    <2>3. n \in Seq(Byte) /\ Len(n) = 8
      BY <2>2, NumBytes
    <2> HIDE DEF n
    <2>4. n \o v \in Seq(Byte) /\ Len(n \o v) = Len(n) + Len(v)
      BY <1>1, <2>3, ConcatProperties
    <2> QED BY <1>1, <2>1, <2>3, <2>4
  <1>6. CASE f = "found"
    <2> DEFINE n == Num(1, 4)
    <2>1. Write(f, v) = IF v = << >> THEN << >> ELSE n \o v
      BY <1>6 DEF Write, Width, WriteFound
    <2>2. 1 \in Byte
      BY DEF Byte
    <2>3. n \in Seq(Byte)
      BY <2>2, NumBytes
    <2> HIDE DEF n
    <2>4. n \o v \in Seq(Byte) /\ << >> \in Seq(Byte)
      BY <1>1, <2>3, ConcatProperties
    <2> QED BY <1>6, <2>1, <2>4 DEF Plain
  <1> QED BY <1>2, <1>3, <1>4, <1>5, <1>6 DEF Field

\* A zeroed field consists of bytes.
LEMMA ZeroedBytes ==
    ASSUME NEW f \in Plain, NEW v \in Value(f) PROVE Zeroed(f, v) \in Seq(Byte)
  <1>1. v \in Seq(Byte) /\ Len(v) \in Nat
    BY DEF Value
  <1>2. CASE f = "addr"
    <2>2. Len(v) - 2 \in 0..Len(v)
      BY <1>2, AddrSizes
    <2>3. Take(v, Len(v) - 2) \in Seq(Byte) /\ Zero(2) \in Seq(Byte)
      BY <1>1, <2>2, TakeBytes, ZeroBytes
    <2>4. Take(v, Len(v) - 2) \o Zero(2) \in Seq(Byte)
      BY <2>3, ConcatProperties, Zenon
    <2> QED BY <1>2, <2>4 DEF Zeroed
  <1>3. CASE f = "token"
    BY <1>3 DEF Zeroed
  <1>4. CASE f \notin {"addr", "token"}
    BY <1>1, <1>4, ZeroBytes DEF Zeroed
  <1> QED BY <1>2, <1>3, <1>4

\* How many fields, from the first on, reader and writer have in common.
Agreed(k) ==
    IF k = "Pong" THEN 6
    ELSE IF k \in {"Ping", "AgentPortMapping"} THEN 0 ELSE Len(Reader[k])

\* The lists that are written out hold fields.
LEMMA TuplesOfFields ==
    /\ Session \in Seq(Field) /\ PortRangeWriter \in Seq(Field) /\ PortRangeReader \in Seq(Field)
    /\ PingWriter \in Seq(Field) /\ PongWriter \in Seq(Field) /\ PongReader \in Seq(Field)
    /\ AgentRegisterWriter \in Seq(Field) /\ UdpChannelWriter \in Seq(Field)
    /\ UdpChannelReader \in Seq(Field) /\ ClaimInstructions \in Seq(Field)
  BY DEF Session, PortRangeWriter, PortRangeReader, PingWriter, PongWriter, PongReader,
         AgentRegisterWriter, UdpChannelWriter, UdpChannelReader, ClaimInstructions, Field

\* The lists that are put together hold fields.
LEMMA ListsOfFields ==
    /\ PingReader \in Seq(Field) /\ CheckPortMappingWriter \in Seq(Field)
    /\ CheckPortMappingReader \in Seq(Field) /\ AgentRegisteredWriter \in Seq(Field)
    /\ PortMappingWriter \in Seq(Field) /\ PortMappingReader \in Seq(Field)
    /\ NewClientWriter \in Seq(Field) /\ NewClientReader \in Seq(Field)
  <1>1. /\ <<"u64", "u32">> \in Seq(Field) /\ <<"u64">> \in Seq(Field)
        /\ <<"found">> \in Seq(Field) /\ <<"addr", "addr">> \in Seq(Field)
    BY DEF Field
  <1>2. \A s, t \in Seq(Field) : s \o t \in Seq(Field)
    BY ConcatProperties
  <1> QED BY <1>1, <1>2, TuplesOfFields, Zenon
          DEF PingReader, CheckPortMappingWriter, CheckPortMappingReader, AgentRegisteredWriter,
              PortMappingWriter, PortMappingReader, NewClientWriter, NewClientReader

\* What the two tables say of each message.
LEMMA Entries ==
    /\ Writer["Ping"] = PingWriter /\ Reader["Ping"] = PingReader
    /\ Writer["AgentRegister"] = AgentRegisterWriter
    /\ Reader["AgentRegister"] = AgentRegisterWriter
    /\ Writer["AgentKeepAlive"] = Session /\ Reader["AgentKeepAlive"] = Session
    /\ Writer["SetupUdpChannel"] = Session /\ Reader["SetupUdpChannel"] = Session
    /\ Writer["AgentCheckPortMapping"] = CheckPortMappingWriter
    /\ Reader["AgentCheckPortMapping"] = CheckPortMappingReader
    /\ Writer["Pong"] = PongWriter /\ Reader["Pong"] = PongReader
    /\ Writer["InvalidSignature"] = << >> /\ Reader["InvalidSignature"] = << >>
    /\ Writer["Unauthorized"] = << >> /\ Reader["Unauthorized"] = << >>
    /\ Writer["RequestQueued"] = << >> /\ Reader["RequestQueued"] = << >>
    /\ Writer["TryAgainLater"] = << >> /\ Reader["TryAgainLater"] = << >>
    /\ Writer["AgentRegistered"] = AgentRegisteredWriter
    /\ Reader["AgentRegistered"] = AgentRegisteredWriter
    /\ Writer["AgentPortMapping"] = PortMappingWriter
    /\ Reader["AgentPortMapping"] = PortMappingReader
    /\ Writer["UdpChannelDetails"] = UdpChannelWriter
    /\ Reader["UdpChannelDetails"] = UdpChannelWriter
    /\ Writer["NewClient"] = NewClientWriter /\ Reader["NewClient"] = NewClientWriter
  BY DEF Writer, Reader, AgentRegisterReader, AgentRegisteredReader, UdpChannelReader,
         UdpChannelWriter, NewClientReader, NewClientWriter

\* Both tables hold lists of fields.
LEMMA TablesOfFields ==
    ASSUME NEW k \in Kind PROVE Writer[k] \in Seq(Field) /\ Reader[k] \in Seq(Field)
  <1>1. << >> \in Seq(Field)
    OBVIOUS
  <1>2. k \in Request \cup Response \cup {"NewClient"}
    BY Kinds
  <1> QED BY <1>1, <1>2, Entries, TuplesOfFields, ListsOfFields, Zenon DEF Request, Response

\* Reader and writer of a message agree on its first fields.
LEMMA TablesAgree ==
    ASSUME NEW k \in Kind, NEW i \in 1..Agreed(k)
    PROVE  Reader[k][i] = Writer[k][i] /\ Writer[k][i] \in Plain
  <1>1. CASE k = "Pong"
    BY <1>1 DEF Agreed, Reader, Writer, PongReader, PongWriter, Plain
  <1>2. CASE k = "AgentRegister"
    BY <1>2 DEF Agreed, Reader, Writer, AgentRegisterReader, AgentRegisterWriter, Plain
  <1>3. CASE k \in {"AgentKeepAlive", "SetupUdpChannel"}
    BY <1>3, Entries DEF Agreed, Session, Plain
  <1>4. CASE k = "AgentCheckPortMapping"
    <2>1. CheckPortMappingReader = <<"u64", "u64", "u64">>
      BY DEF CheckPortMappingReader, Session, PortRangeReader
    <2>2. /\ CheckPortMappingWriter[1] = "u64" /\ CheckPortMappingWriter[2] = "u64"
          /\ CheckPortMappingWriter[3] = "u64"
      BY DEF CheckPortMappingWriter, Session, PortRangeWriter
    <2> QED BY <1>4, <2>1, <2>2 DEF Agreed, Reader, Writer, Plain
  <1>5. CASE k = "AgentRegistered"
    <2>1. /\ AgentRegisteredWriter[1] = "u64" /\ AgentRegisteredWriter[2] = "u64"
          /\ AgentRegisteredWriter[3] = "u64" /\ AgentRegisteredWriter[4] = "u64"
          /\ Len(AgentRegisteredWriter) = 4
      BY DEF AgentRegisteredWriter, Session
    <2>2. Reader[k] = AgentRegisteredWriter /\ Writer[k] = AgentRegisteredWriter
      BY <1>5, Entries, Zenon
    <2>3. Agreed(k) = 4
      BY <1>5, <2>1, <2>2 DEF Agreed
    <2> QED BY <2>1, <2>2, <2>3 DEF Plain
  <1>6. CASE k = "UdpChannelDetails"
    BY <1>6 DEF Agreed, Reader, Writer, UdpChannelReader, UdpChannelWriter, Plain
  <1>7. CASE k = "NewClient"
    <2>1. /\ NewClientWriter[1] = "addr" /\ NewClientWriter[2] = "addr"
          /\ NewClientWriter[3] = "addr" /\ NewClientWriter[4] = "token"
          /\ NewClientWriter[5] = "u64" /\ NewClientWriter[6] = "u32"
          /\ Len(NewClientWriter) = 6
      BY DEF NewClientWriter, ClaimInstructions
    <2>2. Reader[k] = NewClientWriter /\ Writer[k] = NewClientWriter
      BY <1>7, Entries, Zenon
    <2>3. Agreed(k) = 6
      BY <1>7, <2>1, <2>2 DEF Agreed
    <2> QED BY <2>1, <2>2, <2>3 DEF Plain
  <1>8. CASE k \in {"InvalidSignature", "Unauthorized", "RequestQueued", "TryAgainLater"}
    BY <1>8 DEF Agreed, Reader
  <1>9. CASE k \in {"Ping", "AgentPortMapping"}
    BY <1>9 DEF Agreed
  <1> QED BY <1>1, <1>2, <1>3, <1>4, <1>5, <1>6, <1>7, <1>8, <1>9, Kinds DEF Request, Response

\* Where reader and writer of a message agree, and for how many fields.
LEMMA TableLengths ==
    ASSUME NEW k \in Kind
    PROVE  /\ Agreed(k) \in Nat /\ Agreed(k) <= Len(Writer[k]) /\ Agreed(k) <= Len(Reader[k])
           /\ k \in Symmetric => Agreed(k) = Len(Writer[k]) /\ Agreed(k) = Len(Reader[k])
           /\ k = "Pong" => Len(Reader[k]) = 7 /\ Reader[k][7] = "u64"
                            /\ Len(Writer[k]) = 7 /\ Writer[k][7] = "opt64"
           /\ k = "AgentPortMapping" => Len(Reader[k]) = 1 /\ Reader[k][1] = "found"
                                        /\ Len(Writer[k]) >= 1 /\ Writer[k][1] = "ip"
           /\ k = "AgentCheckPortMapping" => Agreed(k) = Len(Reader[k])
  <1>1. Len(Reader[k]) \in Nat /\ Len(Writer[k]) \in Nat
    BY TablesOfFields
  <1>2. CASE k = "Pong"
    BY <1>2 DEF Agreed, Reader, Writer, PongReader, PongWriter, Symmetric
  <1>3. CASE k = "AgentCheckPortMapping"
    <2>1. Len(CheckPortMappingReader) = 3 /\ Len(CheckPortMappingWriter) = 7
      BY DEF CheckPortMappingReader, CheckPortMappingWriter, Session,
             PortRangeReader, PortRangeWriter
    <2>2. Reader[k] = CheckPortMappingReader /\ Writer[k] = CheckPortMappingWriter
      BY <1>3, Entries, Zenon
    <2>3. Agreed(k) = Len(Reader[k])
      BY <1>3 DEF Agreed
    <2>4. Len(Reader[k]) = 3 /\ Len(Writer[k]) = 7
      BY <2>1, <2>2, Zenon
    <2>5. k \notin Symmetric /\ k # "Pong" /\ k # "AgentPortMapping"
      BY <1>3 DEF Symmetric
    <2> QED BY <2>3, <2>4, <2>5
  <1>4. CASE k = "AgentPortMapping"
    <2>1. /\ Len(PortMappingReader) = 1 /\ PortMappingReader[1] = "found"
          /\ Len(PortMappingWriter) = 5 /\ PortMappingWriter[1] = "ip"
      BY DEF PortMappingReader, PortMappingWriter, PortRangeReader, PortRangeWriter
    <2> QED BY <1>4, <2>1 DEF Agreed, Reader, Writer, Symmetric
  <1>5. CASE k = "Ping"
    BY <1>1, <1>5 DEF Agreed, Symmetric
  <1>6. CASE k \notin {"Pong", "AgentCheckPortMapping", "AgentPortMapping", "Ping"}
    <2>1. Reader[k] = Writer[k]
      <3>1. k \in Request \cup Response \cup {"NewClient"}
        BY Kinds
      <3> QED BY <1>6, <3>1, Entries, Zenon DEF Request, Response
    <2> QED BY <1>1, <1>6, <2>1 DEF Agreed
  <1> QED BY <1>2, <1>3, <1>4, <1>5, <1>6

-----------------------------------------------------------------------------
(* What is left to be read of the bytes s: all of them, or, after a cut,   *)
(* the first ones.                                                         *)

IsPart(w, c, s) == StartOf(w, s) /\ (~ c => Len(w) = Len(s))

\* A field read from a part of the message: as written, or, after a cut only, an
\* error or zeroed with nothing left.
LEMMA PartReadsBack ==
    ASSUME NEW f \in Plain, NEW v \in Value(f), NEW s \in Seq(Byte), NEW c,
           NEW w, IsPart(w, c, Write(f, v) \o s)
    PROVE  \/ Read(f, w).is = "ok" /\ Read(f, w).val = v /\ IsPart(Read(f, w).rest, c, s)
           \/ c /\ Read(f, w).is = "error"
           \/ c /\ IsOk(Read(f, w), Zeroed(f, v), << >>)
  <1> DEFINE e == Write(f, v)
             r == Read(f, w)
  <1>1. ReadsBack(r, v, e, Zeroed(f, v), w, s)
    BY PlainReadsBack DEF IsPart
  <1>2. e \in Seq(Byte)
    BY WriteBytes DEF Plain, Field
  <1> HIDE DEF e, r
  <1>3. Len(e \o s) = Len(e) + Len(s) /\ Len(e) \in Nat /\ Len(s) \in Nat
    BY <1>2, ConcatProperties
  <1>4. w \in Seq(Byte) /\ (~ c => Len(w) = Len(e) + Len(s))
    BY <1>3 DEF IsPart, StartOf, e
  <1>5. ~ c => r.is = "ok" /\ r.val = v /\ StartOf(r.rest, s) /\ Len(r.rest) = Len(s)
    BY <1>1, <1>3, <1>4 DEF ReadsBack
  <1>6. c => \/ r.is = "ok" /\ r.val = v /\ StartOf(r.rest, s)
             \/ r.is = "error" \/ IsOk(r, Zeroed(f, v), << >>)
    BY <1>1 DEF ReadsBack
  <1> QED BY <1>5, <1>6 DEF IsPart, r

\* A field after the last byte.
LEMMA NothingReads ==
    ASSUME NEW f \in Plain, NEW v \in Value(f)
    PROVE  Read(f, << >>).is = "error" \/ IsOk(Read(f, << >>), Zeroed(f, v), << >>)
  <1> DEFINE e == Write(f, v)
  <1>1. e \in Seq(Byte) /\ Len(e) >= 1
    BY WriteBytes DEF Plain, Field
  <1>2. e \o << >> = e
    BY <1>1, ConcatEmptySeq
  <1>3. << >> \in Seq(Byte) /\ Len(<< >>) = 0
    OBVIOUS
  <1>4. StartOf(<< >>, e)
    BY <1>1, <1>3 DEF StartOf
  <1>5. StartOf(<< >>, e \o << >>)
    BY <1>2, <1>4
  <1>6. ReadsBack(Read(f, << >>), v, e, Zeroed(f, v), << >>, << >>)
    BY <1>3, <1>5, PlainReadsBack, Zenon
  <1> HIDE DEF e
  <1> QED BY <1>1, <1>3, <1>6 DEF ReadsBack

\* ControlRpcMessage with the id of its content.
Rpc(n) == Num(9, 8) \o Num(n, 4)

\* The request id and the id of the content take 8 and 4 bytes.
LEMMA RpcBytes ==
    ASSUME NEW n \in 1..8
    PROVE  /\ Num(9, 8) \in Seq(Byte) /\ Len(Num(9, 8)) = 8
           /\ Num(n, 4) \in Seq(Byte) /\ Len(Num(n, 4)) = 4
           /\ Rpc(n) \in Seq(Byte) /\ Len(Rpc(n)) = 12
  <1>1. 9 \in Byte /\ n \in Byte
    BY DEF Byte
  <1>2. /\ Num(9, 8) \in Seq(Byte) /\ Len(Num(9, 8)) = 8
        /\ Num(n, 4) \in Seq(Byte) /\ Len(Num(n, 4)) = 4
    BY <1>1, NumBytes
  <1>3. /\ Num(9, 8) \o Num(n, 4) \in Seq(Byte)
        /\ Len(Num(9, 8) \o Num(n, 4)) = Len(Num(9, 8)) + Len(Num(n, 4))
    BY <1>2, ConcatProperties, Zenon
  <1>4. 8 + 4 = 12
    OBVIOUS
  <1>5. Rpc(n) \in Seq(Byte) /\ Len(Rpc(n)) = 12
    BY <1>2, <1>3, <1>4, Zenon DEF Rpc
  <1> QED BY <1>2, <1>5

\* The ids of the writers are those of the readers, but for Ping, whose id 6 no
\* reader knows.
LEMMA IDs ==
    /\ \A k \in Request : RequestID[k] \in 1..8
    /\ \A k \in Request \ {"Ping"} : RequestID[k] \in 1..5 /\ RequestOf[RequestID[k]] = k
    /\ RequestID["Ping"] = 6 /\ DOMAIN RequestOf = 1..5
    /\ \A k \in Response : ResponseID[k] \in 1..8 /\ ResponseOf[ResponseID[k]] = k
    /\ DOMAIN ResponseOf = 1..8
  BY DEF RequestID, RequestOf, ResponseID, ResponseOf, Request, Response

\* What precedes the fields of each message.
LEMMA Headers ==
    ASSUME NEW k \in Kind
    PROVE  /\ Header(k) \in Seq(Byte)
           /\ k \in Request => Header(k) = Rpc(RequestID[k])
           /\ k \in Response => Header(k) = Num(1, 4) \o Rpc(ResponseID[k])
           /\ k = "NewClient" => Header(k) = Num(2, 4)
  <1>1. 1 \in 1..8 /\ 2 \in 1..8
    OBVIOUS
  <1>2. Num(1, 4) \in Seq(Byte) /\ Num(2, 4) \in Seq(Byte)
    BY <1>1, RpcBytes
  <1>3. CASE k \in Request
    <2>1. Header(k) = Rpc(RequestID[k])
      BY <1>3, Kinds, Zenon DEF Header, Rpc
    <2>2. Rpc(RequestID[k]) \in Seq(Byte)
      BY <1>3, IDs, RpcBytes
    <2>3. k \notin Response /\ k # "NewClient"
      BY <1>3 DEF Request, Response
    <2> QED BY <1>3, <2>1, <2>2, <2>3
  <1>4. CASE k \in Response
    <2>1. k \notin Request /\ k # "NewClient"
      BY <1>4 DEF Request, Response
    <2> DEFINE n == ResponseID[k]
    <2>2. n \in 1..8
      BY <1>4, IDs
    <2>3. Header(k) = (Num(1, 4) \o Num(9, 8)) \o Num(n, 4)
      BY <2>1, Kinds, Zenon DEF Header
    <2> HIDE DEF n
    <2>4. /\ Num(9, 8) \in Seq(Byte) /\ Num(n, 4) \in Seq(Byte) /\ Rpc(n) \in Seq(Byte)
      BY <2>2, RpcBytes
    <2>5. Header(k) = Num(1, 4) \o Rpc(n)
      BY <1>2, <2>3, <2>4, Joined, ZenonT(30) DEF Rpc
    <2>6. Num(1, 4) \o Rpc(n) \in Seq(Byte)
      BY <1>2, <2>4, ConcatProperties, Zenon
    <2> QED BY <1>4, <2>1, <2>5, <2>6, Zenon DEF n
  <1>5. CASE k = "NewClient"
    <2>1. k \notin Request /\ k \notin Response
      BY <1>5 DEF Request, Response
    <2> QED BY <1>2, <1>5, <2>1, Kinds, Zenon DEF Header
  <1> QED BY <1>3, <1>4, <1>5, Kinds

\* Ids are told apart, and none reads like an id that is cut short.
LEMMA NumsDiffer ==
    ASSUME NEW i \in 1..8
    PROVE  Num(i, 4) # Zero(4) /\ \A n \in 1..8 : Num(i, 4) = Num(n, 4) => i = n
  <1>1. Num(i, 4)[4] = i /\ Zero(4)[4] = 0
    BY DEF Num, Zero
  <1>2. \A n \in 1..8 : Num(n, 4)[4] = n
    BY DEF Num
  <1> QED BY <1>1, <1>2

\* The number of a feed or of a content is read as it was written or, where
\* the message was cut, as 0.
LEMMA IdReads ==
    ASSUME NEW n \in 1..8, NEW s \in Seq(Byte), NEW c, NEW w, IsPart(w, c, Num(n, 4) \o s)
    PROVE  \/ ReadNum(w, 4).val = Num(n, 4) /\ IsPart(ReadNum(w, 4).rest, c, s)
           \/ c /\ ReadNum(w, 4).val = Zero(4)
  <1> DEFINE e == Num(n, 4)
  <1>1. e \in Seq(Byte) /\ Len(e) = 4
    BY RpcBytes
  <1> HIDE DEF e
  <1>2. Len(e \o s) = 4 + Len(s) /\ Len(s) \in Nat
    <2>1. Len(e \o s) = Len(e) + Len(s)
      BY <1>1, ConcatProperties, Zenon
    <2> QED BY <1>1, <2>1
  <1>3. StartOf(w, e \o s) /\ Len(w) \in Nat /\ (~ c => Len(w) = 4 + Len(s))
    BY <1>2 DEF IsPart, StartOf, e
  <1>4. \/ /\ 4 <= Len(w) /\ IsOk(ReadNum(w, 4), e, Drop(w, 4))
           /\ StartOf(Drop(w, 4), s) /\ Len(Drop(w, 4)) = Len(w) - 4
        \/ Len(w) < 4 /\ IsOk(ReadNum(w, 4), Zero(4), << >>)
    BY <1>1, <1>3, ReadNumStart
  <1>5. CASE Len(w) < 4 /\ IsOk(ReadNum(w, 4), Zero(4), << >>)
    <2>1. c \/ ~ c
      OBVIOUS
    <2> QED BY <1>2, <1>3, <1>5, <2>1 DEF IsOk
  <1>6. CASE /\ 4 <= Len(w) /\ IsOk(ReadNum(w, 4), e, Drop(w, 4))
             /\ StartOf(Drop(w, 4), s) /\ Len(Drop(w, 4)) = Len(w) - 4
    BY <1>2, <1>3, <1>6 DEF IsOk, IsPart, e
  <1> QED BY <1>4, <1>5, <1>6

\* The id of the content is read as written, or as 0 after a cut.
LEMMA RpcReads ==
    ASSUME NEW n \in 1..8, NEW s \in Seq(Byte), NEW c, NEW w, IsPart(w, c, Rpc(n) \o s)
    PROVE  LET id == ReadNum(ReadNum(w, 8).rest, 4)
           IN  \/ id.val = Num(n, 4) /\ IsPart(id.rest, c, s)
               \/ c /\ id.val = Zero(4)
  <1> DEFINE e == Num(9, 8)
             t == Num(n, 4)
             r == ReadNum(w, 8)
  <1>1. /\ e \in Seq(Byte) /\ Len(e) = 8 /\ t \in Seq(Byte) /\ Len(t) = 4
        /\ Rpc(n) = e \o t
    BY RpcBytes DEF Rpc
  <1> HIDE DEF e, t
  <1>2. t \o s \in Seq(Byte) /\ Rpc(n) \o s = e \o (t \o s)
    <2>1. t \o s \in Seq(Byte) /\ (e \o t) \o s = e \o (t \o s)
      BY <1>1, Joined
    <2> QED BY <1>1, <2>1, Zenon
  <1>3. Len(e \o (t \o s)) = 8 + Len(t \o s) /\ Len(t \o s) \in Nat
    <2>1. Len(e \o (t \o s)) = Len(e) + Len(t \o s)
      BY <1>1, <1>2, ConcatProperties, Zenon
    <2>2. Len(t \o s) \in Nat
      BY <1>2
    <2> QED BY <1>1, <2>1, <2>2
  <1>4. IsPart(w, c, e \o (t \o s))
    BY <1>2, Zenon
  <1>5. StartOf(w, e \o (t \o s)) /\ Len(w) \in Nat /\ (~ c => Len(w) = 8 + Len(t \o s))
    BY <1>3, <1>4 DEF IsPart, StartOf
  <1>6. \/ /\ 8 <= Len(w) /\ IsOk(r, e, Drop(w, 8))
           /\ StartOf(Drop(w, 8), t \o s) /\ Len(Drop(w, 8)) = Len(w) - 8
        \/ Len(w) < 8 /\ IsOk(r, Zero(8), << >>)
    BY <1>1, <1>2, <1>5, ReadNumStart
  <1>7. CASE Len(w) < 8 /\ IsOk(r, Zero(8), << >>)
    <2>1. c
      BY <1>3, <1>5, <1>7
    <2>2. ReadNum(<< >>, 4) = Ok(Zero(4), << >>)
      BY DEF ReadNum
    <2>3. ReadNum(r.rest, 4).val = Zero(4)
      BY <1>7, <2>2 DEF IsOk, Ok
    <2> QED BY <2>1, <2>3
  <1>8. CASE /\ 8 <= Len(w) /\ IsOk(r, e, Drop(w, 8))
             /\ StartOf(Drop(w, 8), t \o s) /\ Len(Drop(w, 8)) = Len(w) - 8
    <2>1. r.rest = Drop(w, 8)
      BY <1>8 DEF IsOk
    <2>2. IsPart(Drop(w, 8), c, t \o s)
      BY <1>3, <1>5, <1>8 DEF IsPart
    <2>3. IsPart(r.rest, c, Num(n, 4) \o s)
      BY <2>1, <2>2, Zenon DEF t
    <2> HIDE DEF r
    <2> QED BY <2>3, IdReads DEF r
  <1> QED BY <1>6, <1>7, <1>8

-----------------------------------------------------------------------------
(* The fields of a message, one after the other.                           *)

\* The values vs are the first ones of a message k.
ValuesOf(k, vs) ==
    /\ vs \in Seq(Seq(Byte)) /\ Len(vs) <= Len(Writer[k])
    /\ \A i \in 1..Len(vs) : vs[i] \in Value(Writer[k][i])

\* S[i] are the bytes written after the i-th field.
Suffixes(S, k, vs) ==
    /\ S \in [0..Len(vs) -> Seq(Byte)]
    /\ S[Len(vs)] = << >>
    /\ \A i \in 1..Len(vs) : S[i - 1] = Write(Writer[k][i], vs[i]) \o S[i]

\* Every field is written in bytes.
LEMMA FieldWritten ==
    ASSUME NEW k \in Kind, NEW i \in 1..Len(Writer[k]), NEW v \in Value(Writer[k][i])
    PROVE  v \in Seq(Byte) /\ Writer[k][i] \in Field /\ Write(Writer[k][i], v) \in Seq(Byte)
  <1>1. Writer[k] \in Seq(Field)
    BY TablesOfFields
  <1>2. Writer[k][i] \in Field
    BY <1>1, ElementOfSeq
  <1>3. v \in Seq(Byte)
    BY DEF Value
  <1> QED BY <1>2, <1>3, WriteBytes

\* One field more is written: every suffix grows by its bytes.
LEMMA SuffixesGrow ==
    ASSUME NEW k \in Kind, NEW vs, ValuesOf(k, vs), Len(vs) < Len(Writer[k]),
           NEW S, Suffixes(S, k, vs), NEW v \in Value(Writer[k][Len(vs) + 1])
    PROVE  /\ ValuesOf(k, Append(vs, v))
           /\ \E T : /\ Suffixes(T, k, Append(vs, v))
                     /\ T[0] = S[0] \o Write(Writer[k][Len(vs) + 1], v)
  <1> DEFINE n == Len(vs)
             e == Write(Writer[k][n + 1], v)
             new == Append(vs, v)
             T == [i \in 0..(n + 1) |-> IF i <= n THEN S[i] \o e ELSE << >>]
  <1>1. n \in Nat /\ vs \in Seq(Seq(Byte)) /\ Len(Writer[k]) \in Nat
    BY TablesOfFields DEF ValuesOf
  <1>2. n + 1 \in 1..Len(Writer[k])
    BY <1>1
  <1>3. v \in Seq(Byte) /\ e \in Seq(Byte)
    BY <1>2, FieldWritten
  <1>4. /\ new \in Seq(Seq(Byte)) /\ Len(new) = n + 1 /\ new[n + 1] = v
        /\ \A i \in 1..n : new[i] = vs[i]
    BY <1>1, <1>3
  <1>5. ValuesOf(k, new)
    <2>1. \A i \in 1..(n + 1) : i \in 1..n \/ i = n + 1
      BY <1>1
    <2>2. \A i \in 1..n : vs[i] \in Value(Writer[k][i])
      BY DEF ValuesOf
    <2>3. \A i \in 1..(n + 1) : new[i] \in Value(Writer[k][i])
      BY <1>4, <2>1, <2>2, Zenon
    <2>4. n + 1 <= Len(Writer[k])
      BY <1>2
    <2> HIDE DEF new, n
    <2> QED BY <1>4, <2>3, <2>4 DEF ValuesOf
  <1>6. \A i \in 0..n : S[i] \in Seq(Byte)
    BY DEF Suffixes
  <1> HIDE DEF e
  <1>7. \A i \in 0..n : T[i] = S[i] \o e
    BY <1>1
  <1>8. T[n + 1] = << >>
    BY <1>1
  <1>9. T \in [0..(n + 1) -> Seq(Byte)]
    <2>1. \A i \in 0..n : S[i] \o e \in Seq(Byte)
      BY <1>3, <1>6, ConcatProperties
    <2>2. << >> \in Seq(Byte)
      OBVIOUS
    <2>3. \A i \in 0..(n + 1) : i <= n => i \in 0..n
      BY <1>1
    <2>4. \A i \in 0..(n + 1) : (IF i <= n THEN S[i] \o e ELSE << >>) \in Seq(Byte)
      BY <2>1, <2>2, <2>3, Zenon
    <2> QED BY <2>4, Zenon
  <1> HIDE DEF T
  <1>10. ASSUME NEW i \in 1..(n + 1) PROVE T[i - 1] = Write(Writer[k][i], new[i]) \o T[i]
    <2>1. CASE i \in 1..n
      <3> DEFINE d == Write(Writer[k][i], vs[i])
      <3>1. i - 1 \in 0..n /\ i \in 0..n /\ i \in 1..Len(Writer[k])
        BY <1>1, <1>2, <2>1
      <3>2. S[i - 1] = d \o S[i] /\ vs[i] \in Value(Writer[k][i])
        BY <2>1 DEF Suffixes, ValuesOf
      <3>3. d \in Seq(Byte)
        BY <3>1, <3>2, FieldWritten
      <3>4. new[i] = vs[i]
        BY <1>4, <2>1
      <3> HIDE DEF d
      <3>5. S[i] \in Seq(Byte)
        BY <1>6, <3>1
      <3>6. (d \o S[i]) \o e = d \o (S[i] \o e)
        BY <1>3, <3>3, <3>5, Joined, ZenonT(30)
      <3>7. T[i - 1] = S[i - 1] \o e /\ T[i] = S[i] \o e
        BY <1>7, <3>1, Zenon
      <3>8. T[i - 1] = d \o T[i]
        BY <3>2, <3>6, <3>7, Zenon
      <3> QED BY <3>4, <3>8, Zenon DEF d
    <2>2. CASE i = n + 1
      <3>1. n \in 0..n /\ (n + 1) - 1 = n
        BY <1>1
      <3>2. S[n] = << >>
        BY DEF Suffixes
      <3>3. << >> \o e = e /\ e \o << >> = e
        BY <1>3, ConcatEmptySeq
      <3>4. T[n] = e
        BY <1>7, <3>1, <3>2, <3>3, Zenon
      <3>5. T[(n + 1) - 1] = e \o T[n + 1]
        BY <1>8, <3>1, <3>3, <3>4, Zenon
      <3> QED BY <1>4, <2>2, <3>5, Zenon DEF e
    <2>3. i \in 1..n \/ i = n + 1
      BY <1>1
    <2> QED BY <2>1, <2>2, <2>3
  <1>11. Suffixes(T, k, new)
    <2> HIDE DEF new, n
    <2> QED BY <1>4, <1>8, <1>9, <1>10, Zenon DEF Suffixes
  <1>12. T[0] = S[0] \o e
    <2>1. 0 \in 0..n
      BY <1>1
    <2> QED BY <1>7, <2>1
  <1> QED BY <1>5, <1>11, <1>12 DEF e

\* Where the reader is: the fields read are those written and the rest is a
\* part of what follows them; or the bytes have run out, and the fields read
\* since then are zeroed.
ZeroedFrom(k, vs, g) ==
    \E n \in 0..Len(g) :
        \A i \in 1..Len(g) : g[i] = IF i <= n THEN vs[i] ELSE Zeroed(Writer[k][i], vs[i])

Reading(S, k, vs, g, w, c) ==
    \/ IsPart(w, c, S[Len(g)]) /\ \A i \in 1..Len(g) : g[i] = vs[i]
    \/ c /\ w = << >> /\ ZeroedFrom(k, vs, g)

\* One of the fields that both sides share is read: the reader stays within
\* Reading, or fails after a cut.
LEMMA ReadingStep ==
    ASSUME NEW k \in Kind, NEW vs, ValuesOf(k, vs), Len(vs) = Len(Writer[k]),
           NEW S, Suffixes(S, k, vs), NEW g \in Seq(Seq(Byte)), Len(g) < Agreed(k),
           NEW w, NEW c, Reading(S, k, vs, g, w, c)
    PROVE  LET r == Read(Reader[k][Len(g) + 1], w)
           IN  \/ r.is = "ok" /\ r.val \in Seq(Byte)
                  /\ Reading(S, k, vs, Append(g, r.val), r.rest, c)
               \/ c /\ r.is = "error"
  <1> DEFINE j == Len(g) + 1
             f == Writer[k][j]
             v == vs[j]
             r == Read(f, w)
             new == Append(g, r.val)
  <1>1. /\ Len(g) \in Nat /\ Len(vs) \in Nat /\ Agreed(k) \in Nat /\ Agreed(k) <= Len(vs)
    BY TableLengths, TablesOfFields DEF ValuesOf
  <1>2. j \in 1..Agreed(k) /\ j \in 1..Len(vs) /\ j - 1 = Len(g) /\ j \in 0..Len(vs)
    BY <1>1
  <1>3. Reader[k][j] = f /\ f \in Plain
    BY <1>2, TablesAgree
  <1>4. v \in Value(f)
    BY <1>2 DEF ValuesOf
  <1>5. S[Len(g)] = Write(f, v) \o S[j] /\ S[j] \in Seq(Byte)
    BY <1>2 DEF Suffixes
  <1>6. v \in Seq(Byte) /\ Zeroed(f, v) \in Seq(Byte)
    BY <1>3, <1>4, ZeroedBytes DEF Value
  <1>7. ASSUME r.val \in Seq(Byte)
        PROVE  /\ Len(new) = j /\ new[j] = r.val
               /\ \A i \in 1..Len(g) : new[i] = g[i]
               /\ \A i \in 1..j : i \in 1..Len(g) \/ i = j
    BY <1>1, <1>7
  <1> HIDE DEF r, f, v
  <1>8. CASE IsPart(w, c, S[Len(g)]) /\ \A i \in 1..Len(g) : g[i] = vs[i]
    <2>1. IsPart(w, c, Write(f, v) \o S[j])
      BY <1>5, <1>8, Zenon
    <2>2. \/ r.is = "ok" /\ r.val = v /\ IsPart(r.rest, c, S[j])
          \/ c /\ r.is = "error"
          \/ c /\ IsOk(r, Zeroed(f, v), << >>)
      BY <1>3, <1>4, <1>5, <2>1, PartReadsBack DEF r
    <2>3. CASE r.is = "ok" /\ r.val = v /\ IsPart(r.rest, c, S[j])
      <3>1. Len(new) = j /\ \A i \in 1..j : new[i] = vs[i]
        BY <1>6, <1>7, <1>8, <2>3, Zenon DEF v
      <3>2. Reading(S, k, vs, new, r.rest, c)
        BY <2>3, <3>1, Zenon DEF Reading
      <3> QED BY <1>3, <1>6, <2>3, <3>2, Zenon DEF r
    <2>4. CASE c /\ IsOk(r, Zeroed(f, v), << >>)
      <3>1. r.is = "ok" /\ r.val = Zeroed(f, v) /\ r.rest = << >>
        BY <2>4 DEF IsOk
      <3>2. Len(new) = j /\ new[j] = Zeroed(f, v) /\ \A i \in 1..Len(g) : new[i] = vs[i]
        BY <1>6, <1>7, <1>8, <3>1, Zenon
      <3> HIDE DEF new
      <3>3. \A i \in 1..j :
               new[i] = IF i <= Len(g) THEN vs[i] ELSE Zeroed(Writer[k][i], vs[i])
        <4> TAKE i \in 1..j
        <4>1. CASE i <= Len(g)
          <5>1. i \in 1..Len(g)
            BY <1>1, <4>1
          <5> QED BY <3>2, <4>1, <5>1
        <4>2. CASE ~ (i <= Len(g))
          <5>1. i = j
            BY <1>1, <4>2
          <5> QED BY <3>2, <4>2, <5>1, Zenon DEF f, v
        <4> QED BY <4>1, <4>2
      <3>4. Len(g) \in 0..j
        BY <1>1
      <3>5. Reading(S, k, vs, new, r.rest, c)
        BY <2>4, <3>1, <3>2, <3>3, <3>4, Zenon DEF Reading, ZeroedFrom
      <3> QED BY <1>3, <1>6, <3>1, <3>5, Zenon DEF r, new
    <2>5. CASE c /\ r.is = "error"
      BY <1>3, <2>5, Zenon DEF r
    <2> QED BY <2>2, <2>3, <2>4, <2>5
  <1>9. CASE c /\ w = << >> /\ ZeroedFrom(k, vs, g)
    <2>1. r.is = "error" \/ IsOk(r, Zeroed(f, v), << >>)
      BY <1>3, <1>4, <1>9, NothingReads DEF r
    <2>2. CASE r.is = "error"
      BY <1>3, <1>9, <2>2, Zenon DEF r
    <2>3. CASE IsOk(r, Zeroed(f, v), << >>)
      <3>1. r.is = "ok" /\ r.val = Zeroed(f, v) /\ r.rest = << >>
        BY <2>3 DEF IsOk
      <3>2. PICK n \in 0..Len(g) :
               \A i \in 1..Len(g) : g[i] = IF i <= n THEN vs[i] ELSE Zeroed(Writer[k][i], vs[i])
        BY <1>9 DEF ZeroedFrom
      <3>3. Len(new) = j /\ new[j] = Zeroed(f, v) /\ \A i \in 1..Len(g) : new[i] = g[i]
        BY <1>6, <1>7, <3>1, Zenon
      <3> HIDE DEF new
      <3>4. \A i \in 1..j : new[i] = IF i <= n THEN vs[i] ELSE Zeroed(Writer[k][i], vs[i])
        <4> TAKE i \in 1..j
        <4>1. CASE i \in 1..Len(g)
          BY <3>2, <3>3, <4>1, Zenon
        <4>2. CASE i = j
          <5>1. ~ (j <= n)
            BY <1>1
          <5> QED BY <3>3, <4>2, <5>1, Zenon DEF f, v
        <4>3. i \in 1..Len(g) \/ i = j
          BY <1>1
        <4> QED BY <4>1, <4>2, <4>3
      <3>5. n \in 0..j
        BY <1>1
      <3>6. Reading(S, k, vs, new, r.rest, c)
        BY <1>9, <3>1, <3>3, <3>4, <3>5, Zenon DEF Reading, ZeroedFrom
      <3> QED BY <1>3, <1>6, <3>1, <3>6, Zenon DEF r, new
    <2> QED BY <2>1, <2>2, <2>3
  <1> QED BY <1>8, <1>9 DEF Reading

\* The last number of a Pong, read over the option byte.
Far(x) == x = Zero(8) \/ x[1] = 1

\* The option byte becomes the first byte of the expiry: 0 comes alone, and so
\* leaves the number short, and 1 makes the expiry a far one.
LEMMA ExpiryReads ==
    ASSUME NEW vs, ValuesOf("Pong", vs), Len(vs) = 7, NEW S, Suffixes(S, "Pong", vs),
           NEW g, Len(g) = 6, NEW w, NEW c, Reading(S, "Pong", vs, g, w, c)
    PROVE  ReadNum(w, 8).is = "ok" /\ ReadNum(w, 8).val \in Seq(Byte) /\ Far(ReadNum(w, 8).val)
  <1> DEFINE r == ReadNum(w, 8)
             v == vs[7]
             e == Write("opt64", v)
  <1>1. "Pong" \in Kind
    BY Kinds DEF Response
  <1>2. Writer["Pong"][7] = "opt64"
    BY <1>1, TableLengths
  <1>3. v \in Value("opt64")
    BY <1>2 DEF ValuesOf
  <1>4. v \in Seq(Byte) /\ (Len(v) = 0 \/ Len(v) = 8)
    BY <1>3 DEF Value, Lengths
  <1>5. e = IF v = << >> THEN <<0>> ELSE <<1>> \o v
    BY DEF Write, Width, WriteOption
  <1>6. S[6] = e
    <2>1. S[7] = << >> /\ S[7 - 1] = Write(Writer["Pong"][7], vs[7]) \o S[7]
      <3>1. /\ S[Len(vs)] = << >>
            /\ \A i \in 1..Len(vs) : S[i - 1] = Write(Writer["Pong"][i], vs[i]) \o S[i]
        BY Zenon DEF Suffixes
      <3>2. 7 \in 1..7
        OBVIOUS
      <3> QED BY <3>1, <3>2, Zenon
    <2>2. 7 - 1 = 6
      OBVIOUS
    <2>3. e \in Seq(Byte)
      BY <1>3, WriteBytes DEF Field
    <2>4. e \o << >> = e
      BY <2>3, ConcatEmptySeq, Zenon
    <2> QED BY <1>2, <2>1, <2>2, <2>4, Zenon
  <1>7. Zero(8) \in Seq(Byte)
    BY ZeroBytes
  <1> HIDE DEF e, v
  <1>8. CASE c /\ w = << >>
    <2>1. r = Ok(Zero(8), << >>)
      BY <1>8 DEF ReadNum
    <2> QED BY <1>7, <2>1 DEF Ok, Far
  <1>9. CASE IsPart(w, c, S[6])
    <2>1. StartOf(w, e)
      BY <1>6, <1>9 DEF IsPart
    <2>2. w \in Seq(Byte) /\ Len(w) \in Nat
      BY <2>1 DEF StartOf
    <2>3. CASE Len(w) < 8
      <3>1. r = Ok(Zero(8), << >>)
        BY <2>3 DEF ReadNum
      <3> QED BY <1>7, <3>1 DEF Ok, Far
    <2>4. CASE ~ (Len(w) < 8)
      <3>1. r = Ok(Take(w, 8), Drop(w, 8))
        BY <2>4 DEF ReadNum
      <3>2. 8 \in 0..Len(w) /\ 1 \in 1..Len(w) /\ 1 \in 1..8
        BY <2>2, <2>4
      <3>3. Take(w, 8) \in Seq(Byte) /\ Take(w, 8)[1] = w[1]
        BY <2>2, <3>2, TakeBytes
      <3>4. w[1] = e[1] /\ Len(w) <= Len(e)
        BY <2>1, <3>2 DEF StartOf
      <3>5. v # << >>
        <4>1. Len(<<0>>) = 1
          OBVIOUS
        <4>2. Len(e) # 1
          <5>1. ~ (Len(w) <= 1)
            BY <2>2, <2>4
          <5> QED BY <3>4, <5>1, Zenon
        <4>3. e # <<0>>
          BY <4>1, <4>2, Zenon
        <4> QED BY <1>5, <4>3
      <3>6. e[1] = 1
        <4>1. e = <<1>> \o v
          BY <1>5, <3>5
        <4>2. (<<1>> \o v)[1] = 1
          BY <1>4
        <4> QED BY <4>1, <4>2, Zenon
      <3>7. Take(w, 8)[1] = 1
        BY <3>3, <3>4, <3>6
      <3> QED BY <3>1, <3>3, <3>7 DEF Ok, Far
    <2> QED BY <2>3, <2>4
  <1> QED BY <1>8, <1>9 DEF Reading

\* The Found of an AgentPortMapping, read from the bytes of its address.
LEMMA FoundReads ==
    ASSUME NEW vs, ValuesOf("AgentPortMapping", vs), Len(vs) = Len(Writer["AgentPortMapping"]),
           NEW S, Suffixes(S, "AgentPortMapping", vs), NEW g, Len(g) = 0,
           NEW w, NEW c, Reading(S, "AgentPortMapping", vs, g, w, c)
    PROVE  \/ ReadFound(w).is = "error"
           \/ ReadFound(w).is = "panic" /\ Take(vs[1], 4) = Num(1, 4)
  <1> DEFINE k == "AgentPortMapping"
             v == vs[1]
             r == ReadNum(w, 4)
  <1>1. k \in Kind
    BY Kinds DEF Response
  <1>2. Len(vs) >= 1 /\ Len(vs) \in Nat /\ Writer[k][1] = "ip"
    BY <1>1, TableLengths, TablesOfFields
  <1>3. v \in Value("ip")
    BY <1>2 DEF ValuesOf
  <1>4. v \in Seq(Byte) /\ Len(v) >= 4 /\ Len(v) \in Nat
    <2>1. v \in Seq(Byte) /\ Len(v) \in {4, 16}
      BY <1>3 DEF Value, Lengths
    <2>2. 4 >= 4 /\ 16 >= 4 /\ 4 \in Nat /\ 16 \in Nat
      OBVIOUS
    <2> QED BY <2>1, <2>2, Zenon
  <1>5. S[0] = v \o S[1] /\ S[1] \in Seq(Byte)
    <2>1. 1 \in 1..Len(vs) /\ 1 \in 0..Len(vs) /\ 1 - 1 = 0
      BY <1>2
    <2>2. S[1 - 1] = Write(Writer[k][1], vs[1]) \o S[1] /\ S[1] \in Seq(Byte)
      BY <2>1 DEF Suffixes
    <2>3. Write("ip", v) = v
      BY DEF Write, Width
    <2> QED BY <1>2, <2>1, <2>2, <2>3, Zenon
  <1>6. ReadFound(w).is = IF r.val = Num(1, 4) THEN "panic" ELSE "error"
    BY DEF ReadFound, Fail
  <1>7. Zero(4) # Num(1, 4)
    <2>1. 1 \in 1..8
      OBVIOUS
    <2> QED BY <2>1, NumsDiffer
  <1>8. CASE ReadNum(w, 4) = Ok(Zero(4), << >>)
    BY <1>6, <1>7, <1>8 DEF Ok
  <1> HIDE DEF v
  <1>9. CASE c /\ w = << >>
    <2>1. ReadNum(w, 4) = Ok(Zero(4), << >>)
      BY <1>9 DEF ReadNum
    <2> QED BY <1>8, <2>1
  <1>10. CASE IsPart(w, c, S[0]) /\ ~ (Len(w) < 4)
    <2>1. StartOf(w, v \o S[1])
      BY <1>5, <1>10, Zenon DEF IsPart
    <2>2. w \in Seq(Byte) /\ Len(w) \in Nat /\ 4 \in 0..Len(w) /\ 4 \in 0..Len(v)
      BY <1>4, <1>10, <2>1 DEF StartOf
    <2>3. /\ Take(w, 4) \in Seq(Byte) /\ Len(Take(w, 4)) = 4
          /\ Take(v, 4) \in Seq(Byte) /\ Len(Take(v, 4)) = 4
          /\ \A i \in 1..4 : Take(w, 4)[i] = w[i] /\ Take(v, 4)[i] = v[i]
      <3>1. /\ Take(w, 4) \in Seq(Byte) /\ Len(Take(w, 4)) = 4
            /\ \A i \in 1..4 : Take(w, 4)[i] = w[i]
        BY <2>2, TakeBytes, Zenon
      <3>2. v \in Seq(Byte) /\ 4 \in 0..Len(v)
        BY <1>4, <2>2, Zenon
      <3>3. /\ Take(v, 4) \in Seq(Byte) /\ Len(Take(v, 4)) = 4
            /\ \A i \in 1..4 : Take(v, 4)[i] = v[i]
        BY <3>2, TakeBytes, Zenon
      <3> QED BY <3>1, <3>3, Zenon
    <2> DEFINE m == v \o S[1]
    <2>4. \A i \in 1..Len(v) : m[i] = v[i]
      BY <1>4, <1>5, ConcatProperties
    <2>5. \A i \in 1..Len(w) : w[i] = m[i]
      BY <2>1 DEF StartOf
    <2> HIDE DEF m
    <2>6. \A i \in 1..4 : i \in 1..Len(v) /\ i \in 1..Len(w)
      BY <1>4, <2>2
    <2>7. \A i \in 1..4 : Take(w, 4)[i] = Take(v, 4)[i]
      <3> TAKE i \in 1..4
      <3>1. w[i] = m[i] /\ m[i] = v[i]
        BY <2>4, <2>5, <2>6
      <3> QED BY <2>3, <3>1
    <2>8. Take(w, 4) = Take(v, 4)
      BY <2>3, <2>7, SeqEqual
    <2>9. r.val = Take(w, 4)
      BY <1>10 DEF ReadNum, Ok
    <2> QED BY <1>6, <2>8, <2>9, Zenon DEF v
  <1>11. CASE IsPart(w, c, S[0]) /\ Len(w) < 4
    <2>1. ReadNum(w, 4) = Ok(Zero(4), << >>)
      BY <1>11 DEF ReadNum
    <2> QED BY <1>8, <2>1
  <1> QED BY <1>9, <1>10, <1>11 DEF Reading

-----------------------------------------------------------------------------
(* The inductive invariant.                                                *)

\* The fields still to be read.
TodoIs(k, g, t) ==
    /\ g \in Seq(Seq(Byte)) /\ t \in Seq(Field)
    /\ Len(g) <= Len(Reader[k]) /\ Len(t) = Len(Reader[k]) - Len(g)
    /\ \A i \in 1..Len(t) : t[i] = Reader[k][Len(g) + i]

\* Types, and how far each phase has come.
Typed ==
    /\ kind \in Kind /\ ValuesOf(kind, vals)
    /\ pc \in {"write", "read", "done"}
    /\ pc # "write" => Len(vals) = Len(Writer[kind])
    /\ pc # "done" => result = "pending"

\* While the message is written.
Written ==
    /\ as = "none" /\ got = << >>
    /\ \E S : Suffixes(S, kind, vals) /\ wire = Header(kind) \o S[0]

\* While its envelope is read.
InHeader(S) ==
    \/ /\ todo = <<"feed">> /\ kind \notin Request
       /\ IsPart(wire, cut, Header(kind) \o S[0])
    \/ /\ todo = <<"rpc response">> /\ kind \in Response
       /\ IsPart(wire, cut, Rpc(ResponseID[kind]) \o S[0])
    \/ /\ todo = <<"rpc request">> /\ kind \in Request
       /\ IsPart(wire, cut, Rpc(RequestID[kind]) \o S[0])

\* While its fields are read.
InFields(S) ==
    /\ as = kind /\ kind # "Ping" /\ TodoIs(kind, got, todo)
    /\ Len(got) <= Agreed(kind) => Reading(S, kind, vals, got, wire, cut)
    /\ kind = "Pong" /\ Len(got) = 7 => Far(got[7])

\* In every phase the bytes on the wire are accounted for by the values written.
WireInv ==
    /\ Typed
    /\ pc = "write" => Written
    /\ pc = "read" /\ as = "none" => got = << >> /\ \E S : Suffixes(S, kind, vals) /\ InHeader(S)
    /\ pc = "read" /\ as # "none" => \E S : Suffixes(S, kind, vals) /\ InFields(S)
    /\ RoundTrip /\ CutOnlyZeroes /\ PongExpiryIsZeroOrFar

\* What is claimed of a message that has been read.
Goals == RoundTrip /\ CutOnlyZeroes /\ PongExpiryIsZeroOrFar

\* Nothing is claimed before the reader ends.
LEMMA PendingGoals == ASSUME result' = "pending", pc' # "done" PROVE Goals'
  BY DEF Goals, RoundTrip, CutOnlyZeroes, PongExpiryIsZeroOrFar

\* An error is right for every message that was cut, and for the messages
\* whose reader and writer differ.
LEMMA ErrorGoals == ASSUME result' = "error", kind' \in Symmetric => cut' PROVE Goals'
  BY DEF Goals, RoundTrip, CutOnlyZeroes, PongExpiryIsZeroOrFar

\* At first nothing but the header is written.
LEMMA InitInv == Init => WireInv
  <1> SUFFICES ASSUME Init PROVE WireInv
    OBVIOUS
  <1> DEFINE S == [i \in 0..0 |-> << >>]
  <1>1. /\ kind \in Kind /\ pc = "write" /\ vals = << >> /\ wire = Header(kind) /\ cut = FALSE
        /\ as = "none" /\ got = << >> /\ result = "pending"
    BY DEF Init
  <1>2. Len(Writer[kind]) \in Nat /\ Header(kind) \in Seq(Byte)
    BY <1>1, TablesOfFields, Headers
  <1>3. Typed
    <2>1. ValuesOf(kind, << >>)
      BY <1>2 DEF ValuesOf
    <2> QED BY <1>1, <2>1 DEF Typed
  <1>4. Suffixes(S, kind, << >>)
    BY DEF Suffixes
  <1>5. Header(kind) \o S[0] = Header(kind)
    <2>1. S[0] = << >>
      OBVIOUS
    <2> QED BY <1>2, <2>1, ConcatEmptySeq, Zenon
  <1>6. Written
    BY <1>1, <1>4, <1>5, Zenon DEF Written
  <1>7. RoundTrip /\ CutOnlyZeroes /\ PongExpiryIsZeroOrFar
    BY <1>1 DEF RoundTrip, CutOnlyZeroes, PongExpiryIsZeroOrFar
  <1> QED BY <1>1, <1>3, <1>6, <1>7 DEF WireInv

\* A field is written.
LEMMA WriteFieldInv ==
    ASSUME WireInv, NEW v \in Sample(Writer[kind][Len(vals) + 1]), WriteField(v)
    PROVE  WireInv'
  <1> DEFINE n == Len(vals) + 1
             e == Write(Writer[kind][n], v)
  <1>1. /\ pc = "write" /\ kind \in Kind /\ ValuesOf(kind, vals)
        /\ Len(vals) < Len(Writer[kind]) /\ Written /\ result = "pending"
    BY DEF WireInv, Typed, WriteField
  <1>2. /\ vals' = Append(vals, v) /\ kind' = kind /\ pc' = pc /\ cut' = cut /\ as' = as
        /\ got' = got /\ result' = result /\ wire' = wire \o Write(Writer[kind][Len(vals')], v)
    BY DEF WriteField
  <1>3. vals \in Seq(Seq(Byte)) /\ Len(vals) \in Nat /\ Writer[kind] \in Seq(Field)
        /\ n \in 1..Len(Writer[kind])
    BY <1>1, TablesOfFields DEF ValuesOf
  <1>4. v \in Value(Writer[kind][n])
    <2>1. Writer[kind][n] \in Field
      BY <1>3, ElementOfSeq
    <2>2. Sample(Writer[kind][n]) \subseteq Value(Writer[kind][n])
      BY <2>1, Fields, SampleAssumption
    <2> QED BY <2>2
  <1>5. v \in Seq(Byte) /\ e \in Seq(Byte)
    BY <1>1, <1>3, <1>4, FieldWritten
  <1>6. Len(vals') = n /\ wire' = wire \o e
    <2>1. Len(vals') = n
      BY <1>2, <1>3, <1>5
    <2> QED BY <1>2, <2>1, Zenon
  <1>7. PICK S : Suffixes(S, kind, vals) /\ wire = Header(kind) \o S[0]
    BY <1>1 DEF Written
  <1>8. /\ ValuesOf(kind, Append(vals, v))
        /\ \E T : Suffixes(T, kind, Append(vals, v)) /\ T[0] = S[0] \o e
    BY <1>1, <1>4, <1>7, SuffixesGrow
  <1>9. PICK T : Suffixes(T, kind, Append(vals, v)) /\ T[0] = S[0] \o e
    BY <1>8
  <1> HIDE DEF e
  <1>10. wire' = Header(kind) \o T[0]
    <2>1. 0 \in 0..Len(vals)
      BY <1>3
    <2>2. S[0] \in Seq(Byte)
      BY <1>7, <2>1 DEF Suffixes
    <2>3. Header(kind) \in Seq(Byte)
      BY <1>1, Headers
    <2>4. (Header(kind) \o S[0]) \o e = Header(kind) \o (S[0] \o e)
      BY <1>5, <2>2, <2>3, Joined, Zenon
    <2> QED BY <1>6, <1>7, <1>9, <2>4, Zenon
  <1>11. Written'
    <2>1. Suffixes(T, kind', vals') /\ wire' = Header(kind') \o T[0]
      BY <1>2, <1>9, <1>10, Zenon
    <2>2. as' = "none" /\ got' = << >>
      BY <1>1, <1>2 DEF Written
    <2> QED BY <2>1, <2>2, Zenon DEF Written
  <1>12. Typed'
    <2>1. ValuesOf(kind', vals')
      BY <1>2, <1>8, Zenon
    <2> QED BY <1>1, <1>2, <2>1 DEF Typed
  <1>13. Goals'
    BY <1>1, <1>2, PendingGoals
  <1> QED BY <1>1, <1>2, <1>11, <1>12, <1>13 DEF WireInv, Goals

\* The datagram arrives, whole or cut.
LEMMA ReceiveInv ==
    ASSUME WireInv, NEW n \in 0..Len(wire), Receive(n) PROVE WireInv'
  <1>1. /\ pc = "write" /\ kind \in Kind /\ ValuesOf(kind, vals) /\ Written
        /\ Len(vals) = Len(Writer[kind]) /\ result = "pending"
    BY DEF WireInv, Typed, Receive
  <1>2. /\ wire' = Take(wire, n) /\ cut' = (n < Len(wire)) /\ pc' = "read" /\ kind' = kind
        /\ vals' = vals /\ as' = as /\ got' = got /\ result' = result
        /\ todo' = IF kind \in Request THEN <<"rpc request">> ELSE <<"feed">>
    BY Kinds DEF Receive
  <1>3. PICK S : Suffixes(S, kind, vals) /\ wire = Header(kind) \o S[0]
    BY <1>1 DEF Written
  <1>4. wire \in Seq(Byte) /\ Len(wire) \in Nat
    <2>1. 0 \in 0..Len(vals)
      BY <1>1 DEF ValuesOf
    <2>2. S[0] \in Seq(Byte)
      BY <1>3, <2>1 DEF Suffixes
    <2>3. Header(kind) \in Seq(Byte)
      BY <1>1, Headers
    <2>4. Header(kind) \o S[0] \in Seq(Byte)
      BY <2>2, <2>3, ConcatProperties, Zenon
    <2>5. wire \in Seq(Byte)
      BY <1>3, <2>4, Zenon
    <2> QED BY <2>5
  <1>5. IsPart(wire', cut', wire)
    <2>1. /\ Take(wire, n) \in Seq(Byte) /\ Len(Take(wire, n)) = n
          /\ \A i \in 1..n : Take(wire, n)[i] = wire[i]
      BY <1>4, TakeBytes
    <2>2. StartOf(Take(wire, n), wire)
      BY <1>4, <2>1 DEF StartOf
    <2>3. ~ (n < Len(wire)) => Len(Take(wire, n)) = Len(wire)
      BY <1>4, <2>1
    <2> QED BY <1>2, <2>2, <2>3 DEF IsPart
  <1>6. IsPart(wire', cut', Header(kind') \o S[0])
    BY <1>2, <1>3, <1>5, Zenon
  <1>7. InHeader(S)'
    <2>1. CASE kind \in Request
      <3>1. Header(kind') = Rpc(RequestID[kind'])
        BY <1>1, <1>2, <2>1, Headers
      <3>2. IsPart(wire', cut', Rpc(RequestID[kind']) \o S[0])
        BY <1>6, <3>1, Zenon
      <3> QED BY <1>2, <2>1, <3>2, Zenon DEF InHeader
    <2>2. CASE kind \notin Request
      BY <1>2, <1>6, <2>2, Zenon DEF InHeader
    <2> QED BY <2>1, <2>2
  <1>8. Suffixes(S, kind', vals')
    BY <1>2, <1>3, Zenon
  <1>9. as' = "none" /\ got' = << >>
    BY <1>1, <1>2 DEF Written
  <1>10. Typed'
    BY <1>1, <1>2 DEF Typed
  <1>11. Goals'
    BY <1>1, <1>2, PendingGoals
  <1> QED BY <1>2, <1>7, <1>8, <1>9, <1>10, <1>11, Zenon DEF WireInv, Goals

\* A reader that gives up.
LEMMA FailInv ==
    ASSUME WireInv, pc = "read", Finish("error"), kind \in Symmetric => cut PROVE WireInv'
  <1>1. /\ pc' = "done" /\ result' = "error" /\ kind' = kind /\ vals' = vals /\ cut' = cut
    BY DEF Finish
  <1>2. Typed'
    BY <1>1 DEF WireInv, Typed
  <1>3. Goals'
    BY <1>1, ErrorGoals
  <1> QED BY <1>1, <1>2, <1>3 DEF WireInv, Goals

\* A reader that has found out which message it is.
LEMMA EnterInv ==
    ASSUME WireInv, pc = "read", as = "none", NEW S, Suffixes(S, kind, vals), kind # "Ping",
           IsPart(wire', cut, S[0]), todo' = Reader[kind], as' = kind,
           UNCHANGED <<kind, pc, vals, cut, got, result>>
    PROVE  WireInv'
  <1>1. kind \in Kind /\ got = << >> /\ result = "pending"
    BY DEF WireInv, Typed
  <1>2. Reader[kind] \in Seq(Field) /\ Len(Reader[kind]) \in Nat /\ Agreed(kind) \in Nat
    BY <1>1, TablesOfFields, TableLengths
  <1>3. TodoIs(kind, << >>, Reader[kind])
    BY <1>2 DEF TodoIs
  <1>4. Reading(S, kind, vals, << >>, wire', cut)
    BY DEF Reading
  <1>5. InFields(S)'
    <2>1. Len(<< >>) # 7
      OBVIOUS
    <2> QED BY <1>1, <1>3, <1>4, <2>1, Zenon DEF InFields
  <1>6. Typed'
    BY DEF WireInv, Typed
  <1>7. as' # "none"
    BY <1>1, Kinds DEF Request, Response
  <1>8. Goals'
    BY <1>1, PendingGoals
  <1> QED BY <1>5, <1>6, <1>7, <1>8, Zenon DEF WireInv, Goals

\* What follows the header consists of bytes.
LEMMA FirstSuffix ==
    ASSUME NEW k, NEW vs, ValuesOf(k, vs), NEW S, Suffixes(S, k, vs) PROVE S[0] \in Seq(Byte)
  <1>1. 0 \in 0..Len(vs)
    BY DEF ValuesOf
  <1> QED BY <1>1 DEF Suffixes

\* What a sequence of fields holds is a field.
LEMMA NoEnvelope ==
    ASSUME NEW t \in Seq(Field), NEW x, t = <<x>>
    PROVE  x \in Field
  <1>1. Len(t) = 1 /\ t[1] = x
    OBVIOUS
  <1>2. 1 \in 1..1
    OBVIOUS
  <1> QED BY <1>1, <1>2, ElementOfSeq, Zenon

\* No field has the name of an envelope.
LEMMA EnvelopeFirst ==
    ASSUME WireInv, pc = "read",
           todo \in {<<"feed">>, <<"rpc request">>, <<"rpc response">>}
    PROVE  as = "none"
  <1>1. as # "none" => todo \in Seq(Field)
    BY DEF WireInv, InFields, TodoIs
  <1>2. "feed" \notin Field /\ "rpc request" \notin Field /\ "rpc response" \notin Field
    BY DEF Field
  <1> QED BY <1>1, <1>2, NoEnvelope, Zenon

\* ControlFeed.ReadFrom finds the id that was written, or none.
LEMMA ReadFeedInv == ASSUME WireInv, ReadFeed PROVE WireInv'
  <1> DEFINE id == ReadNum(wire, 4)
  <1>1. pc = "read" /\ todo = <<"feed">> /\ wire' = id.rest
    BY DEF ReadFeed
  <1>2. \/ id.val = Num(1, 4) /\ todo' = <<"rpc response">>
           /\ UNCHANGED <<kind, pc, vals, cut, as, got, result>>
        \/ id.val = Num(2, 4) /\ todo' = Reader["NewClient"] /\ as' = "NewClient"
           /\ UNCHANGED <<kind, pc, vals, cut, got, result>>
        \/ id.val \notin {Num(1, 4), Num(2, 4)} /\ Finish("error")
    BY DEF ReadFeed
  <1>3. kind \in Kind /\ ValuesOf(kind, vals) /\ result = "pending"
    BY <1>1 DEF WireInv, Typed
  <1>4. as = "none"
    BY <1>1, EnvelopeFirst
  <1>5. PICK S : Suffixes(S, kind, vals) /\ InHeader(S)
    BY <1>1, <1>4 DEF WireInv
  <1>6. kind \notin Request /\ IsPart(wire, cut, Header(kind) \o S[0])
    BY <1>1, <1>5 DEF InHeader
  <1>7. S[0] \in Seq(Byte)
    BY <1>3, <1>5, FirstSuffix
  <1>8. /\ 1 \in 1..8 /\ 2 \in 1..8
        /\ Num(1, 4) # Zero(4) /\ Num(2, 4) # Zero(4) /\ Num(1, 4) # Num(2, 4)
    <2>1. 1 \in 1..8 /\ 2 \in 1..8 /\ 1 # 2
      OBVIOUS
    <2> QED BY <2>1, NumsDiffer
  <1> HIDE DEF id
  <1>9. CASE kind \in Response
    <2> DEFINE rpc == Rpc(ResponseID[kind])
    <2>1. rpc \in Seq(Byte) /\ Num(1, 4) \in Seq(Byte)
      BY <1>8, <1>9, IDs, RpcBytes
    <2>2. Header(kind) = Num(1, 4) \o rpc
      BY <1>3, <1>9, Headers
    <2> HIDE DEF rpc
    <2>3. /\ rpc \o S[0] \in Seq(Byte)
          /\ (Num(1, 4) \o rpc) \o S[0] = Num(1, 4) \o (rpc \o S[0])
      BY <1>7, <2>1, Joined, Zenon
    <2>4. IsPart(wire, cut, Num(1, 4) \o (rpc \o S[0]))
      BY <1>6, <2>2, <2>3, Zenon
    <2>5. \/ id.val = Num(1, 4) /\ IsPart(id.rest, cut, rpc \o S[0])
          \/ cut /\ id.val = Zero(4)
      BY <1>8, <2>3, <2>4, IdReads DEF id
    <2>6. CASE cut /\ id.val = Zero(4)
      <3>1. Finish("error")
        BY <1>2, <1>8, <2>6, Zenon
      <3> QED BY <1>1, <2>6, <3>1, FailInv
    <2>7. CASE id.val = Num(1, 4) /\ IsPart(id.rest, cut, rpc \o S[0])
      <3>1. todo' = <<"rpc response">> /\ UNCHANGED <<kind, pc, vals, cut, as, got, result>>
        BY <1>2, <1>8, <2>7, Zenon
      <3>2. IsPart(wire', cut', Rpc(ResponseID[kind']) \o S[0])
        BY <1>1, <2>7, <3>1, Zenon DEF rpc
      <3>3. InHeader(S)'
        BY <1>9, <3>1, <3>2, Zenon DEF InHeader
      <3>4. Typed'
        BY <3>1 DEF WireInv, Typed
      <3>5. Goals'
        BY <1>1, <1>3, <3>1, PendingGoals
      <3>6. got = << >>
        BY <1>1, <1>4 DEF WireInv
      <3>7. Suffixes(S, kind', vals')
        BY <1>5, <3>1, Zenon
      <3> QED BY <1>1, <1>4, <3>1, <3>3, <3>4, <3>5, <3>6, <3>7, Zenon DEF WireInv, Goals
    <2> QED BY <2>5, <2>6, <2>7
  <1>10. CASE kind = "NewClient"
    <2>1. Header(kind) = Num(2, 4)
      BY <1>3, <1>10, Headers
    <2>2. IsPart(wire, cut, Num(2, 4) \o S[0])
      BY <1>6, <2>1, Zenon
    <2>3. \/ id.val = Num(2, 4) /\ IsPart(id.rest, cut, S[0])
          \/ cut /\ id.val = Zero(4)
      BY <1>7, <1>8, <2>2, IdReads DEF id
    <2>4. CASE cut /\ id.val = Zero(4)
      <3>1. Finish("error")
        BY <1>2, <1>8, <2>4, Zenon
      <3> QED BY <1>1, <2>4, <3>1, FailInv
    <2>5. CASE id.val = Num(2, 4) /\ IsPart(id.rest, cut, S[0])
      <3>1. /\ todo' = Reader["NewClient"] /\ as' = "NewClient"
            /\ UNCHANGED <<kind, pc, vals, cut, got, result>>
        BY <1>2, <1>8, <2>5, Zenon
      <3>2. IsPart(wire', cut, S[0])
        BY <1>1, <2>5, Zenon
      <3>3. todo' = Reader[kind] /\ as' = kind /\ kind # "Ping"
        BY <1>10, <3>1
      <3> QED BY <1>1, <1>4, <1>5, <3>1, <3>2, <3>3, EnterInv
    <2> QED BY <2>3, <2>4, <2>5
  <1> QED BY <1>3, <1>6, <1>9, <1>10, Kinds

\* The readers of ControlRpcMessage: the content is the one written, or none
\* the reader knows.
LEMMA ReadRpcInv ==
    ASSUME WireInv, pc = "read", as = "none", NEW of, ReadRpc(of),
           NEW S, Suffixes(S, kind, vals), NEW n \in 1..8, IsPart(wire, cut, Rpc(n) \o S[0]),
           DOMAIN of \subseteq 1..8, n \in DOMAIN of => of[n] = kind /\ kind # "Ping",
           n \notin DOMAIN of => kind \notin Symmetric
    PROVE  WireInv'
  <1> DEFINE id == ReadNum(ReadNum(wire, 8).rest, 4)
             known == {i \in DOMAIN of : id.val = Num(i, 4)}
  <1>1. S[0] \in Seq(Byte)
    BY FirstSuffix DEF WireInv, Typed
  <1>2. \/ id.val = Num(n, 4) /\ IsPart(id.rest, cut, S[0])
        \/ cut /\ id.val = Zero(4)
    BY <1>1, RpcReads
  <1>3. /\ wire' = id.rest
        /\ \/ \E i \in known : /\ todo' = Reader[of[i]] /\ as' = of[i]
                               /\ UNCHANGED <<kind, pc, vals, cut, got, result>>
           \/ known = {} /\ Finish("error")
    BY DEF ReadRpc
  <1> HIDE DEF id
  <1>4. CASE cut /\ id.val = Zero(4)
    <2>1. known = {}
      BY <1>4, NumsDiffer
    <2>2. Finish("error")
      BY <1>3, <2>1
    <2> QED BY <1>4, <2>2, FailInv
  <1>5. CASE id.val = Num(n, 4) /\ IsPart(id.rest, cut, S[0])
    <2>1. known = {n} \cap DOMAIN of
      BY <1>5, NumsDiffer
    <2> HIDE DEF known
    <2>2. CASE n \in DOMAIN of
      <3>1. known = {n}
        BY <2>1, <2>2
      <3>2. /\ todo' = Reader[kind] /\ as' = kind
            /\ UNCHANGED <<kind, pc, vals, cut, got, result>>
        BY <1>3, <2>2, <3>1
      <3>3. IsPart(wire', cut, S[0])
        BY <1>3, <1>5, Zenon
      <3> QED BY <2>2, <3>2, <3>3, EnterInv
    <2>3. CASE n \notin DOMAIN of
      <3>1. Finish("error")
        BY <1>3, <2>1, <2>3
      <3> QED BY <2>3, <3>1, FailInv
    <2> QED BY <2>2, <2>3
  <1> QED BY <1>2, <1>4, <1>5

\* ControlRequest.ReadFrom after the request id.
LEMMA ReadRequestInv == ASSUME WireInv, ReadRequest PROVE WireInv'
  <1>1. pc = "read" /\ todo = <<"rpc request">> /\ ReadRpc(RequestOf)
    BY DEF ReadRequest
  <1>2. as = "none"
    BY <1>1, EnvelopeFirst
  <1>3. PICK S : Suffixes(S, kind, vals) /\ InHeader(S)
    BY <1>1, <1>2 DEF WireInv
  <1> DEFINE n == RequestID[kind]
  <1>4. kind \in Request /\ IsPart(wire, cut, Rpc(n) \o S[0])
    BY <1>1, <1>3 DEF InHeader
  <1>5. n \in 1..8 /\ DOMAIN RequestOf = 1..5
    BY <1>4, IDs
  <1>6. kind # "Ping" => n \in DOMAIN RequestOf /\ RequestOf[n] = kind
    BY <1>4, IDs
  <1>7. kind = "Ping" => n \notin DOMAIN RequestOf /\ kind \notin Symmetric
    BY IDs DEF Symmetric
  <1>8. DOMAIN RequestOf \subseteq 1..8
    BY <1>5
  <1> HIDE DEF n
  <1> QED BY <1>1, <1>2, <1>3, <1>4, <1>5, <1>6, <1>7, <1>8, ReadRpcInv

\* ControlResponse.ReadFrom after the request id.
LEMMA ReadResponseInv == ASSUME WireInv, ReadResponse PROVE WireInv'
  <1>1. pc = "read" /\ todo = <<"rpc response">> /\ ReadRpc(ResponseOf)
    BY DEF ReadResponse
  <1>2. as = "none"
    BY <1>1, EnvelopeFirst
  <1>3. PICK S : Suffixes(S, kind, vals) /\ InHeader(S)
    BY <1>1, <1>2 DEF WireInv
  <1> DEFINE n == ResponseID[kind]
  <1>4. kind \in Response /\ IsPart(wire, cut, Rpc(n) \o S[0])
    BY <1>1, <1>3 DEF InHeader
  <1>5. n \in 1..8 /\ DOMAIN ResponseOf = 1..8 /\ ResponseOf[n] = kind
    BY <1>4, IDs
  <1>6. kind # "Ping"
    BY <1>4 DEF Response
  <1> HIDE DEF n
  <1> QED BY <1>1, <1>2, <1>3, <1>4, <1>5, <1>6, ReadRpcInv

\* A count between six and seven.
LEMMA OnlySix == ASSUME NEW n \in Nat, n >= 6, n < 7 PROVE n = 6
  OBVIOUS

\* The fields are read one by one.
LEMMA ReadFieldInv == ASSUME WireInv, ReadField PROVE WireInv'
  <1> DEFINE f == Head(todo)
             r == Read(f, wire)
             j == Len(got) + 1
  <1>1. pc = "read" /\ as # "none" /\ todo # << >>
    BY DEF ReadField
  <1>2. IF r.is = "ok"
        THEN /\ got' = Append(got, r.val) /\ wire' = r.rest /\ todo' = Tail(todo)
             /\ UNCHANGED <<kind, pc, vals, cut, as, result>>
        ELSE Finish(r.is)
    BY DEF ReadField
  <1>3. /\ kind \in Kind /\ ValuesOf(kind, vals) /\ Len(vals) = Len(Writer[kind])
        /\ result = "pending"
    BY <1>1 DEF WireInv, Typed
  <1>4. PICK S : Suffixes(S, kind, vals) /\ InFields(S)
    BY <1>1 DEF WireInv
  <1>5. /\ as = kind /\ kind # "Ping" /\ TodoIs(kind, got, todo)
        /\ Len(got) <= Agreed(kind) => Reading(S, kind, vals, got, wire, cut)
    BY <1>4 DEF InFields
  <1>6. /\ got \in Seq(Seq(Byte)) /\ Len(got) \in Nat
        /\ todo \in Seq(Field) /\ Len(todo) \in Nat /\ Len(todo) >= 1
        /\ Len(Reader[kind]) \in Nat /\ Len(todo) = Len(Reader[kind]) - Len(got)
        /\ \A i \in 1..Len(todo) : todo[i] = Reader[kind][Len(got) + i]
    <2>1. /\ got \in Seq(Seq(Byte)) /\ todo \in Seq(Field)
          /\ Len(todo) = Len(Reader[kind]) - Len(got)
          /\ \A i \in 1..Len(todo) : todo[i] = Reader[kind][Len(got) + i]
      BY <1>5 DEF TodoIs
    <2>2. Len(Reader[kind]) \in Nat
      BY <1>3, TablesOfFields
    <2>3. Len(todo) # 0
      BY <1>1, <2>1, EmptySeq
    <2> QED BY <2>1, <2>2, <2>3
  <1>7. f = Reader[kind][j]
    <2>1. f = todo[1] /\ 1 \in 1..Len(todo)
      BY <1>6
    <2> QED BY <1>6, <2>1
  <1>8. /\ Agreed(kind) \in Nat /\ Agreed(kind) <= Len(vals) /\ Agreed(kind) <= Len(Reader[kind])
        /\ j <= Len(Reader[kind])
    BY <1>3, <1>6, TableLengths
  <1> HIDE DEF r, f
  \* The step where a field is read, with what it leaves.
  <1>9. ASSUME r.is = "ok", r.val \in Seq(Byte),
               j <= Agreed(kind) => Reading(S, kind, vals, Append(got, r.val), r.rest, cut),
               kind = "Pong" /\ j = 7 => Far(r.val)
        PROVE  WireInv'
    <2>1. /\ got' = Append(got, r.val) /\ wire' = r.rest /\ todo' = Tail(todo)
          /\ UNCHANGED <<kind, pc, vals, cut, as, result>>
      BY <1>2, <1>9
    <2>2. got' \in Seq(Seq(Byte)) /\ Len(got') = j /\ got'[j] = r.val
      BY <1>6, <1>9, <2>1
    <2>3. TodoIs(kind, got', todo')
      <3>1. /\ todo' \in Seq(Field) /\ Len(todo') = Len(todo) - 1
            /\ \A i \in 1..(Len(todo) - 1) : todo'[i] = todo[i + 1]
        BY <1>6, <2>1
      <3>2. Len(todo') = Len(Reader[kind]) - Len(got') /\ Len(got') <= Len(Reader[kind])
        BY <1>6, <1>8, <2>2, <3>1
      <3>3. \A i \in 1..Len(todo') : todo'[i] = Reader[kind][Len(got') + i]
        <4> TAKE i \in 1..Len(todo')
        <4>1. /\ i \in 1..(Len(todo) - 1) /\ i + 1 \in 1..Len(todo)
              /\ Len(got') + i = Len(got) + (i + 1)
          BY <1>6, <2>2, <3>1
        <4>2. todo'[i] = todo[i + 1]
          BY <3>1, <4>1
        <4>3. todo[i + 1] = Reader[kind][Len(got) + (i + 1)]
          BY <1>6, <4>1
        <4> QED BY <4>1, <4>2, <4>3, Zenon
      <3> QED BY <2>2, <3>1, <3>2, <3>3, Zenon DEF TodoIs
    <2>4. Len(got') <= Agreed(kind) => Reading(S, kind, vals, got', wire', cut)
      BY <1>9, <2>1, <2>2, Zenon
    <2>5. kind = "Pong" /\ Len(got') = 7 => Far(got'[7])
      BY <1>9, <2>2, Zenon
    <2>6. InFields(S)'
      BY <1>5, <2>1, <2>3, <2>4, <2>5, Zenon DEF InFields
    <2>7. Suffixes(S, kind', vals')
      BY <1>4, <2>1, Zenon
    <2>8. Typed'
      BY <2>1 DEF WireInv, Typed
    <2>9. Goals'
      BY <1>1, <1>3, <2>1, PendingGoals
    <2> QED BY <1>1, <2>1, <2>6, <2>7, <2>8, <2>9, Zenon DEF WireInv, Goals
  <1>10. CASE Len(got) < Agreed(kind)
    <2>1. Reading(S, kind, vals, got, wire, cut)
      BY <1>5, <1>6, <1>8, <1>10
    <2>2. \/ r.is = "ok" /\ r.val \in Seq(Byte)
             /\ Reading(S, kind, vals, Append(got, r.val), r.rest, cut)
          \/ cut /\ r.is = "error"
      BY <1>3, <1>4, <1>6, <1>7, <1>10, <2>1, ReadingStep DEF r
    <2>3. CASE cut /\ r.is = "error"
      <3>1. Finish("error")
        BY <1>2, <2>3
      <3> QED BY <1>1, <2>3, <3>1, FailInv
    <2>4. ~ (kind = "Pong" /\ j = 7)
      BY <1>6, <1>10 DEF Agreed
    <2> QED BY <1>9, <2>2, <2>3, <2>4
  <1>11. CASE ~ (Len(got) < Agreed(kind))
    <2>1. Len(got) >= Agreed(kind) /\ ~ (j <= Agreed(kind)) /\ Len(got) < Len(Reader[kind])
      BY <1>6, <1>8, <1>11
    <2>2. kind \notin Symmetric /\ kind # "AgentCheckPortMapping"
      BY <1>3, <1>6, <1>8, <2>1, TableLengths
    <2>3. kind = "Pong" \/ kind = "AgentPortMapping"
      BY <1>3, <1>5, <2>2 DEF Symmetric
    <2>4. CASE kind = "Pong"
      <3>1. Len(got) = 6 /\ f = "u64" /\ Len(vals) = 7
        <4>1. Agreed(kind) = 6 /\ Len(Reader[kind]) = 7 /\ Reader[kind][7] = "u64" /\ Len(vals) = 7
          BY <1>3, <2>4, TableLengths DEF Agreed
        <4>2. Len(got) = 6
          <5>1. Len(got) >= 6 /\ Len(got) < 7
            BY <2>1, <4>1, Zenon
          <5>2. Len(got) \in Nat
            BY <1>6
          <5> QED BY <5>1, <5>2, OnlySix, Zenon
        <4> QED BY <1>7, <4>1, <4>2
      <3>2. r = ReadNum(wire, 8)
        BY <3>1 DEF r, Read, Width
      <3>3. Reading(S, "Pong", vals, got, wire, cut) /\ ValuesOf("Pong", vals)
            /\ Suffixes(S, "Pong", vals)
        BY <1>3, <1>4, <1>5, <2>4, <3>1 DEF Agreed
      <3>4. r.is = "ok" /\ r.val \in Seq(Byte) /\ Far(r.val)
        BY <3>1, <3>2, <3>3, ExpiryReads
      <3> QED BY <1>9, <2>1, <3>4
    <2>5. CASE kind = "AgentPortMapping"
      <3>1. Len(got) = 0 /\ f = "found"
        <4>1. Len(Reader[kind]) = 1 /\ Reader[kind][1] = "found"
          BY <1>3, <2>5, TableLengths
        <4>2. Len(got) = 0
          BY <1>6, <2>1, <4>1
        <4> QED BY <1>7, <4>1, <4>2
      <3>2. r = ReadFound(wire)
        BY <3>1 DEF r, Read, Width
      <3>3. Reading(S, kind, vals, got, wire, cut)
        BY <1>5, <1>8, <3>1
      <3>4. \/ r.is = "error"
            \/ r.is = "panic" /\ Take(vals[1], 4) = Num(1, 4)
        BY <1>3, <1>4, <2>5, <3>1, <3>2, <3>3, FoundReads
      <3>5. CASE r.is = "error"
        <4>1. Finish("error")
          BY <1>2, <3>5
        <4> QED BY <1>1, <2>2, <4>1, FailInv
      <3>6. CASE r.is = "panic" /\ Take(vals[1], 4) = Num(1, 4)
        <4>1. Finish("panic")
          BY <1>2, <3>6
        <4>2. /\ pc' = "done" /\ result' = "panic" /\ kind' = kind /\ vals' = vals
              /\ cut' = cut
          BY <4>1 DEF Finish
        <4>3. Typed'
          BY <1>1, <4>2 DEF WireInv, Typed
        <4>4. Goals'
          <5>1. RoundTrip' /\ PongExpiryIsZeroOrFar'
            BY <2>2, <4>2 DEF RoundTrip, PongExpiryIsZeroOrFar
          <5>2. CutOnlyZeroes'
            BY <2>5, <3>6, <4>2, Zenon DEF CutOnlyZeroes
          <5> QED BY <5>1, <5>2 DEF Goals
        <4> QED BY <4>2, <4>3, <4>4 DEF WireInv, Goals
      <3> QED BY <3>4, <3>5, <3>6
    <2> QED BY <2>3, <2>4, <2>5
  <1> QED BY <1>10, <1>11

\* The reader has taken all fields.
LEMMA ReadEndsInv == ASSUME WireInv, ReadEnds PROVE WireInv'
  <1>1. pc = "read" /\ as # "none" /\ todo = << >> /\ Finish("ok")
    BY DEF ReadEnds
  <1>2. /\ pc' = "done" /\ result' = "ok" /\ kind' = kind /\ vals' = vals /\ cut' = cut
        /\ as' = as /\ got' = got
    BY <1>1 DEF Finish
  <1>3. kind \in Kind /\ ValuesOf(kind, vals) /\ Len(vals) = Len(Writer[kind])
    BY <1>1 DEF WireInv, Typed
  <1>4. PICK S : Suffixes(S, kind, vals) /\ InFields(S)
    BY <1>1 DEF WireInv
  <1>5. /\ as = kind /\ got \in Seq(Seq(Byte)) /\ Len(got) \in Nat /\ Len(got) = Len(Reader[kind])
    <2>1. /\ as = kind /\ got \in Seq(Seq(Byte)) /\ Len(todo) = Len(Reader[kind]) - Len(got)
      BY <1>4 DEF InFields, TodoIs
    <2>2. Len(todo) = 0 /\ Len(Reader[kind]) \in Nat
      BY <1>1, <1>3, TablesOfFields
    <2> QED BY <2>1, <2>2
  <1>6. Typed'
    BY <1>1, <1>2 DEF WireInv, Typed
  <1>7. ASSUME kind \in Symmetric
        PROVE  /\ Len(got) = Len(vals)
               /\ \/ \A i \in 1..Len(got) : got[i] = vals[i]
                  \/ cut /\ ZeroedFrom(kind, vals, got)
    <2>1. Agreed(kind) = Len(Writer[kind]) /\ Agreed(kind) = Len(Reader[kind])
      BY <1>3, <1>7, TableLengths
    <2>2. Len(got) <= Agreed(kind) /\ Len(got) = Len(vals)
      BY <1>3, <1>5, <2>1
    <2>3. Reading(S, kind, vals, got, wire, cut)
      BY <1>4, <2>2 DEF InFields
    <2> QED BY <2>2, <2>3 DEF Reading
  <1>8. RoundTrip'
    <2>1. ASSUME kind \in Symmetric, ~ cut PROVE got = vals
      <3>1. vals \in Seq(Seq(Byte))
        BY <1>3 DEF ValuesOf
      <3> QED BY <1>5, <1>7, <2>1, <3>1, SeqEqual
    <2> QED BY <1>2, <1>5, <2>1 DEF RoundTrip
  <1>9. CutOnlyZeroes'
    <2>1. ASSUME kind \in Symmetric
          PROVE  \E k \in 0..Len(vals) : \A i \in 1..Len(vals) :
                    got[i] = IF i <= k THEN vals[i] ELSE Zeroed(Writer[kind][i], vals[i])
      <3>1. CASE \A i \in 1..Len(got) : got[i] = vals[i]
        <4>1. Len(vals) \in 0..Len(vals) /\ \A i \in 1..Len(vals) : i <= Len(vals)
          BY <1>5, <1>7, <2>1
        <4> QED BY <1>7, <2>1, <3>1, <4>1, Zenon
      <3>2. CASE ZeroedFrom(kind, vals, got)
        <4>1. PICK k \in 0..Len(got) : \A i \in 1..Len(got) :
                 got[i] = IF i <= k THEN vals[i] ELSE Zeroed(Writer[kind][i], vals[i])
          BY <3>2, Zenon DEF ZeroedFrom
        <4>2. Len(got) = Len(vals)
          BY <1>7, <2>1
        <4>3. k \in 0..Len(vals) /\ \A i \in 1..Len(vals) :
                 got[i] = IF i <= k THEN vals[i] ELSE Zeroed(Writer[kind][i], vals[i])
          BY <4>1, <4>2, Zenon
        <4> QED BY <4>3, Zenon
      <3> QED BY <1>7, <2>1, <3>1, <3>2
    <2>2. result' # "panic"
      BY <1>2
    <2> QED BY <1>2, <2>1, <2>2, Zenon DEF CutOnlyZeroes
  <1>10. PongExpiryIsZeroOrFar'
    <2>1. ASSUME kind = "Pong" PROVE got[Len(got)] = Zero(8) \/ got[Len(got)][1] = 1
      <3>1. Len(got) = 7
        BY <1>3, <1>5, <2>1, TableLengths
      <3>2. Far(got[7])
        BY <1>4, <2>1, <3>1 DEF InFields
      <3> QED BY <3>1, <3>2, Zenon DEF Far
    <2> QED BY <1>2, <1>5, <2>1, Zenon DEF PongExpiryIsZeroOrFar
  <1> QED BY <1>2, <1>6, <1>8, <1>9, <1>10 DEF WireInv

\* Every step keeps the invariant.
LEMMA NextInv == ASSUME WireInv, [Next]_vars PROVE WireInv'
  <1>1. CASE UNCHANGED vars
    BY <1>1 DEF vars, WireInv, Typed, Written, InHeader, InFields, RoundTrip, CutOnlyZeroes,
                PongExpiryIsZeroOrFar
  <1>2. ASSUME NEW v \in IF Len(vals) < Len(Writer[kind])
                         THEN Sample(Writer[kind][Len(vals) + 1]) ELSE {},
               WriteField(v)
        PROVE  WireInv'
    <2>1. v \in Sample(Writer[kind][Len(vals) + 1])
      BY <1>2
    <2> QED BY <1>2, <2>1, WriteFieldInv
  <1> QED BY <1>1, <1>2, ReceiveInv, ReadFeedInv, ReadRequestInv, ReadResponseInv,
             ReadFieldInv, ReadEndsInv DEF Next

\* What is on the wire, or left of it, is accounted for by the values written,
\* for all values of all fields and every length of the receive buffer.
THEOREM WireInvAlways == Spec => []WireInv
  <1> QED BY InitInv, NextInv, PTL DEF Spec

\* Every message whose reader has the fields of its writer is read back as it
\* was written, whatever its values are, and none is taken for another.
THEOREM RoundTripAlways == Spec => []RoundTrip
  <1>1. WireInv => RoundTrip
    BY DEF WireInv
  <1> QED BY <1>1, WireInvAlways, PTL

\* A datagram cut anywhere is an error or has its last fields zeroed; only an
\* AgentPortMapping can make its reader panic.
THEOREM CutOnlyZeroesAlways == Spec => []CutOnlyZeroes
  <1>1. WireInv => CutOnlyZeroes
    BY DEF WireInv
  <1> QED BY <1>1, WireInvAlways, PTL

\* Whatever expiry the server writes, the agent reads 0 or one with 1 as its
\* first byte.
THEOREM PongExpiryIsZeroOrFarAlways == Spec => []PongExpiryIsZeroOrFar
  <1>1. WireInv => PongExpiryIsZeroOrFar
    BY DEF WireInv
  <1> QED BY <1>1, WireInvAlways, PTL

=============================================================================
