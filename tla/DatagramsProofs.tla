---------------------------- MODULE DatagramsProofs ----------------------------
(* Proofs about Datagrams, for every set of messages and every length of   *)
(* the receive buffer: what the encoders write, that the parser reads it   *)
(* back, and that nothing is lost or changed on the way to the sessions.   *)
EXTENDS Datagrams, SequenceTheorems, FiniteSetTheorems, TLAPS

(* Induction over the numbers, in the form of a set that is all of them:   *)
(* from the least number outside it.                                       *)
LEMMA NatSetInduction ==
    ASSUME NEW S \in SUBSET Nat, 0 \in S, \A n \in S : n + 1 \in S
    PROVE  S = Nat
<1> SUFFICES ASSUME Nat \ S # {} PROVE FALSE
  OBVIOUS
<1>1. IsWellFoundedOn(OpToRel(<, Nat), Nat)
  BY NatLessThanWellFounded
<1>2. PICK x \in Nat \ S : \A y \in Nat \ S : ~ (<<y, x>> \in OpToRel(<, Nat))
  BY <1>1, WFMin
<1>3. x # 0 /\ x - 1 \in Nat /\ x - 1 < x /\ (x - 1) + 1 = x
  <2>1. x \in Nat /\ x # 0
    OBVIOUS
  <2>2. \A i \in Nat : i # 0 => i - 1 \in Nat /\ i - 1 < i /\ (i - 1) + 1 = i
    OBVIOUS
  <2>3. QED
    BY <2>1, <2>2
<1>4. x - 1 \notin S
  BY <1>2, <1>3
<1>5. <<x - 1, x>> \in OpToRel(<, Nat)
  BY <1>2, <1>3 DEF OpToRel
<1>6. QED
  BY <1>2, <1>3, <1>4, <1>5

(* The parser of one nesting depth, from the one below.                    *)
Level(memory, depth, below) ==
    [at \in Nat \X Nat |->
        IF depth = 0 THEN NullPtr ELSE Parse(memory, at[1], at[2], below)]

(* The levels of Parser up to n.                                           *)
Levels(memory, n, g) == g = [depth \in 0..n |-> Level(memory, depth, g[depth - 1])]

(* The recursion of Parser defines a function: its first n levels do, by   *)
(* induction on n,                                                         *)
LEMMA LevelsExist ==
    ASSUME NEW memory, NEW n \in Nat
    PROVE  \E g : Levels(memory, n, g)
<1> DEFINE S == {k \in Nat : \E g : Levels(memory, k, g)}
<1>1. 0 \in S
  <2> DEFINE g == [depth \in 0..0 |-> Level(memory, 0, memory)]
  <2>1. Levels(memory, 0, g)
    BY DEF Levels, Level
  <2>2. QED
    BY <2>1
<1>2. ASSUME NEW k \in S PROVE k + 1 \in S
  <2>1. PICK g : Levels(memory, k, g)
    OBVIOUS
  <2> DEFINE h == [depth \in 0..(k + 1) |->
                      IF depth <= k THEN g[depth] ELSE Level(memory, depth, g[k])]
  <2>2. \A depth \in 0..(k + 1) : h[depth] = Level(memory, depth, h[depth - 1])
    <3> TAKE depth \in 0..(k + 1)
    <3>1. CASE depth = 0
      BY <2>1, <3>1 DEF Levels, Level
    <3>2. CASE depth # 0
      <4>1. depth - 1 \in 0..(k + 1) /\ depth - 1 <= k /\ h[depth - 1] = g[depth - 1]
        BY <3>2
      <4>2. CASE depth <= k
        BY <2>1, <4>1, <4>2 DEF Levels
      <4>3. CASE ~(depth <= k)
        <5>1. depth - 1 = k
          BY <4>3
        <5>2. QED
          BY <4>1, <4>3, <5>1
      <4>4. QED
        BY <4>2, <4>3
    <3>3. QED
      BY <3>1, <3>2
  <2>3. Levels(memory, k + 1, h)
    BY <2>2 DEF Levels
  <2>4. QED
    BY <2>3
<1> HIDE DEF S
<1>3. S = Nat
  BY <1>1, <1>2, NatSetInduction DEF S
<1>4. QED
  BY <1>3 DEF S

(* and they are the same in all of them.                                   *)
LEMMA LevelsAgree ==
    ASSUME NEW memory, NEW m \in Nat, NEW n \in Nat, NEW g, NEW h,
           Levels(memory, m, g), Levels(memory, n, h), NEW k \in Nat, k <= m, k <= n
    PROVE  g[k] = h[k]
<1> DEFINE S == {i \in Nat : i <= m /\ i <= n => g[i] = h[i]}
<1>1. 0 \in S
  BY DEF Levels, Level
<1>2. ASSUME NEW i \in S PROVE i + 1 \in S
  <2> SUFFICES ASSUME i + 1 <= m, i + 1 <= n PROVE g[i + 1] = h[i + 1]
    OBVIOUS
  <2>1. g[i] = h[i]
    OBVIOUS
  <2>2. i + 1 \in 0..m /\ i + 1 \in 0..n /\ (i + 1) - 1 = i
    OBVIOUS
  <2>3. g[i + 1] = Level(memory, i + 1, g[i]) /\ h[i + 1] = Level(memory, i + 1, h[i])
    BY <2>2 DEF Levels
  <2>4. QED
    BY <2>1, <2>3
<1> HIDE DEF S
<1>3. S = Nat
  BY <1>1, <1>2, NatSetInduction DEF S
<1>4. QED
  BY <1>3 DEF S

(* Parser is what its recursive definition says.                           *)
LEMMA ParserUnfolds ==
    ASSUME NEW memory, NEW n \in Nat, NEW a \in Nat, NEW b \in Nat
    PROVE  Parser(memory)[n + 1][<<a, b>>] = Parse(memory, a, b, Parser(memory)[n])
<1> DEFINE IsParser(g) == g = [depth \in Nat |-> Level(memory, depth, g[depth - 1])]
           G == [depth \in Nat |-> (CHOOSE g : Levels(memory, depth, g))[depth]]
<1>1. \A depth \in Nat : Levels(memory, depth, CHOOSE g : Levels(memory, depth, g))
  BY LevelsExist
<1>2. ASSUME NEW depth \in Nat PROVE G[depth] = Level(memory, depth, G[depth - 1])
  <2>1. CASE depth = 0
    <3> DEFINE g == CHOOSE f : Levels(memory, 0, f)
    <3>1. Levels(memory, 0, g) /\ G[0] = g[0]
      BY <1>1
    <3> HIDE DEF g, G
    <3>2. g[0] = Level(memory, 0, g[0 - 1])
      BY <3>1 DEF Levels
    <3>3. \A x, y : Level(memory, 0, x) = Level(memory, 0, y)
      BY DEF Level
    <3>4. QED
      BY <2>1, <3>1, <3>2, <3>3
  <2>2. CASE depth # 0
    <3> DEFINE g == CHOOSE f : Levels(memory, depth, f)
               h == CHOOSE f : Levels(memory, depth - 1, f)
    <3>1. depth - 1 \in Nat /\ Levels(memory, depth, g) /\ Levels(memory, depth - 1, h)
      BY <1>1, <2>2
    <3>2. G[depth] = g[depth] /\ G[depth - 1] = h[depth - 1]
      BY <3>1
    <3> HIDE DEF g, h, G
    <3>3. g[depth - 1] = h[depth - 1]
      BY <3>1, LevelsAgree
    <3>4. g[depth] = Level(memory, depth, g[depth - 1])
      BY <3>1 DEF Levels
    <3>5. QED
      BY <3>2, <3>3, <3>4
  <2>3. QED
    BY <2>1, <2>2
<1>3. IsParser(G)
  <2>1. G = [depth \in Nat |-> G[depth]]
    OBVIOUS
  <2> HIDE DEF G
  <2>2. QED
    BY <1>2, <2>1
<1> HIDE DEF G
<1>4. IsParser(CHOOSE g : IsParser(g))
  BY <1>3
<1>5. Parser(memory) = CHOOSE g : IsParser(g)
  BY DEF Parser, Level
<1>6. Parser(memory)[n + 1] = Level(memory, n + 1, Parser(memory)[n])
  <2>1. n + 1 \in Nat /\ (n + 1) - 1 = n
    OBVIOUS
  <2> HIDE DEF IsParser
  <2>2. IsParser(Parser(memory))
    BY <1>4, <1>5
  <2>3. QED
    BY <2>1, <2>2 DEF IsParser
<1>7. n + 1 # 0 /\ <<a, b>> \in Nat \X Nat
  OBVIOUS
<1> HIDE DEF IsParser
<1>8. QED
  BY <1>6, <1>7 DEF Level

-----------------------------------------------------------------------------
(* The cells of a message.                                                 *)
LEMMA EncodeCells ==
    ASSUME NEW m \in Message
    PROVE  /\ Encode(m) \in Seq(Nat)
           /\ m.data \in Seq(Nat) /\ Len(m.data) \in Nat
           /\ Len(Encode(m)) = 5 + Len(m.data)
           /\ Encode(m)[1] = m.type /\ Encode(m)[2] = m.chain /\ Encode(m)[3] = m.client
           /\ Encode(m)[4] = m.nonce /\ Encode(m)[5] = m.node
           /\ \A i \in 1..Len(m.data) : Encode(m)[5 + i] = m.data[i]
<1> DEFINE header == <<m.type, m.chain, m.client, m.nonce, m.node>>
<1>1. header \in Seq(Nat) /\ Len(header) = 5 /\ m.data \in Seq(Nat)
  BY DatagramsAssumption DEF SEND, READY
<1>2. /\ header[1] = m.type /\ header[2] = m.chain /\ header[3] = m.client
      /\ header[4] = m.nonce /\ header[5] = m.node
  OBVIOUS
<1>3. Encode(m) = header \o m.data
  BY DEF Encode
<1> HIDE DEF header
<1>4. Len(m.data) \in Nat
  BY <1>1, LenProperties
<1>5. /\ Encode(m) \in Seq(Nat) /\ Len(Encode(m)) = 5 + Len(m.data)
      /\ \A i \in 1..(5 + Len(m.data)) :
             Encode(m)[i] = IF i <= 5 THEN header[i] ELSE m.data[i - 5]
  <2> DEFINE data == m.data
  <2>1. data \in Seq(Nat)
    BY <1>1
  <2> HIDE DEF data
  <2>2. LET all == header \o data
        IN  /\ all \in Seq(Nat) /\ Len(all) = Len(header) + Len(data)
            /\ \A i \in 1..(Len(header) + Len(data)) :
                   all[i] = IF i <= Len(header) THEN header[i] ELSE data[i - Len(header)]
    BY <1>1, <2>1, ConcatProperties
  <2>3. QED
    BY <1>1, <1>3, <2>2 DEF data
<1>6. \A i \in 1..Len(m.data) : Encode(m)[5 + i] = m.data[i]
  <2> TAKE i \in 1..Len(m.data)
  <2>1. 5 + i \in 1..(5 + Len(m.data)) /\ ~(5 + i <= 5) /\ (5 + i) - 5 = i
    BY <1>4
  <2>2. QED
    BY <1>5, <2>1
<1>7. \A i \in 1..5 : Encode(m)[i] = header[i]
  BY <1>4, <1>5
<1>8. \A i \in {1, 2, 3, 4, 5} : i \in 1..5
  OBVIOUS
<1>9. QED
  BY <1>1, <1>2, <1>4, <1>5, <1>6, <1>7, <1>8

(* Memory holds these cells behind the first "off" ones.                   *)
Holds(memory, off, cells) == \A i \in 1..Len(cells) : memory[off + i] = cells[i]

(* Message's constructor reads back what encode wrote, wherever it stands. *)
LEMMA MessageIsParsed ==
    ASSUME NEW m \in Message, NEW off \in Nat, NEW memory, Holds(memory, off, Encode(m))
    PROVE  ParseMessage(memory, off + 1, off + Len(Encode(m))) = m
<1> DEFINE size == Len(m.data)
           data == SubSeq(memory, off + 6, off + 5 + size)
<1>0. size \in Nat /\ Len(Encode(m)) = 5 + size
  BY EncodeCells
<1> HIDE DEF size
<1>1. /\ memory[off + 1] = m.type /\ memory[off + 2] = m.chain /\ memory[off + 3] = m.client
      /\ memory[off + 4] = m.nonce /\ memory[off + 5] = m.node
  <2>1. \A i \in {1, 2, 3, 4, 5} : i \in 1..Len(Encode(m))
    BY <1>0
  <2>2. \A i \in {1, 2, 3, 4, 5} : memory[off + i] = Encode(m)[i]
    BY <2>1 DEF Holds
  <2>3. QED
    BY <2>2, EncodeCells
<1>2. \A i \in 1..size : memory[off + 5 + i] = m.data[i]
  <2> TAKE i \in 1..size
  <2>1. 5 + i \in 1..Len(Encode(m)) /\ off + (5 + i) = off + 5 + i
    BY <1>0
  <2>2. QED
    BY <2>1, EncodeCells DEF Holds, size
<1>3. data = m.data
  <2>1. m.data \in Seq(Nat) /\ \A i \in 1..size : m.data[i] \in Nat
    BY EncodeCells, LenProperties DEF size
  <2>2. \A i \in (off + 6)..(off + 5 + size) : memory[i] \in Nat
    <3> TAKE i \in (off + 6)..(off + 5 + size)
    <3>1. i - (off + 5) \in 1..size /\ off + 5 + (i - (off + 5)) = i
      BY <1>0
    <3>2. QED
      BY <1>2, <2>1, <3>1
  <2>3. /\ data \in Seq(Nat)
        /\ Len(data) = size
        /\ \A i \in 1..size : data[i] = memory[off + 5 + i]
    <3> DEFINE m0 == off + 6
               n0 == off + 5 + size
    <3>1. m0 \in Int /\ n0 \in Int /\ n0 - m0 + 1 = size /\ (m0 <= n0 <=> size # 0)
          /\ \A i \in 1..size : m0 + i - 1 = off + 5 + i
      BY <1>0
    <3>2. \A i \in m0..n0 : memory[i] \in Nat
      BY <2>2
    <3> HIDE DEF m0, n0
    <3>3. LET s == SubSeq(memory, m0, n0)
          IN  /\ s \in Seq(Nat)
              /\ Len(s) = IF m0 <= n0 THEN n0 - m0 + 1 ELSE 0
              /\ \A i \in 1..(n0 - m0 + 1) : s[i] = memory[m0 + i - 1]
      BY <3>1, <3>2, SubSeqProperties
    <3>4. data = SubSeq(memory, m0, n0)
      BY DEF m0, n0
    <3> HIDE DEF data
    <3>5. QED
      BY <1>0, <3>1, <3>3, <3>4
  <2>5. \A i \in 1..size : data[i] = m.data[i]
    BY <1>2, <2>3
  <2> HIDE DEF data
  <2>6. QED
    BY <2>1, <2>3, <2>5, SeqEqual DEF size
<1>4. /\ off + 1 + 1 = off + 2 /\ off + 1 + 2 = off + 3 /\ off + 1 + 3 = off + 4
      /\ off + 1 + 4 = off + 5 /\ off + 1 + 5 = off + 6
      /\ off + Len(Encode(m)) = off + 5 + size /\ ~(off + 1 + 4 > off + Len(Encode(m)))
  BY <1>0
<1>5. m = [type |-> m.type, chain |-> m.chain, client |-> m.client, nonce |-> m.nonce,
           node |-> m.node, data |-> m.data]
  BY DatagramsAssumption
<1> HIDE DEF data
<1>6. QED
  BY <1>1, <1>3, <1>4, <1>5 DEF ParseMessage, data

(* The cells of a packet of one message.                                   *)
LEMMA PacketCells ==
    ASSUME NEW m \in Message
    PROVE  LET cells == EncodePacket(<<m>>)
           IN  /\ cells \in Seq(Nat)
               /\ Len(cells) = 8 + Len(m.data)
               /\ cells[1] = PACKET /\ cells[2] = 1 /\ cells[3] = Len(Encode(m))
               /\ cells[4] = m.type
               /\ \A i \in 1..Len(Encode(m)) : cells[3 + i] = Encode(m)[i]
<1> DEFINE head == <<PACKET, 1, Len(Encode(m))>>
<1>1. FlattenSeq(<<Encode(m)>>) = Encode(m)
  <2> DEFINE e == Encode(m)
             Flat(g) == g = [i \in 1..1 |-> IF i = 1 THEN e ELSE g[i - 1] \o <<e>>[i]]
  <2> HIDE DEF e
  <2>1. Flat([i \in 1..1 |-> e])
    OBVIOUS
  <2>2. Flat(CHOOSE g : Flat(g))
    BY <2>1
  <2>3. FlattenSeq(<<e>>) = e
    BY <2>2 DEF FlattenSeq
  <2>4. QED
    BY <2>3 DEF e
<1>2. EncodePacket(<<m>>) = head \o Encode(m)
  <2>1. [i \in DOMAIN <<m>> |-> Encode(<<m>>[i])] = <<Encode(m)>>
    OBVIOUS
  <2>2. [i \in DOMAIN <<Encode(m)>> |-> Len(<<Encode(m)>>[i])] = <<Len(Encode(m))>>
    OBVIOUS
  <2>3. <<PACKET, Len(<<m>>)>> \o <<Len(Encode(m))>> = head
    <3>1. ASSUME NEW x \in Nat, NEW y \in Nat, NEW z \in Nat
          PROVE  <<x, y>> \o <<z>> = <<x, y, z>>
      <4> DEFINE s == <<x, y>>
                 t == <<z>>
                 u == <<x, y, z>>
      <4>1. /\ s \in Seq(Nat) /\ Len(s) = 2 /\ s[1] = x /\ s[2] = y
            /\ t \in Seq(Nat) /\ Len(t) = 1 /\ t[1] = z
            /\ u \in Seq(Nat) /\ Len(u) = 3 /\ u[1] = x /\ u[2] = y /\ u[3] = z
        OBVIOUS
      <4> HIDE DEF s, t, u
      <4>2. /\ s \o t \in Seq(Nat) /\ Len(s \o t) = Len(s) + Len(t)
            /\ \A i \in 1..(Len(s) + Len(t)) :
                   (s \o t)[i] = IF i <= Len(s) THEN s[i] ELSE t[i - Len(s)]
        BY <4>1, ConcatProperties
      <4> DEFINE w == s \o t
      <4> HIDE DEF w
      <4>3. w = u
        <5>1. /\ w \in Seq(Nat) /\ Len(w) = 3
              /\ \A i \in 1..3 : w[i] = IF i <= 2 THEN s[i] ELSE t[i - 2]
          BY <4>1, <4>2 DEF w
        <5>2. w[1] = s[1] /\ w[2] = s[2] /\ w[3] = t[1]
          BY <5>1
        <5>3. \A i \in 1..3 : w[i] = u[i]
          BY <4>1, <5>2
        <5>4. QED
          BY <4>1, <5>1, <5>3, SeqEqual
      <4>4. QED
        BY <4>3 DEF s, t, u, w
    <3>2. Len(<<m>>) = 1 /\ PACKET \in Nat /\ Len(Encode(m)) \in Nat
      BY EncodeCells DEF PACKET
    <3>3. QED
      BY <3>1, <3>2
  <2>4. QED
    BY <1>1, <2>1, <2>2, <2>3 DEF EncodePacket
<1>3. head \in Seq(Nat) /\ Len(head) = 3 /\ head[1] = PACKET /\ head[2] = 1
      /\ head[3] = Len(Encode(m))
  BY EncodeCells DEF PACKET
<1> HIDE DEF head
<1>4. LET cells == EncodePacket(<<m>>)
      IN  /\ cells \in Seq(Nat) /\ Len(cells) = 3 + Len(Encode(m))
          /\ \A i \in 1..(3 + Len(Encode(m))) :
                 cells[i] = IF i <= 3 THEN head[i] ELSE Encode(m)[i - 3]
  <2> DEFINE body == Encode(m)
  <2>1. head \in Seq(Nat) /\ body \in Seq(Nat)
    BY <1>3, EncodeCells
  <2> HIDE DEF body
  <2>2. LET all == head \o body
        IN  /\ all \in Seq(Nat) /\ Len(all) = Len(head) + Len(body)
            /\ \A i \in 1..(Len(head) + Len(body)) :
                   all[i] = IF i <= Len(head) THEN head[i] ELSE body[i - Len(head)]
    BY <2>1, ConcatProperties
  <2>3. QED
    BY <1>2, <1>3, <2>2 DEF body
<1>5. \A i \in 1..Len(Encode(m)) : EncodePacket(<<m>>)[3 + i] = Encode(m)[i]
  <2> TAKE i \in 1..Len(Encode(m))
  <2>1. 3 + i \in 1..(3 + Len(Encode(m))) /\ ~(3 + i <= 3) /\ (3 + i) - 3 = i
    BY EncodeCells
  <2>2. QED
    BY <1>4, <2>1
<1>6. /\ Len(Encode(m)) = 5 + Len(m.data) /\ Len(m.data) \in Nat
      /\ Encode(m)[1] = m.type
  BY EncodeCells
<1>7. /\ \A i \in {1, 2, 3} : i \in 1..(3 + Len(Encode(m))) /\ i <= 3
      /\ 1 \in 1..Len(Encode(m)) /\ 3 + Len(Encode(m)) = 8 + Len(m.data)
  BY <1>6
<1>8. EncodePacket(<<m>>)[4] = m.type
  <2>1. EncodePacket(<<m>>)[3 + 1] = Encode(m)[1]
    BY <1>5, <1>7
  <2>2. QED
    BY <1>6, <2>1
<1>9. QED
  BY <1>3, <1>4, <1>5, <1>6, <1>7, <1>8

-----------------------------------------------------------------------------
(* What parse makes of a packet of m.                                      *)
Packed(m) == [type |-> PACKET, messages |-> <<m>>]

(* The first cells of memory, up to last, are those of a datagram.         *)
Begins(memory, last, cells) ==
    /\ last \in Nat /\ last <= Len(cells)
    /\ \A i \in 1..last : memory[i] = cells[i]

(* A message is neither a packet nor the refusal.                          *)
LEMMA TypesDiffer ==
    ASSUME NEW m, m.type \in SEND..READY
    PROVE  m # NullPtr /\ m.type # PACKET /\ Packed(m) # NullPtr /\ Packed(m).type = PACKET
<1>1. NullPtr.type = 4 /\ Packed(m).type = 3 /\ m.type \in 0..2
  BY DEF NullPtr, Packed, SEND, READY, PACKET, SIZE
<1>2. m.type # 3 /\ m.type # 4
  BY <1>1
<1>3. QED
  BY <1>1, <1>2 DEF PACKET

(* A message that is cut is refused or keeps its type.                     *)
LEMMA PlainParsed ==
    ASSUME NEW m \in Message, NEW memory, NEW last, NEW inner,
           Begins(memory, last, Encode(m))
    PROVE  LET parsed == Parse(memory, 1, last, inner)
           IN  /\ parsed = NullPtr \/ parsed.type = m.type
               /\ last = Len(Encode(m)) => parsed = m
<1>1. m.type \in 0..2 /\ last \in Nat /\ Len(Encode(m)) \in Nat /\ Len(Encode(m)) >= 5
      /\ Encode(m)[1] = m.type
  BY EncodeCells, DatagramsAssumption DEF Begins, SEND, READY
<1>2. CASE 1 > last
  BY <1>1, <1>2 DEF Parse
<1>3. CASE ~(1 > last)
  <2>1. memory[1] = m.type
    BY <1>1, <1>3 DEF Begins
  <2>2. Parse(memory, 1, last, inner) = ParseMessage(memory, 1, last)
    BY <1>1, <1>3, <2>1 DEF Parse, READY
  <2>3. ParseMessage(memory, 1, last) = NullPtr \/ ParseMessage(memory, 1, last).type = m.type
    BY <2>1 DEF ParseMessage
  <2>4. ASSUME last = Len(Encode(m)) PROVE ParseMessage(memory, 1, last) = m
    <3>1. Holds(memory, 0, Encode(m))
      BY <1>1, <2>4 DEF Holds, Begins
    <3>2. ParseMessage(memory, 0 + 1, 0 + Len(Encode(m))) = m
      BY <3>1, MessageIsParsed
    <3>3. QED
      BY <1>1, <2>4, <3>2
  <2>5. QED
    BY <2>2, <2>3, <2>4
<1>4. QED
  BY <1>2, <1>3

(* A packet that is cut before its message is refused; else the message is *)
(* parsed where its length says, be it cut or not.                         *)
LEMMA PacketParsed ==
    ASSUME NEW m \in Message, NEW memory, NEW last, NEW inner,
           Begins(memory, last, EncodePacket(<<m>>))
    PROVE  Parse(memory, 1, last, inner) =
               IF last < 4 THEN NullPtr ELSE Packed(inner[<<4, 3 + Len(Encode(m))>>])
<1> DEFINE cells == EncodePacket(<<m>>)
<1>1. /\ last \in Nat /\ \A i \in 1..last : memory[i] = cells[i]
      /\ cells[1] = 3 /\ cells[2] = 1 /\ cells[3] = Len(Encode(m)) /\ Len(Encode(m)) \in Nat
  <2>1. last \in Nat /\ \A i \in 1..last : memory[i] = cells[i]
    BY DEF Begins
  <2>2. cells[1] = 3 /\ cells[2] = 1 /\ cells[3] = Len(Encode(m))
    BY PacketCells DEF PACKET
  <2>3. Len(Encode(m)) \in Nat
    BY EncodeCells
  <2>4. QED
    BY <2>1, <2>2, <2>3
<1> HIDE DEF cells
<1>2. CASE 1 > last
  <2>1. last < 4
    BY <1>1, <1>2
  <2>2. QED
    BY <1>2, <2>1 DEF Parse
<1>3. CASE ~(1 > last)
  <2>1. memory[1] = 3
    BY <1>1, <1>3
  <2>2. Parse(memory, 1, last, inner) = ParsePacket(memory, 1, last, inner)
    BY <1>1, <1>3, <2>1 DEF Parse, READY, PACKET
  <2>3. CASE last = 1
    <3>1. 1 + 1 > last
      BY <2>3
    <3>2. ParsePacket(memory, 1, last, inner) = NullPtr
      BY <3>1 DEF ParsePacket
    <3>3. QED
      BY <2>2, <2>3, <3>2
  <2>4. CASE last # 1
    <3>1. last >= 2 /\ memory[1 + 1] = 1
      BY <1>1, <1>3, <2>4
    <3> DEFINE count == memory[1 + 1]
               lengths == SubSeq(memory, 1 + 2, 1 + 1 + count)
               IsStart(g) == g = [i \in 1..count |->
                                    IF i = 1 THEN 1 + 2 + count ELSE g[i - 1] + lengths[i - 1]]
               start == CHOOSE g : IsStart(g)
    <3>2. count = 1 /\ start[1] = 4
      <4>1. IsStart([i \in 1..1 |-> 4])
        <5>1. \A i \in 1..1 : i = 1
          OBVIOUS
        <5> HIDE DEF lengths
        <5>2. QED
          BY <3>1, <5>1
      <4> HIDE DEF IsStart
      <4>2. IsStart(start)
        BY <4>1
      <4> HIDE DEF start
      <4>3. start[1] = 4
        <5> HIDE DEF lengths
        <5>1. QED
          BY <3>1, <4>2 DEF IsStart
      <4>4. QED
        BY <3>1, <4>3
    <3>3. ParsePacket(memory, 1, last, inner) =
              IF 1 + 1 > last \/ 1 + 1 + count > last \/ \E i \in 1..count : start[i] > last
              THEN NullPtr
              ELSE [type |-> PACKET,
                    messages |-> [i \in 1..count |-> inner[<<start[i], start[i] + lengths[i] - 1>>]]]
      BY DEF ParsePacket
    <3> HIDE DEF start, count
    <3>4. CASE last < 4
      <4>1. 1 \in 1..count /\ start[1] > last
        BY <1>1, <3>2, <3>4
      <4>2. QED
        BY <2>2, <3>3, <3>4, <4>1
    <3>5. CASE ~(last < 4)
      <4>1. lengths[1] = Len(Encode(m))
        <5>1. memory[3] = Len(Encode(m))
          BY <1>1, <3>5
        <5>2. lengths = SubSeq(memory, 3, 3)
          BY <3>2
        <5>3. SubSeq(memory, 3, 3)[1] = memory[3]
          <6>1. \A i \in 3..3 : memory[i] \in Nat
            BY <1>1, <5>1
          <6>2. 1 \in 1..(3 - 3 + 1) /\ 3 + 1 - 1 = 3 /\ 3 \in Int
            OBVIOUS
          <6>3. \A i \in 1..(3 - 3 + 1) : SubSeq(memory, 3, 3)[i] = memory[3 + i - 1]
            BY <6>1, <6>2, SubSeqProperties
          <6>4. QED
            BY <6>2, <6>3
        <5>4. QED
          BY <5>1, <5>2, <5>3
      <4> HIDE DEF lengths
      <4>2. ~(1 + 1 > last \/ 1 + 1 + count > last \/ \E i \in 1..count : start[i] > last)
        BY <1>1, <3>2, <3>5
      <4>3. start[1] + lengths[1] - 1 = 3 + Len(Encode(m))
        BY <1>1, <3>2, <4>1
      <4>4. [i \in 1..count |-> inner[<<start[i], start[i] + lengths[i] - 1>>]]
                = <<inner[<<4, 3 + Len(Encode(m))>>]>>
        <5> DEFINE s == [i \in 1..count |-> inner[<<start[i], start[i] + lengths[i] - 1>>]]
        <5>1. s = [i \in 1..1 |-> inner[<<start[i], start[i] + lengths[i] - 1>>]]
          BY <3>2
        <5>2. s[1] = inner[<<4, 3 + Len(Encode(m))>>]
          BY <3>2, <4>3, <5>1
        <5>3. s = [i \in 1..1 |-> s[i]]
          BY <5>1
        <5> HIDE DEF s
        <5>4. s = <<inner[<<4, 3 + Len(Encode(m))>>]>>
          BY <5>2, <5>3
        <5>5. QED
          BY <5>4 DEF s
      <4>5. QED
        BY <2>2, <3>3, <3>5, <4>2, <4>4 DEF Packed
    <3>6. QED
      BY <3>4, <3>5
  <2>5. QED
    BY <2>3, <2>4
<1>4. QED
  BY <1>2, <1>3

-----------------------------------------------------------------------------
(* What senders put on the wire.                                           *)
WellFormed(d) ==
    /\ d.message \in Message /\ d.form \in {"client", "plain", "packet"}
    /\ d.cells = Encode(d.message) \/ d.cells = EncodePacket(<<d.message>>)

\* What may wait to be run.
TaskShape(task) ==
    \/ task.type \in SEND..READY
    \/ \E m : m.type \in SEND..READY /\ task = Packed(m)

(* What of a datagram is in the buffer.                                    *)
LEMMA WellFormedCells ==
    ASSUME NEW d, WellFormed(d)
    PROVE  /\ d.cells \in Seq(Nat) /\ Len(d.cells) \in Nat /\ Filled(d) \in Nat
           /\ Filled(d) <= Len(d.cells) /\ Filled(d) <= MAX_LENGTH
           /\ Fits(d) => Filled(d) = Len(d.cells)
<1>1. d.cells \in Seq(Nat)
  BY EncodeCells, PacketCells DEF WellFormed
<1>2. Len(d.cells) \in Nat /\ MAX_LENGTH \in Nat
  BY <1>1, LenProperties, DatagramsAssumption
<1>3. QED
  BY <1>1, <1>2 DEF Filled, Fits

(* A datagram that is parsed in a buffer that begins with it: what comes   *)
(* out may run as a task, and it is the message if the datagram fits.      *)
LEMMA DatagramParsed ==
    ASSUME NEW d, WellFormed(d), NEW memory, Len(memory) \in Nat, Len(memory) >= 2,
           Begins(memory, Filled(d), d.cells)
    PROVE  LET parsed == ParseAny(memory, 1, Filled(d))
           IN  /\ parsed = NullPtr \/ TaskShape(parsed)
               /\ Fits(d) => parsed = d.message \/ parsed = Packed(d.message)
<1> DEFINE m == d.message
           inner == Parser(memory)[Len(memory) - 1]
           last == Filled(d)
<1>1. m \in Message /\ m.type \in SEND..READY
  BY DatagramsAssumption DEF WellFormed
<1>2. /\ last \in Nat
      /\ Fits(d) => last = Len(d.cells)
  BY WellFormedCells
<1>3. ParseAny(memory, 1, last) = Parse(memory, 1, last, inner)
  <2>1. Len(memory) - 1 \in Nat /\ (Len(memory) - 1) + 1 = Len(memory) /\ last \in Nat
    <3>1. \A k \in Nat : k >= 2 => k - 1 \in Nat /\ (k - 1) + 1 = k
      OBVIOUS
    <3>2. QED
      BY <1>2, <3>1
  <2> HIDE DEF last
  <2>2. Parser(memory)[(Len(memory) - 1) + 1][<<1, last>>] = Parse(memory, 1, last, inner)
    BY <2>1, ParserUnfolds
  <2>3. QED
    BY <2>1, <2>2 DEF ParseAny
<1>4. CASE d.cells = Encode(m)
  <2>1. Begins(memory, last, Encode(m))
    BY <1>4
  <2> DEFINE parsed == Parse(memory, 1, last, inner)
  <2> HIDE DEF inner, last, m
  <2>2. /\ parsed = NullPtr \/ parsed.type = m.type
        /\ last = Len(Encode(m)) => parsed = m
    BY <1>1, <2>1, PlainParsed
  <2> HIDE DEF parsed
  <2>3. parsed = NullPtr \/ TaskShape(parsed)
    BY <1>1, <2>2 DEF TaskShape
  <2>4. Fits(d) => parsed = m
    BY <1>2, <1>4, <2>2
  <2>5. QED
    BY <1>3, <2>3, <2>4 DEF parsed, last, m
<1>5. CASE d.cells = EncodePacket(<<m>>)
  <2> DEFINE parsed == Parse(memory, 1, last, inner)
             size == Len(Encode(m))
             content == inner[<<4, 3 + size>>]
             inmost == Parser(memory)[Len(memory) - 2]
  <2>1. Begins(memory, last, EncodePacket(<<m>>))
    BY <1>5
  <2>2. parsed = IF last < 4 THEN NullPtr ELSE Packed(content)
    <3> HIDE DEF inner, last, m
    <3>1. QED
      BY <1>1, <2>1, PacketParsed
  <2>3. size \in Nat /\ size >= 5
    BY <1>1, EncodeCells
  <2>4. content = Parse(memory, 4, 3 + size, inmost)
    <3>1. Len(memory) - 2 \in Nat /\ (Len(memory) - 2) + 1 = Len(memory) - 1
          /\ 4 \in Nat /\ 3 + size \in Nat
      BY <2>3
    <3> HIDE DEF size, m
    <3>2. Parser(memory)[(Len(memory) - 2) + 1][<<4, 3 + size>>]
              = Parse(memory, 4, 3 + size, inmost)
      BY <3>1, ParserUnfolds
    <3>3. QED
      BY <3>1, <3>2
  <2>5. CASE last < 4
    <3>1. parsed = NullPtr
      BY <2>2, <2>5
    <3>2. ~Fits(d)
      <4>1. Fits(d) => last = 8 + Len(m.data)
        BY <1>1, <1>2, <1>5, PacketCells
      <4>2. Len(m.data) \in Nat
        BY <1>1, EncodeCells
      <4> HIDE DEF last, m
      <4>3. QED
        BY <1>2, <2>5, <4>1, <4>2
    <3>3. QED
      BY <1>3, <3>1, <3>2
  <2>6. CASE ~(last < 4)
    <3> HIDE DEF content, inner, inmost, parsed
    <3>1. memory[4] = m.type
      <4>1. 4 \in 1..last
        <5> HIDE DEF last
        <5>1. QED
          BY <1>2, <2>6
      <4>2. QED
        BY <1>1, <2>1, <4>1, PacketCells DEF Begins
    <3>2. content = ParseMessage(memory, 4, 3 + size)
      <4>1. ~(4 > 3 + size) /\ m.type <= READY
        BY <1>1, <2>3 DEF SEND, READY
      <4>2. QED
        BY <2>4, <3>1, <4>1 DEF Parse
    <3>3. content.type = m.type
      <4>1. ~(4 + 4 > 3 + size)
        BY <2>3
      <4>2. QED
        BY <3>1, <3>2, <4>1 DEF ParseMessage
    <3>4. parsed = Packed(content)
      BY <2>2, <2>6
    <3>5. TaskShape(parsed)
      BY <1>1, <3>3, <3>4 DEF TaskShape
    <3>6. ASSUME Fits(d) PROVE content = m
      <4>1. last = 3 + size
        <5>1. last = 8 + Len(m.data)
          BY <1>1, <1>2, <1>5, <3>6, PacketCells
        <5>2. size = 5 + Len(m.data) /\ Len(m.data) \in Nat
          BY <1>1, EncodeCells
        <5> HIDE DEF last, m, size
        <5>3. QED
          BY <5>1, <5>2
      <4>2. Holds(memory, 3, Encode(m))
        <5> SUFFICES ASSUME NEW i \in 1..size PROVE memory[3 + i] = Encode(m)[i]
          BY DEF Holds
        <5>1. 3 + i \in 1..last
          BY <2>3, <4>1
        <5>2. memory[3 + i] = EncodePacket(<<m>>)[3 + i]
          BY <2>1, <5>1 DEF Begins
        <5>3. QED
          BY <1>1, <5>2, PacketCells
      <4>3. ParseMessage(memory, 3 + 1, 3 + Len(Encode(m))) = m
        BY <1>1, <4>2, MessageIsParsed
      <4>4. QED
        BY <3>2, <4>3
    <3>7. QED
      BY <1>3, <3>4, <3>5, <3>6 DEF parsed
  <2>7. QED
    BY <2>5, <2>6
<1>6. QED
  BY <1>4, <1>5 DEF WellFormed

-----------------------------------------------------------------------------
(* A datagram's message is still there: processed or waiting, as a message *)
(* or in its packet.                                                       *)
Kept(d) == d.message \in processed \cup tasks \/ Packed(d.message) \in tasks

DatagramsInv ==
    /\ \A d \in sent : WellFormed(d)
    /\ received \subseteq sent
    /\ buffer \in [1..MAX_LENGTH -> Nat]
    /\ \A task \in tasks : TaskShape(task)
    /\ \A task \in processed : task.type \in SEND..READY
    /\ \A d \in received : Fits(d) => Kept(d)

(* The datagram sent is well-formed, in each form.                         *)
LEMMA SendKeepsForm ==
    ASSUME DatagramsInv, Send
    PROVE  \A d \in sent' : WellFormed(d)
<1>1. PICK m \in Message : ClientSend(m) \/ Broadcast(m)
  BY DEF Send
<1>2. CASE ClientSend(m)
  <2> DEFINE d == [message |-> m, form |-> "client", cells |-> ClientEncode(m)]
  <2>1. sent' = sent \cup {d} /\ ClientEncode(m) = Encode(m)
    BY <1>2 DEF ClientSend, ClientEncode, Encode
  <2>2. WellFormed(d)
    BY <2>1 DEF WellFormed
  <2>3. QED
    BY <2>1, <2>2 DEF DatagramsInv
<1>3. CASE Broadcast(m)
  <2> DEFINE p == [message |-> m, form |-> "plain", cells |-> Encode(m)]
             q == [message |-> m, form |-> "packet", cells |-> EncodePacket(<<m>>)]
  <2>1. sent' = sent \cup {p} \/ sent' = sent \cup {q}
    BY <1>3 DEF Broadcast
  <2>2. WellFormed(p) /\ WellFormed(q)
    BY DEF WellFormed
  <2>3. QED
    BY <2>1, <2>2 DEF DatagramsInv
<1>4. QED
  BY <1>1, <1>2, <1>3

(* Receiving a datagram posts what the lemma above says of it, or nothing. *)
LEMMA ReceivePosts ==
    ASSUME DatagramsInv, NEW d \in sent, Receive(d)
    PROVE  \E parsed : /\ tasks' = IF parsed = NullPtr THEN tasks ELSE tasks \cup {parsed}
                       /\ parsed = NullPtr \/ TaskShape(parsed)
                       /\ Fits(d) => parsed = d.message \/ parsed = Packed(d.message)
<1>1. WellFormed(d) /\ buffer \in [1..MAX_LENGTH -> Nat] /\ MAX_LENGTH \in Nat
  BY DatagramsAssumption DEF DatagramsInv
<1>2. /\ d.cells \in Seq(Nat) /\ Len(d.cells) \in Nat
      /\ Filled(d) \in Nat /\ Filled(d) <= Len(d.cells) /\ Filled(d) <= MAX_LENGTH
  BY <1>1, WellFormedCells
<1>3. buffer' = [i \in 1..MAX_LENGTH |-> IF i <= Len(d.cells) THEN d.cells[i] ELSE buffer[i]]
  BY DEF Receive
<1>4. PICK beyond \in [1..3 -> Cell] :
          LET parsed == ParseAny(buffer' \o beyond, 1, Filled(d))
          IN  tasks' = IF parsed = NullPtr THEN tasks ELSE tasks \cup {parsed}
  BY DEF Receive
<1> DEFINE memory == buffer' \o beyond
<1>5. buffer' \in Seq(Nat) /\ Len(buffer') = MAX_LENGTH
  <2>1. buffer' \in [1..MAX_LENGTH -> Nat]
    BY <1>1, <1>2, <1>3, LenProperties
  <2>2. QED
    BY <1>1, <2>1
<1>6. beyond \in Seq(Nat) /\ Len(beyond) = 3
  <2>1. beyond \in [1..3 -> Nat]
    BY DatagramsAssumption
  <2>2. \A n \in Nat : \A s \in [1..n -> Nat] : s \in Seq(Nat) /\ Len(s) = n
    OBVIOUS
  <2>3. 3 \in Nat
    OBVIOUS
  <2>4. QED
    BY <2>1, <2>2, <2>3
<1>7. /\ Len(memory) = Len(buffer') + Len(beyond)
      /\ \A i \in 1..(Len(buffer') + Len(beyond)) :
             memory[i] = IF i <= Len(buffer') THEN buffer'[i] ELSE beyond[i - Len(buffer')]
  <2> DEFINE b == buffer'
  <2>1. b \in Seq(Nat)
    BY <1>5
  <2> HIDE DEF b
  <2>2. /\ Len(b \o beyond) = Len(b) + Len(beyond)
        /\ \A i \in 1..(Len(b) + Len(beyond)) :
               (b \o beyond)[i] = IF i <= Len(b) THEN b[i] ELSE beyond[i - Len(b)]
    BY <1>6, <2>1, ConcatProperties
  <2>3. QED
    BY <2>2 DEF b
<1> HIDE DEF memory
<1>8. Len(memory) \in Nat /\ Len(memory) >= 2
  BY <1>1, <1>5, <1>6, <1>7
<1>9. Begins(memory, Filled(d), d.cells)
  <2> SUFFICES ASSUME NEW i \in 1..Filled(d) PROVE memory[i] = d.cells[i]
    BY <1>2 DEF Begins
  <2>1. i \in 1..MAX_LENGTH /\ i <= Len(d.cells) /\ i \in 1..(MAX_LENGTH + 3)
    BY <1>1, <1>2
  <2>2. memory[i] = buffer'[i]
    <3>1. i \in 1..(Len(buffer') + Len(beyond)) /\ i <= Len(buffer')
      BY <1>1, <1>5, <1>6, <2>1
    <3>2. QED
      BY <1>7, <3>1
  <2>3. buffer'[i] = d.cells[i]
    BY <1>3, <2>1
  <2>4. QED
    BY <2>2, <2>3
<1> DEFINE parsed == ParseAny(memory, 1, Filled(d))
<1>10. /\ parsed = NullPtr \/ TaskShape(parsed)
       /\ Fits(d) => parsed = d.message \/ parsed = Packed(d.message)
  BY <1>1, <1>8, <1>9, DatagramParsed
<1>11. tasks' = IF parsed = NullPtr THEN tasks ELSE tasks \cup {parsed}
  BY <1>4 DEF memory
<1> HIDE DEF parsed
<1>12. QED
  BY <1>10, <1>11

(* The messages of a packet that may wait.                                 *)
LEMMA Unpacked ==
    ASSUME NEW task, TaskShape(task), task.type = PACKET
    PROVE  \E m : m.type \in SEND..READY /\ task = Packed(m) /\ Range(task.messages) = {m}
<1>1. PACKET \notin SEND..READY
  BY DEF PACKET, SEND, READY
<1>2. PICK m : m.type \in SEND..READY /\ task = Packed(m)
  BY <1>1 DEF TaskShape
<1>3. task.messages = <<m>>
  BY <1>2 DEF Packed
<1>4. Range(<<m>>) = {m}
  BY DEF Range
<1>5. QED
  BY <1>2, <1>3, <1>4

(* Each action keeps the invariant.                                        *)
LEMMA ReceiveKeepsInv ==
    ASSUME DatagramsInv, NEW d \in sent, Receive(d)
    PROVE  DatagramsInv'
<1>1. PICK parsed : /\ tasks' = IF parsed = NullPtr THEN tasks ELSE tasks \cup {parsed}
                    /\ parsed = NullPtr \/ TaskShape(parsed)
                    /\ Fits(d) => parsed = d.message \/ parsed = Packed(d.message)
  BY ReceivePosts
<1>2. received' = received \cup {d} /\ sent' = sent /\ processed' = processed
  BY DEF Receive
<1>3. WellFormed(d) /\ d.message.type \in SEND..READY
  BY DatagramsAssumption DEF DatagramsInv, WellFormed
<1>4. buffer' \in [1..MAX_LENGTH -> Nat]
  <2>1. d.cells \in Seq(Nat) /\ Len(d.cells) \in Nat
    BY <1>3, WellFormedCells
  <2>2. \A i \in 1..Len(d.cells) : d.cells[i] \in Nat
    BY <2>1, LenProperties
  <2>3. buffer' = [i \in 1..MAX_LENGTH |-> IF i <= Len(d.cells) THEN d.cells[i] ELSE buffer[i]]
    BY DEF Receive
  <2>4. QED
    BY <2>1, <2>2, <2>3 DEF DatagramsInv
<1>5. ASSUME Fits(d) PROVE d.message \in tasks' \/ Packed(d.message) \in tasks'
  <2>1. parsed # NullPtr
    BY <1>1, <1>3, <1>5, TypesDiffer
  <2>2. QED
    BY <1>1, <1>5, <2>1
<1>6. \A task \in tasks' : TaskShape(task)
  BY <1>1 DEF DatagramsInv
<1>7. tasks \subseteq tasks'
  BY <1>1
<1>8. \A e \in received' : Fits(e) => Kept(e)'
  BY <1>2, <1>5, <1>7 DEF DatagramsInv, Kept
<1>9. QED
  BY <1>2, <1>4, <1>6, <1>8 DEF DatagramsInv

LEMMA RunTaskKeepsInv ==
    ASSUME DatagramsInv, NEW task \in tasks, RunTask(task)
    PROVE  DatagramsInv'
<1>1. UNCHANGED <<sent, received, buffer>> /\ TaskShape(task)
  BY DEF RunTask, DatagramsInv
<1>2. \A d \in received : d.message.type \in SEND..READY
  BY DatagramsAssumption DEF DatagramsInv, WellFormed
<1>3. CASE task.type = PACKET
  <2>1. PICK m : m.type \in SEND..READY /\ task = Packed(m) /\ Range(task.messages) = {m}
    BY <1>1, <1>3, Unpacked
  <2>2. tasks' = (tasks \ {task}) \cup {m} /\ processed' = processed
    BY <1>3, <2>1 DEF RunTask
  <2>3. \A t \in tasks' : TaskShape(t)
    BY <2>1, <2>2 DEF DatagramsInv, TaskShape
  <2>4. ASSUME NEW d \in received, Fits(d) PROVE Kept(d)'
    <3>1. Kept(d) /\ d.message # task
      BY <1>2, <1>3, <2>4, TypesDiffer DEF DatagramsInv
    <3>2. CASE Packed(d.message) = task
      <4>1. d.message = m
        BY <2>1, <3>2 DEF Packed
      <4>2. QED
        BY <2>2, <4>1 DEF Kept
    <3>3. CASE Packed(d.message) # task
      BY <2>2, <3>1, <3>3 DEF Kept
    <3>4. QED
      BY <3>2, <3>3
  <2>5. QED
    BY <1>1, <2>2, <2>3, <2>4 DEF DatagramsInv
<1>4. CASE task.type # PACKET
  <2>1. tasks' = tasks \ {task} /\ processed' = processed \cup {task}
    BY <1>4 DEF RunTask
  <2>2. task.type \in SEND..READY
    BY <1>1, <1>4 DEF TaskShape, Packed
  <2>3. ASSUME NEW d \in received, Fits(d) PROVE Kept(d)'
    <3>1. Kept(d) /\ Packed(d.message) # task
      BY <1>4, <2>3 DEF DatagramsInv, Packed
    <3>2. QED
      BY <2>1, <3>1 DEF Kept
  <2>4. QED
    BY <1>1, <2>1, <2>2, <2>3 DEF DatagramsInv
<1>5. QED
  BY <1>3, <1>4

LEMMA DatagramsInvariant == Spec => []DatagramsInv
<1>1. Init => DatagramsInv
  BY DatagramsAssumption DEF Init, DatagramsInv
<1>2. DatagramsInv /\ [Next]_vars => DatagramsInv'
  <2> SUFFICES ASSUME DatagramsInv, [Next]_vars PROVE DatagramsInv'
    OBVIOUS
  <2>1. CASE Send
    <3>1. UNCHANGED <<received, buffer, tasks, processed>> /\ sent \subseteq sent'
      BY <2>1 DEF Send, ClientSend, Broadcast
    <3>2. QED
      BY <2>1, <3>1, SendKeepsForm DEF DatagramsInv, Kept
  <2>2. ASSUME NEW d \in sent, Receive(d) PROVE DatagramsInv'
    BY <2>2, ReceiveKeepsInv
  <2>3. ASSUME NEW task \in tasks, RunTask(task) PROVE DatagramsInv'
    BY <2>3, RunTaskKeepsInv
  <2>4. CASE UNCHANGED vars
    BY <2>4 DEF vars, DatagramsInv, Kept
  <2>5. QED
    BY <2>1, <2>2, <2>3, <2>4 DEF Next
<1>3. QED
  BY <1>1, <1>2, PTL DEF Spec

(* What waits and what was processed has a type the tasks know, whatever   *)
(* was cut: no packet is passed on as a message and no nullptr is posted.  *)
THEOREM DatagramsTypeCorrect == Spec => []TypeOK
<1>1. DatagramsInv => TypeOK
  <2>1. ASSUME NEW task, TaskShape(task) PROVE task.type \in SEND..PACKET
    BY <2>1 DEF TaskShape, Packed, SEND, READY, PACKET
  <2>2. \A task : task.type \in SEND..READY => task.type \in SEND..PACKET /\ task.type # PACKET
    BY DEF SEND, READY, PACKET
  <2>3. QED
    BY <2>1, <2>2 DEF DatagramsInv, TypeOK, WellFormed
<1>2. QED
  BY <1>1, DatagramsInvariant, PTL

(* Nothing that fits the buffer is lost between the socket and the session.*)
THEOREM NothingReceivedIsLost == Spec => []ReceivedIsProcessed
<1>1. DatagramsInv => ReceivedIsProcessed
  BY DEF DatagramsInv, ReceivedIsProcessed, Kept
<1>2. QED
  BY <1>1, DatagramsInvariant, PTL

-----------------------------------------------------------------------------
(* All that waits and all that was processed came in a datagram.           *)
FromDatagrams ==
    /\ \A task \in tasks :
          \E d \in received : task = d.message \/ task = Packed(d.message)
    /\ ProcessedWasSent

(* Encoding and parsing are inverse for every message, in every form: what *)
(* the sessions are given is what was sent.                                *)
THEOREM MessagesArriveUnchanged ==
    ASSUME PacketsFit
    PROVE  Spec => []ProcessedWasSent
<1>1. Init => FromDatagrams
  BY DEF Init, FromDatagrams, ProcessedWasSent
<1>2. DatagramsInv /\ FromDatagrams /\ [Next]_vars => FromDatagrams'
  <2> SUFFICES ASSUME DatagramsInv, FromDatagrams, [Next]_vars PROVE FromDatagrams'
    OBVIOUS
  <2>1. CASE Send
    BY <2>1 DEF Send, FromDatagrams, ProcessedWasSent
  <2>2. ASSUME NEW d \in sent, Receive(d) PROVE FromDatagrams'
    <3>1. Fits(d)
      <4>1. WellFormed(d)
        BY DEF DatagramsInv
      <4>2. /\ Len(EncodePacket(<<d.message>>)) = 8 + Len(d.message.data)
            /\ Len(Encode(d.message)) = 5 + Len(d.message.data)
            /\ Len(d.message.data) \in Nat
        BY <4>1, PacketCells, EncodeCells DEF WellFormed
      <4>3. Len(EncodePacket(<<d.message>>)) <= MAX_LENGTH
        BY <4>1 DEF PacketsFit, WellFormed
      <4>4. MAX_LENGTH \in Nat
        BY DatagramsAssumption
      <4>5. Len(d.cells) <= MAX_LENGTH
        BY <4>1, <4>2, <4>3, <4>4 DEF WellFormed
      <4>6. QED
        BY <4>5 DEF Fits
    <3>2. tasks' \subseteq tasks \cup {d.message, Packed(d.message)}
      BY <2>2, <3>1, ReceivePosts
    <3>3. received' = received \cup {d} /\ processed' = processed
      BY <2>2 DEF Receive
    <3>4. QED
      BY <3>2, <3>3 DEF FromDatagrams, ProcessedWasSent
  <2>3. ASSUME NEW task \in tasks, RunTask(task) PROVE FromDatagrams'
    <3>1. PICK d \in received : task = d.message \/ task = Packed(d.message)
      BY DEF FromDatagrams
    <3>2. received' = received
      BY <2>3 DEF RunTask
    <3>3. d.message.type # PACKET
      BY TypesDiffer, DatagramsAssumption DEF DatagramsInv, WellFormed
    <3>4. CASE task.type = PACKET
      <4>1. Range(task.messages) = {d.message}
        BY <3>1, <3>3, <3>4 DEF Packed, Range
      <4>2. tasks' = (tasks \ {task}) \cup {d.message} /\ processed' = processed
        BY <2>3, <3>4, <4>1 DEF RunTask
      <4>3. QED
        BY <3>2, <4>2 DEF FromDatagrams, ProcessedWasSent
    <3>5. CASE task.type # PACKET
      <4>1. task = d.message
        BY <3>1, <3>5 DEF Packed
      <4>2. tasks' = tasks \ {task} /\ processed' = processed \cup {task}
        BY <2>3, <3>5 DEF RunTask
      <4>3. QED
        BY <3>2, <4>1, <4>2 DEF FromDatagrams, ProcessedWasSent
    <3>6. QED
      BY <3>4, <3>5
  <2>4. CASE UNCHANGED vars
    BY <2>4 DEF vars, FromDatagrams, ProcessedWasSent
  <2>5. QED
    BY <2>1, <2>2, <2>3, <2>4 DEF Next
<1>3. FromDatagrams => ProcessedWasSent
  BY DEF FromDatagrams
<1>4. QED
  BY <1>1, <1>2, <1>3, DatagramsInvariant, PTL DEF Spec

=============================================================================
