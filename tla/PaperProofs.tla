---------------------------- MODULE PaperProofs ----------------------------
(***************************************************************************)
(* Theorems about Paper, for every set of jobs and tickets, any number of  *)
(* attempts and any width of a byte.  First what the printer makes of a    *)
(* sequence of bytes, one after the other: an encoded document leaves it   *)
(* as it found it.  Then the invariants that say which copies of a job     *)
(* were accepted, which still wait, and which came out.                    *)
(***************************************************************************)
EXTENDS Paper, InductionOverSets, TLAPS

-----------------------------------------------------------------------------
(* A document is a sequence of bytes. *)

Bytes == [kind : {"text", "command", "data"}, takes : Nat]

LEMMA SingleBytes ==
    /\ Text \in Bytes
    /\ \A n \in Nat : Taking(n) \in Bytes
  BY DEF Text, Taking, Bytes

LEMMA DataBytes == ASSUME NEW n \in Nat PROVE Data(n) \in Seq(Bytes)
<1>1. [kind |-> "data", takes |-> 0] \in Bytes
  BY DEF Bytes
<1> QED
  BY <1>1 DEF Data

LEMMA OrderBytes ==
    ASSUME NEW m \in Nat, NEW n \in Nat
    PROVE  Order(m, n) \in Seq(Bytes)
<1>1. <<Taking(m)>> \in Seq(Bytes) /\ Data(n) \in Seq(Bytes)
  BY SingleBytes, DataBytes
<1> QED
  BY <1>1 DEF Order

LEMMA FixedBytes == FixedOrder \in Seq(Bytes)
  BY OrderBytes DEF FixedOrder

\* Two bytes say a natural number, whatever they are made from.
LEMMA TwoBytesNat == ASSUME NEW n \in Int PROVE InTwoBytes(n) \in Nat
<1>1. Byte \in Nat /\ Byte > 0
  BY PaperAssumption
<1>2. n % Byte \in Nat /\ (n \div Byte) \in Int
  BY <1>1
<1>3. (n \div Byte) % Byte \in Nat
  BY <1>1, <1>2
<1>4. Byte * ((n \div Byte) % Byte) \in Nat
  BY <1>1, <1>3
<1> QED
  BY <1>2, <1>4 DEF InTwoBytes

LEMMA LogoBytes ==
    ASSUME NEW t \in Tickets
    PROVE  EscposLogo(t.logo) \in Seq(Bytes)
<1>1. CASE t.logo = NoLogo \/ ~LogoFits(t.logo)
  BY <1>1 DEF EscposLogo
<1>2. CASE t.logo # NoLogo /\ LogoFits(t.logo)
  <2> DEFINE logo == t.logo
             dots == InTwoBytes(logo.width \div DotsPerByte) * InTwoBytes(logo.height)
  <2>1. logo \in Logos
    BY <1>2, PaperAssumption
  <2>2. logo.width \div DotsPerByte \in Int /\ logo.height \in Int /\ logo.size \in Nat
    BY <2>1, PaperAssumption DEF Logos
  <2>3. dots \in Nat
    <3>1. /\ InTwoBytes(logo.width \div DotsPerByte) \in Nat
          /\ InTwoBytes(logo.height) \in Nat
      BY <2>2, TwoBytesNat
    <3>2. \A m, n \in Nat : m * n \in Nat
      OBVIOUS
    <3> QED
      BY <3>1, <3>2
  <2> HIDE DEF dots
  <2>4. 1 + dots \in Nat /\ 1 + logo.size \in Nat
    BY <2>2, <2>3
  <2> DEFINE image == Order(1 + dots, 1 + logo.size)
  <2>5. image \in Seq(Bytes) /\ <<Text>> \in Seq(Bytes)
    <3>1. image \in Seq(Bytes)
      BY <2>4, OrderBytes
    <3>2. <<Text>> \in Seq(Bytes)
      BY SingleBytes
    <3> QED
      BY <3>1, <3>2
  <2> HIDE DEF image
  <2>6. FixedOrder \o image \o <<Text>> \o FixedOrder \in Seq(Bytes)
    BY <2>5, FixedBytes
  <2> QED
    BY <1>2, <2>6 DEF EscposLogo, dots, image
<1> QED
  BY <1>1, <1>2

LEMMA QRBytes == ASSUME NEW qr \in Nat PROVE EscposQR(qr) \in Seq(Bytes)
<1> DEFINE stored == Order(1 + InTwoBytes(StoreLen(qr)), 1 + 3 + qr)
<1>1. InTwoBytes(StoreLen(qr)) \in Nat
  BY TwoBytesNat DEF StoreLen
<1>2. stored \in Seq(Bytes)
  <2>1. 1 + InTwoBytes(StoreLen(qr)) \in Nat /\ 1 + 3 + qr \in Nat
    BY <1>1
  <2> QED
    BY <2>1, OrderBytes
<1> HIDE DEF stored
<1>3. FixedOrder \o stored \o FixedOrder \in Seq(Bytes)
  BY <1>2, FixedBytes
<1> QED
  BY <1>3 DEF EscposQR, stored

LEMMA WordsBytes == \A t : Words(t) \in Seq(Bytes)
<1>1. <<Taking(1)>> \in Seq(Bytes) /\ <<Text>> \in Seq(Bytes)
  BY SingleBytes
<1> QED
  BY <1>1 DEF Words

LEMMA TestPageBytes == TestPage \in Seq(Bytes) /\ Len(TestPage) >= 1
<1>1. <<Text>> \in Seq(Bytes) /\ Len(<<Text>>) = 1
  BY SingleBytes
<1>2. Len(FixedOrder) \in Nat /\ FixedOrder \in Seq(Bytes)
  BY FixedBytes
<1> QED
  BY <1>1, <1>2 DEF TestPage

\* The parts of a ticket that not every one has.
Code(t) == IF t.qr = 0 THEN <<>> ELSE FixedOrder \o EscposQR(t.qr) \o FixedOrder \o <<Text>>
Drawer(t) == IF t.openDrawer THEN FixedOrder ELSE <<>>
Cut(t) == IF t.cutPaper THEN FixedOrder ELSE <<>>

LEMMA TicketParts ==
    ASSUME NEW t \in Tickets
    PROVE  /\ Ticket(t) = FixedOrder \o EscposLogo(t.logo) \o FixedOrder \o Words(t)
                             \o FixedOrder \o Words(t) \o Code(t) \o Drawer(t) \o Cut(t)
           /\ EscposLogo(t.logo) \in Seq(Bytes) /\ Words(t) \in Seq(Bytes)
           /\ Code(t) \in Seq(Bytes) /\ Drawer(t) \in Seq(Bytes) /\ Cut(t) \in Seq(Bytes)
<1>1. EscposLogo(t.logo) \in Seq(Bytes) /\ EscposQR(t.qr) \in Seq(Bytes)
  BY LogoBytes, QRBytes, PaperAssumption
<1>2. <<Text>> \in Seq(Bytes) /\ <<>> \in Seq(Bytes) /\ FixedOrder \in Seq(Bytes)
  BY SingleBytes, FixedBytes
<1>3. Code(t) \in Seq(Bytes)
  BY <1>1, <1>2 DEF Code
<1>4. Drawer(t) \in Seq(Bytes) /\ Cut(t) \in Seq(Bytes)
  BY <1>2 DEF Drawer, Cut
<1>5. Ticket(t) = FixedOrder \o EscposLogo(t.logo) \o FixedOrder \o Words(t)
                    \o FixedOrder \o Words(t) \o Code(t) \o Drawer(t) \o Cut(t)
  BY DEF Ticket, Code, Drawer, Cut
<1> QED
  BY <1>1, <1>3, <1>4, <1>5, WordsBytes

LEMMA TicketBytes == ASSUME NEW t \in Tickets PROVE Ticket(t) \in Seq(Bytes)
<1> PICK logo, words, code, drawer, cut :
        /\ logo = EscposLogo(t.logo) /\ words = Words(t)
        /\ code = Code(t) /\ drawer = Drawer(t) /\ cut = Cut(t)
  OBVIOUS
<1>1. /\ logo \in Seq(Bytes) /\ words \in Seq(Bytes) /\ code \in Seq(Bytes)
      /\ drawer \in Seq(Bytes) /\ cut \in Seq(Bytes) /\ FixedOrder \in Seq(Bytes)
  BY TicketParts, FixedBytes
<1>2. FixedOrder \o logo \o FixedOrder \o words \o FixedOrder \o words \o code \o drawer \o cut
          \in Seq(Bytes)
  BY <1>1
<1> QED
  BY <1>2, TicketParts

-----------------------------------------------------------------------------
(* What the printer makes of a sequence of bytes. *)

Reads(f, state, bytes, n) ==
    f = [k \in 0..n |-> IF k = 0 THEN state ELSE ReadByte(f[k - 1], bytes[k])]

LEMMA ReadsExists ==
    ASSUME NEW state, NEW bytes, NEW n \in Nat
    PROVE  \E f : Reads(f, state, bytes, n)
<1> DEFINE N == {m \in Nat : \E f : Reads(f, state, bytes, m)}
<1>1. 0 \in N
  <2> DEFINE f == [k \in 0..0 |-> state]
  <2>1. Reads(f, state, bytes, 0)
    BY DEF Reads
  <2> QED
    BY <2>1
<1>2. ASSUME NEW m \in Nat, m \in N PROVE m + 1 \in N
  <2>1. PICK f : Reads(f, state, bytes, m)
    BY <1>2
  <2> DEFINE g == [k \in 0..(m + 1) |->
                      IF k =< m THEN f[k] ELSE ReadByte(f[m], bytes[m + 1])]
  <2>2. \A k \in 0..m : f[k] = IF k = 0 THEN state ELSE ReadByte(f[k - 1], bytes[k])
    BY <2>1 DEF Reads
  <2>3. ASSUME NEW k \in 0..(m + 1)
        PROVE  g[k] = IF k = 0 THEN state ELSE ReadByte(g[k - 1], bytes[k])
    <3>1. CASE k = m + 1
      BY <3>1
    <3>2. CASE k \in 1..m
      BY <2>2, <3>2
    <3>3. CASE k = 0
      BY <2>2, <3>3
    <3> QED
      BY <3>1, <3>2, <3>3
  <2>4. Reads(g, state, bytes, m + 1)
    BY <2>3 DEF Reads
  <2> QED
    BY <2>4
<1> HIDE DEF N
<1>3. Nat \subseteq N
  BY <1>1, <1>2, AllNaturals
<1> QED
  BY <1>3 DEF N

LEMMA ReadingByFunction ==
    ASSUME NEW state, NEW bytes, NEW n \in Nat
    PROVE  \E f : Reads(f, state, bytes, n) /\ AfterReading(state, bytes, n) = f[n]
<1> DEFINE f == CHOOSE f : f = [k \in 0..n |->
                   IF k = 0 THEN state ELSE ReadByte(f[k - 1], bytes[k])]
<1>1. \E g : g = [k \in 0..n |-> IF k = 0 THEN state ELSE ReadByte(g[k - 1], bytes[k])]
  <2>1. PICK g : Reads(g, state, bytes, n)
    BY ReadsExists
  <2> QED
    BY <2>1, Zenon DEF Reads
<1>2. f = [k \in 0..n |-> IF k = 0 THEN state ELSE ReadByte(f[k - 1], bytes[k])]
  BY <1>1, Zenon
<1>3. AfterReading(state, bytes, n) = f[n]
  BY DEF AfterReading
<1>4. Reads(f, state, bytes, n)
  BY <1>2 DEF Reads
<1> QED
  BY <1>3, <1>4

\* Two readings that meet go on together as long as the bytes are the same.
LEMMA ReadingsAgree ==
    ASSUME NEW f, NEW state, NEW b, NEW n \in Nat, Reads(f, state, b, n),
           NEW g, NEW other, NEW c, NEW m \in Nat, Reads(g, other, c, m),
           NEW p \in Nat, p + m =< n, f[p] = other, \A k \in 1..m : b[p + k] = c[k]
    PROVE  f[p + m] = g[m]
<1> DEFINE N == {k \in Nat : k =< m => f[p + k] = g[k]}
<1>0. /\ \A k \in 0..n : f[k] = IF k = 0 THEN state ELSE ReadByte(f[k - 1], b[k])
      /\ \A k \in 0..m : g[k] = IF k = 0 THEN other ELSE ReadByte(g[k - 1], c[k])
  BY DEF Reads
<1>1. 0 \in N
  BY <1>0
<1>2. ASSUME NEW k \in Nat, k \in N PROVE k + 1 \in N
  <2> SUFFICES ASSUME k + 1 =< m PROVE f[p + (k + 1)] = g[k + 1]
    OBVIOUS
  <2>1. /\ k + 1 \in 1..m /\ k + 1 # 0 /\ (k + 1) - 1 = k
        /\ p + (k + 1) \in 0..n /\ p + (k + 1) # 0 /\ (p + (k + 1)) - 1 = p + k
    OBVIOUS
  <2>2. f[p + k] = g[k] /\ b[p + (k + 1)] = c[k + 1]
    BY <1>2, <2>1
  <2>3. f[p + (k + 1)] = ReadByte(f[p + k], b[p + (k + 1)])
    BY <1>0, <2>1
  <2>4. g[k + 1] = ReadByte(g[k], c[k + 1])
    BY <1>0, <2>1
  <2> QED
    BY <2>2, <2>3, <2>4
<1> HIDE DEF N
<1>3. Nat \subseteq N
  BY <1>1, <1>2, AllNaturals
<1> QED
  BY <1>3 DEF N

LEMMA AfterNothing ==
    ASSUME NEW state, NEW bytes
    PROVE  AfterReading(state, bytes, 0) = state
<1>1. PICK f : Reads(f, state, bytes, 0) /\ AfterReading(state, bytes, 0) = f[0]
  BY ReadingByFunction
<1> QED
  BY <1>1 DEF Reads

LEMMA AfterOneMore ==
    ASSUME NEW state, NEW bytes, NEW n \in Nat
    PROVE  AfterReading(state, bytes, n + 1)
               = ReadByte(AfterReading(state, bytes, n), bytes[n + 1])
<1>1. PICK f : Reads(f, state, bytes, n + 1) /\ AfterReading(state, bytes, n + 1) = f[n + 1]
  BY ReadingByFunction
<1>2. PICK g : Reads(g, state, bytes, n) /\ AfterReading(state, bytes, n) = g[n]
  BY ReadingByFunction
<1>3. f[0] = state /\ f[n + 1] = ReadByte(f[n], bytes[n + 1])
  <2>1. \A k \in 0..(n + 1) : f[k] = IF k = 0 THEN state ELSE ReadByte(f[k - 1], bytes[k])
    BY <1>1 DEF Reads
  <2>2. n + 1 \in 0..(n + 1) /\ n + 1 # 0 /\ (n + 1) - 1 = n
    OBVIOUS
  <2> QED
    BY <2>1, <2>2
<1>4. f[0 + n] = g[n]
  <2>1. n + 1 \in Nat /\ 0 + n =< n + 1 /\ \A k \in 1..n : bytes[0 + k] = bytes[k]
    OBVIOUS
  <2> QED
    BY <1>1, <1>2, <1>3, <2>1, ReadingsAgree
<1> QED
  BY <1>1, <1>2, <1>3, <1>4

\* A stream is read one sequence after the other.
LEMMA AfterConcat ==
    ASSUME NEW T, NEW s \in Seq(T), NEW t \in Seq(T), NEW state
    PROVE  AfterReading(state, s \o t, Len(s \o t))
               = AfterReading(AfterReading(state, s, Len(s)), t, Len(t))
<1> DEFINE u == s \o t
           p == Len(s)
           m == Len(t)
           n == Len(u)
<1>1. /\ p \in Nat /\ m \in Nat /\ n \in Nat /\ n = p + m
      /\ \A k \in 1..p : u[0 + k] = s[k]
      /\ \A k \in 1..m : u[p + k] = t[k]
  OBVIOUS
<1> HIDE DEF u, p, m, n
<1>2. PICK f : Reads(f, state, u, n) /\ AfterReading(state, u, n) = f[n]
  BY <1>1, ReadingByFunction
<1>3. PICK g : Reads(g, state, s, p) /\ AfterReading(state, s, p) = g[p]
  BY <1>1, ReadingByFunction
<1>4. PICK h : Reads(h, g[p], t, m) /\ AfterReading(g[p], t, m) = h[m]
  BY <1>1, ReadingByFunction
<1>5. f[0] = state
  BY <1>1, <1>2 DEF Reads
<1>6. f[0 + p] = g[p]
  <2>1. 0 + p =< n
    BY <1>1
  <2> QED
    BY <1>1, <1>2, <1>3, <1>5, <2>1, ReadingsAgree
<1>7. f[p + m] = h[m]
  <2>1. p + m =< n /\ f[p] = g[p]
    BY <1>1, <1>6
  <2> QED
    BY <1>1, <1>2, <1>4, <2>1, ReadingsAgree
<1>8. AfterReading(state, u, n) = AfterReading(AfterReading(state, s, p), t, m)
  BY <1>1, <1>2, <1>3, <1>4, <1>7
<1> QED
  BY <1>8 DEF u, p, m, n

-----------------------------------------------------------------------------
(* Documents that leave the printer as they found it. *)

Printer(n) == [need |-> n, damaged |-> FALSE]
Fresh == Printer(0)

\* A sequence after which the printer waits for n bytes of data, and a whole one.
Wants(s, n) == AfterReading(Fresh, s, Len(s)) = Printer(n)
Clean(s) == Wants(s, 0)

LEMMA CommandRead ==
    ASSUME NEW byte, byte.kind # "data"
    PROVE  ReadByte(Fresh, byte) = Printer(byte.takes)
<1>1. (FALSE \/ byte.kind = "data") = FALSE
  OBVIOUS
<1>2. Fresh.need = 0 /\ Fresh.damaged = FALSE /\ ~(0 > 0)
  BY DEF Fresh, Printer
<1>3. ReadByte(Fresh, byte) = [need |-> byte.takes, damaged |-> Fresh.damaged \/ byte.kind = "data"]
  BY <1>2, Zenon DEF ReadByte
<1> QED
  BY <1>1, <1>2, <1>3, Zenon DEF Printer

LEMMA PlainIsClean ==
    ASSUME NEW s \in Seq({Text})
    PROVE  Clean(s)
<1> DEFINE N == {n \in Nat : n =< Len(s) => AfterReading(Fresh, s, n) = Fresh}
<1>1. 0 \in N
  BY AfterNothing
<1>2. ASSUME NEW n \in Nat, n \in N PROVE n + 1 \in N
  <2> SUFFICES ASSUME n + 1 =< Len(s) PROVE AfterReading(Fresh, s, n + 1) = Fresh
    OBVIOUS
  <2>1. n + 1 \in 1..Len(s) /\ n =< Len(s)
    OBVIOUS
  <2>2. s[n + 1] \in {Text}
    BY <2>1
  <2>3. ReadByte(Fresh, s[n + 1]) = Fresh
    <3>1. s[n + 1].kind # "data" /\ s[n + 1].takes = 0
      BY <2>2 DEF Text
    <3>2. ReadByte(Fresh, s[n + 1]) = Printer(s[n + 1].takes)
      BY <3>1, CommandRead
    <3> QED
      BY <3>1, <3>2 DEF Fresh
  <2>4. AfterReading(Fresh, s, n) = Fresh
    BY <1>2, <2>1
  <2>5. AfterReading(Fresh, s, n + 1) = ReadByte(AfterReading(Fresh, s, n), s[n + 1])
    BY AfterOneMore
  <2> QED
    BY <2>3, <2>4, <2>5
<1> HIDE DEF N
<1>3. Nat \subseteq N
  BY <1>1, <1>2, AllNaturals
<1>4. Len(s) \in Nat
  OBVIOUS
<1>5. AfterReading(Fresh, s, Len(s)) = Fresh
  BY <1>3, <1>4 DEF N
<1> QED
  BY <1>5 DEF Clean, Wants, Fresh

LEMMA CleanThenWants ==
    ASSUME NEW s \in Seq(Bytes), NEW t \in Seq(Bytes), NEW n, Clean(s), Wants(t, n)
    PROVE  Wants(s \o t, n)
<1>1. AfterReading(Fresh, s \o t, Len(s \o t))
          = AfterReading(AfterReading(Fresh, s, Len(s)), t, Len(t))
  BY AfterConcat
<1>2. AfterReading(Fresh, s, Len(s)) = Fresh
  BY DEF Clean, Wants, Fresh
<1> QED
  BY <1>1, <1>2 DEF Wants

LEMMA CleanConcat ==
    ASSUME NEW s \in Seq(Bytes), NEW t \in Seq(Bytes), Clean(s), Clean(t)
    PROVE  Clean(s \o t)
  BY CleanThenWants DEF Clean

LEMMA OneWants ==
    ASSUME NEW n \in Nat
    PROVE  Wants(<<Taking(n)>>, n)
<1> DEFINE s == <<Taking(n)>>
<1>1. Len(s) = 0 + 1 /\ s[0 + 1] = Taking(n)
  OBVIOUS
<1> HIDE DEF s
<1>2. AfterReading(Fresh, s, 0 + 1) = ReadByte(AfterReading(Fresh, s, 0), s[0 + 1])
  BY AfterOneMore
<1>3. AfterReading(Fresh, s, 0) = Fresh
  BY AfterNothing
<1>4. ReadByte(Fresh, Taking(n)) = Printer(n)
  <2>1. Taking(n).kind # "data" /\ Taking(n).takes = n
    BY DEF Taking
  <2> QED
    BY <2>1, CommandRead
<1>5. AfterReading(Fresh, s, Len(s)) = Printer(n)
  BY <1>1, <1>2, <1>3, <1>4
<1> QED
  BY <1>5 DEF s, Wants

\* Data is what a command that waits for so much of it takes.
LEMMA DataTaken ==
    ASSUME NEW s \in Seq(Bytes), NEW n \in Nat, Wants(s, n)
    PROVE  Clean(s \o Data(n))
<1> DEFINE d == Data(n)
           N == {k \in Nat : k =< n => AfterReading(Printer(n), d, k) = Printer(n - k)}
<1>0. d \in Seq(Bytes) /\ Len(d) = n /\ \A k \in 1..n : d[k].kind = "data"
  <2>1. d \in Seq(Bytes)
    BY DataBytes
  <2>2. d = [k \in 1..n |-> [kind |-> "data", takes |-> 0]]
    BY DEF Data
  <2>3. DOMAIN d = 1..n /\ DOMAIN d = 1..Len(d) /\ Len(d) \in Nat
    BY <2>1, <2>2
  <2>4. Len(d) = n
    BY <2>3
  <2> QED
    BY <2>1, <2>2, <2>4
<1> HIDE DEF d
<1>1. 0 \in N
  BY AfterNothing
<1>2. ASSUME NEW k \in Nat, k \in N PROVE k + 1 \in N
  <2> SUFFICES ASSUME k + 1 =< n
               PROVE  AfterReading(Printer(n), d, k + 1) = Printer(n - (k + 1))
    OBVIOUS
  <2>1. k + 1 \in 1..n /\ k =< n /\ n - k > 0 /\ (n - k) - 1 = n - (k + 1)
    OBVIOUS
  <2>2. AfterReading(Printer(n), d, k) = Printer(n - k)
    BY <1>2, <2>1
  <2>3. d[k + 1].kind = "data"
    BY <1>0, <2>1
  <2>4. ReadByte(Printer(n - k), d[k + 1]) = Printer(n - (k + 1))
    BY <2>1, <2>3 DEF ReadByte, Printer
  <2>5. AfterReading(Printer(n), d, k + 1) = ReadByte(AfterReading(Printer(n), d, k), d[k + 1])
    BY AfterOneMore
  <2> QED
    BY <2>2, <2>4, <2>5
<1> HIDE DEF N
<1>3. Nat \subseteq N
  BY <1>1, <1>2, AllNaturals
<1>4. AfterReading(Printer(n), d, Len(d)) = Printer(0)
  <2>1. n - n = 0
    OBVIOUS
  <2> QED
    BY <1>0, <1>3, <2>1 DEF N
<1>5. AfterReading(Fresh, s \o d, Len(s \o d))
          = AfterReading(AfterReading(Fresh, s, Len(s)), d, Len(d))
  BY <1>0, AfterConcat
<1> QED
  BY <1>4, <1>5 DEF Clean, Wants, d

\* What a document is put together from.
Part(s) == s \in Seq(Bytes) /\ Clean(s)

LEMMA PartsTogether == \A s, t : Part(s) /\ Part(t) => Part(s \o t)
<1> SUFFICES ASSUME NEW s, NEW t, Part(s), Part(t) PROVE Part(s \o t)
  OBVIOUS
<1>1. s \in Seq(Bytes) /\ t \in Seq(Bytes) /\ Clean(s) /\ Clean(t)
  BY DEF Part
<1>2. s \o t \in Seq(Bytes)
  BY <1>1
<1>3. Clean(s \o t)
  BY <1>1, CleanConcat
<1> QED
  BY <1>2, <1>3 DEF Part

\* A command that takes as many bytes as are sent for it.
LEMMA OrderPart == ASSUME NEW n \in Nat PROVE Part(Order(n, n))
<1>1. <<Taking(n)>> \in Seq(Bytes) /\ Wants(<<Taking(n)>>, n)
  BY SingleBytes, OneWants
<1> QED
  BY <1>1, DataTaken, OrderBytes DEF Order, Part

LEMMA FixedPart == Part(FixedOrder)
  BY OrderPart DEF FixedOrder

LEMMA PlainPart == Part(<<>>) /\ Part(<<Text>>)
<1>1. <<>> \in Seq({Text}) /\ <<Text>> \in Seq({Text})
  OBVIOUS
<1>2. <<>> \in Seq(Bytes) /\ <<Text>> \in Seq(Bytes)
  BY SingleBytes
<1> QED
  BY <1>1, <1>2, PlainIsClean DEF Part

\* Two bytes are enough for what is less than the square of their values.
LEMMA TwoBytesExact ==
    ASSUME NEW n \in Nat, n < Byte * Byte
    PROVE  InTwoBytes(n) = n
<1>0. Byte \in Nat /\ Byte > 0
  BY PaperAssumption
<1> DEFINE q == n \div Byte
<1>1. q \in Nat /\ q < Byte
  BY <1>0
<1>2. (n % Byte) + Byte * q = n
  BY <1>0
<1> HIDE DEF q
<1>3. q % Byte = q
  BY <1>0, <1>1
<1>4. InTwoBytes(n) = (n % Byte) + Byte * (q % Byte)
  BY DEF InTwoBytes, q
<1> QED
  BY <1>2, <1>3, <1>4

LEMMA LogoIsClean ==
    ASSUME NEW t \in Tickets
    PROVE  Part(EscposLogo(t.logo))
<1>1. CASE t.logo = NoLogo \/ ~LogoFits(t.logo)
  BY <1>1, PlainPart DEF EscposLogo
<1>2. CASE t.logo # NoLogo /\ LogoFits(t.logo)
  <2> DEFINE logo == t.logo
             wide == logo.width \div DotsPerByte
             size == logo.size
  <2>1. logo.width \in Int /\ logo.height \in Int /\ size \in Nat
    BY <1>2, PaperAssumption DEF Logos
  <2>2. /\ logo.width > 0 /\ logo.height > 0
        /\ logo.width =< LogoMaxWidth /\ logo.height =< LogoMaxHeight
        /\ size = wide * logo.height
    BY <1>2 DEF LogoFits
  <2>3. DotsPerByte \in Nat \ {0} /\ Byte \in Nat /\ Byte * Byte \in Nat
    BY PaperAssumption
  <2>4. wide \in Nat /\ wide < Byte * Byte
    <3>1. LogoMaxWidth \div DotsPerByte < Byte * Byte /\ LogoMaxWidth \in Nat
      BY PaperAssumption
    <3>2. wide \in Nat /\ LogoMaxWidth \div DotsPerByte \in Nat
      BY <2>1, <2>2, <2>3, <3>1
    <3>3. wide =< LogoMaxWidth \div DotsPerByte
      BY <2>1, <2>2, <2>3, <3>1
    <3> QED
      BY <2>1, <2>2, <2>3, <3>1, <3>2, <3>3
  <2>5. logo.height \in Nat /\ logo.height < Byte * Byte
    <3>1. LogoMaxHeight \in Nat /\ LogoMaxHeight < Byte * Byte
      BY PaperAssumption
    <3> QED
      BY <2>1, <2>2, <2>3, <3>1
  <2>6. InTwoBytes(wide) * InTwoBytes(logo.height) = size
    BY <2>2, <2>4, <2>5, TwoBytesExact
  <2>7. EscposLogo(logo) = FixedOrder \o Order(1 + size, 1 + size) \o <<Text>> \o FixedOrder
    BY <1>2, <2>6 DEF EscposLogo
  <2>8. 1 + size \in Nat
    BY <2>1
  <2>9. Part(Order(1 + size, 1 + size))
    BY <2>8, OrderPart
  <2>10. Part(FixedOrder \o Order(1 + size, 1 + size))
    BY <2>9, FixedPart, PartsTogether
  <2>11. Part(FixedOrder \o Order(1 + size, 1 + size) \o <<Text>>)
    BY <2>10, PlainPart, PartsTogether
  <2>12. Part(FixedOrder \o Order(1 + size, 1 + size) \o <<Text>> \o FixedOrder)
    BY <2>11, FixedPart, PartsTogether
  <2> QED
    BY <2>7, <2>12
<1> QED
  BY <1>1, <1>2

LEMMA QRIsClean ==
    ASSUME NEW qr \in Nat, StoreLen(qr) < Byte * Byte
    PROVE  Part(EscposQR(qr))
<1> PICK n \in Nat : n = 1 + 3 + qr
  OBVIOUS
<1>1. 1 + InTwoBytes(StoreLen(qr)) = n
  <2>1. StoreLen(qr) \in Nat /\ StoreLen(qr) = 3 + qr
    BY DEF StoreLen
  <2>2. InTwoBytes(StoreLen(qr)) = 3 + qr
    BY <2>1, TwoBytesExact
  <2> QED
    BY <2>2
<1>2. EscposQR(qr) = FixedOrder \o Order(n, n) \o FixedOrder
  BY <1>1 DEF EscposQR
<1>3. Part(FixedOrder \o Order(n, n))
  BY OrderPart, FixedPart, PartsTogether
<1>4. Part(FixedOrder \o Order(n, n) \o FixedOrder)
  BY <1>3, FixedPart, PartsTogether
<1> QED
  BY <1>2, <1>4

LEMMA TicketIsClean ==
    ASSUME NEW t \in Tickets, StoreLen(t.qr) < Byte * Byte, ~t.controls
    PROVE  Clean(Ticket(t))
<1>0. t.qr \in Nat
  BY PaperAssumption
<1> PICK logo, words, code, drawer, cut, fixed :
        /\ logo = EscposLogo(t.logo) /\ words = Words(t)
        /\ code = Code(t) /\ drawer = Drawer(t) /\ cut = Cut(t) /\ fixed = FixedOrder
  OBVIOUS
<1>1. Part(logo) /\ Part(words) /\ Part(fixed)
  BY LogoIsClean, PlainPart, FixedPart DEF Words
<1>2. Part(drawer) /\ Part(cut)
  BY PlainPart, FixedPart DEF Drawer, Cut
<1>3. Part(code)
  <2>1. Part(FixedOrder \o EscposQR(t.qr))
    BY <1>0, QRIsClean, FixedPart, PartsTogether
  <2>2. Part(FixedOrder \o EscposQR(t.qr) \o FixedOrder)
    BY <2>1, FixedPart, PartsTogether
  <2>3. Part(FixedOrder \o EscposQR(t.qr) \o FixedOrder \o <<Text>>)
    BY <2>2, PlainPart, PartsTogether
  <2> QED
    BY <2>3, PlainPart DEF Code
<1>4. Part(fixed \o logo \o fixed)
  BY <1>1, PartsTogether
<1>5. Part(fixed \o logo \o fixed \o words \o fixed \o words)
  <2>1. Part(fixed \o logo \o fixed \o words)
    BY <1>1, <1>4, PartsTogether
  <2>2. Part(fixed \o logo \o fixed \o words \o fixed)
    BY <1>1, <2>1, PartsTogether
  <2> QED
    BY <1>1, <2>2, PartsTogether
<1>6. Part(fixed \o logo \o fixed \o words \o fixed \o words \o code \o drawer \o cut)
  <2>1. Part(fixed \o logo \o fixed \o words \o fixed \o words \o code)
    BY <1>3, <1>5, PartsTogether
  <2>2. Part(fixed \o logo \o fixed \o words \o fixed \o words \o code \o drawer)
    BY <1>2, <2>1, PartsTogether
  <2> QED
    BY <1>2, <2>2, PartsTogether
<1> QED
  BY <1>6, TicketParts DEF Part

-----------------------------------------------------------------------------
(* The inductive invariant. *)

\* What of the type invariant the theorem needs: the jobs and their copies.
JobsTyped ==
    /\ job \in [Jobs -> [pc : {"new", "sending", "printed", "failed"},
                         ticket : Tickets, attempt : 1..MaxRetries]]
    /\ handed \in [Jobs -> Nat]

IInv == JobsTyped /\ StatusMatchesCopies

LEMMA DocumentLength ==
    ASSUME JobsTyped, NEW j \in Jobs
    PROVE  Len(Document(j)) \in Nat
<1>1. TestPage \in Seq(Bytes)
  BY TestPageBytes
<1>2. Ticket(job[j].ticket) \in Seq(Bytes)
  BY TicketBytes DEF JobsTyped
<1>3. Document(j) \in Seq(Bytes)
  BY <1>1, <1>2 DEF Document
<1> QED
  BY <1>3

LEMMA InitIInv == Init => IInv
<1> SUFFICES ASSUME Init PROVE IInv
  OBVIOUS
<1>1. 1 \in 1..MaxRetries
  BY PaperAssumption
<1>2. JobsTyped
  BY <1>1 DEF Init, JobsTyped
<1>3. \A j \in Jobs : job[j].pc = "new" /\ handed[j] = 0
  BY DEF Init
<1> QED
  BY <1>2, <1>3 DEF IInv, StatusMatchesCopies

\* Where a job is after an attempt: printed if everything was accepted, and
\* otherwise nowhere it counts as printed.
LEMMA AttemptOutcome ==
    ASSUME JobsTyped, NEW j \in Jobs, job[j].pc = "sending", NEW success \in BOOLEAN,
           Attempted(j, success)
    PROVE  /\ job' \in [Jobs -> [pc : {"new", "sending", "printed", "failed"},
                                 ticket : Tickets, attempt : 1..MaxRetries]]
           /\ job'[j].pc = "printed" <=> success
           /\ \A k \in Jobs \ {j} : job'[k] = job[k]
           /\ \A k \in Jobs : job'[k].ticket = job[k].ticket
<1>0. job[j].attempt \in 1..MaxRetries /\ MaxRetries \in Nat
  BY PaperAssumption DEF JobsTyped
<1>1. CASE success
  BY <1>1 DEF Attempted, JobsTyped
<1>2. CASE ~success /\ j \in Queued /\ job[j].attempt < MaxRetries
  <2>1. job' = [job EXCEPT ![j] = [job[j] EXCEPT !.attempt = @ + 1]]
    BY <1>2 DEF Attempted
  <2>2. job[j].attempt + 1 \in 1..MaxRetries
    BY <1>0, <1>2
  <2> QED
    BY <1>2, <2>1, <2>2 DEF JobsTyped
<1>3. CASE ~success /\ ~(j \in Queued /\ job[j].attempt < MaxRetries)
  BY <1>3 DEF Attempted, JobsTyped
<1> QED
  BY <1>1, <1>2, <1>3

LEMMA DispatchKeeps ==
    ASSUME IInv, NEW j \in Jobs, DispatchRaw(j)
    PROVE  IInv'
<1>0. JobsTyped /\ job[j].pc = "sending" /\ handed[j] = 0
  BY DEF IInv, DispatchRaw, StatusMatchesCopies
<1>1. PICK length, sent :
          /\ length = Len(Document(j)) /\ sent \in 0..length
          /\ handed' = IF sent < length THEN handed ELSE [handed EXCEPT ![j] = @ + 1]
          /\ Attempted(j, AllAccepted(sent, length))
  BY DEF DispatchRaw
<1>2. length \in Nat /\ sent \in Nat /\ sent =< length
  BY <1>0, <1>1, DocumentLength
<1>3. PICK success \in BOOLEAN : success <=> AllAccepted(sent, length)
  BY DEF AllAccepted
<1>4. Attempted(j, success)
  BY <1>1, <1>3 DEF Attempted
<1>5. /\ job' \in [Jobs -> [pc : {"new", "sending", "printed", "failed"},
                            ticket : Tickets, attempt : 1..MaxRetries]]
      /\ job'[j].pc = "printed" <=> success
      /\ \A k \in Jobs \ {j} : job'[k] = job[k]
  BY <1>0, <1>4, AttemptOutcome
<1>6. success <=> ~(sent < length)
  BY <1>2, <1>3 DEF AllAccepted
<1>7. /\ handed' \in [Jobs -> Nat]
      /\ handed'[j] = IF success THEN 1 ELSE 0
      /\ \A k \in Jobs \ {j} : handed'[k] = handed[k]
  <2>1. CASE sent < length
    BY <1>0, <1>1, <1>6, <2>1 DEF JobsTyped
  <2>2. CASE ~(sent < length)
    BY <1>0, <1>1, <1>6, <2>2 DEF JobsTyped
  <2> QED
    BY <2>1, <2>2
<1>8. JobsTyped'
  BY <1>5, <1>7 DEF JobsTyped
<1>9. ASSUME NEW k \in Jobs PROVE handed'[k] = (IF job'[k].pc = "printed" THEN 1 ELSE 0)
  <2>1. CASE k = j
    BY <1>5, <1>7, <2>1
  <2>2. CASE k # j
    BY <1>5, <1>7, <2>2 DEF IInv, StatusMatchesCopies
  <2> QED
    BY <2>1, <2>2
<1> QED
  BY <1>8, <1>9 DEF IInv, StatusMatchesCopies

LEMMA StepIInv == IInv /\ [Next]_vars => IInv'
<1> SUFFICES ASSUME IInv, [Next]_vars PROVE IInv'
  OBVIOUS
<1>1. ASSUME NEW j \in Jobs, Begin(j) PROVE IInv'
  BY <1>1 DEF Begin, IInv, JobsTyped, StatusMatchesCopies
<1>2. ASSUME NEW j \in Jobs, DispatchRaw(j) PROVE IInv'
  BY <1>2, DispatchKeeps
<1>3. CASE UNCHANGED <<job, handed>>
  BY <1>3 DEF IInv, JobsTyped, StatusMatchesCopies
<1>4. CASE AtRest \/ UNCHANGED vars \/ \E lane \in Transports : PrintNext(lane)
  BY <1>3, <1>4 DEF AtRest, PrintNext, vars
<1> QED
  BY <1>1, <1>2, <1>4 DEF Next

\* However often a job is tried, with whatever documents and however they are
\* cut off, it is called printed exactly when one whole copy of it was accepted
\* (server.go:563-585, printer_windows.go:138-155, 333-347).
THEOREM StatusIsTrue == Safety => []StatusMatchesCopies
<1>1. Init => IInv
  BY InitIInv
<1>2. IInv /\ [Next]_vars => IInv'
  BY StepIInv
<1>3. IInv => StatusMatchesCopies
  BY DEF IInv
<1> QED
  BY <1>1, <1>2, <1>3, PTL DEF Safety

-----------------------------------------------------------------------------
(* What comes out of the printer. *)

Entries == [job : Jobs, sent : Nat \ {0}]

LineTyped ==
    /\ line \in [Transports -> Seq(Entries)]
    /\ \A j \in Jobs, lane \in Transports : \A k \in 1..Len(line[lane]) :
        line[lane][k].job = j => line[lane][k].sent =< Len(Document(j))

PrinterTyped ==
    /\ printer \in [need : Nat, damaged : BOOLEAN]
    /\ readable \in [Jobs -> Nat] /\ disturbed \in BOOLEAN

\* The k-th document a transport still has to print is the whole of job j.
WholeCopy(j, lane, k) ==
    /\ k \in 1..Len(line[lane])
    /\ line[lane][k].job = j /\ line[lane][k].sent = Len(Document(j))

WholeWaits(j) == \E lane \in Transports, k \in Nat : WholeCopy(j, lane, k)

OnlyPrintedWait ==
    \A j \in Jobs, lane \in Transports, k \in Nat :
        WholeCopy(j, lane, k) => job[j].pc = "printed"

OneWaits ==
    \A j \in Jobs, lane, other \in Transports, k, i \in Nat :
        WholeCopy(j, lane, k) /\ WholeCopy(j, other, i) => lane = other /\ k = i

CameOut(j) == job[j].pc = "printed" /\ ~WholeWaits(j)

InStep ==
    ~disturbed =>
        /\ printer.need = 0
        /\ \A j \in Jobs : readable[j] = IF CameOut(j) THEN 1 ELSE 0

PaperInv ==
    /\ IInv /\ LineTyped /\ PrinterTyped
    /\ OnlyPrintedWait /\ OneWaits /\ InStep

LEMMA Longer ==
    ASSUME NEW s \in Seq(Bytes), NEW t \in Seq(Bytes), Len(s) >= 1
    PROVE  s \o t \in Seq(Bytes) /\ Len(s \o t) >= 1
  OBVIOUS

LEMMA TicketNotEmpty == ASSUME NEW t \in Tickets PROVE Len(Ticket(t)) >= 1
<1> PICK logo, words, code, drawer, cut, fixed :
        /\ logo = EscposLogo(t.logo) /\ words = Words(t)
        /\ code = Code(t) /\ drawer = Drawer(t) /\ cut = Cut(t) /\ fixed = FixedOrder
  OBVIOUS
<1>1. /\ logo \in Seq(Bytes) /\ words \in Seq(Bytes) /\ code \in Seq(Bytes)
      /\ drawer \in Seq(Bytes) /\ cut \in Seq(Bytes) /\ fixed \in Seq(Bytes)
  BY TicketParts, FixedBytes
<1>2. Len(fixed) >= 1
  <2>1. <<Taking(1)>> \in Seq(Bytes) /\ Len(<<Taking(1)>>) = 1 /\ Data(1) \in Seq(Bytes)
    BY SingleBytes, DataBytes
  <2> QED
    BY <2>1, Longer DEF FixedOrder, Order
<1> DEFINE page == fixed \o logo \o fixed \o words \o fixed \o words
<1>3. page \in Seq(Bytes) /\ Len(page) >= 1
  BY <1>1, <1>2
<1> HIDE DEF page
<1>4. Len(page \o code \o drawer \o cut) >= 1
  BY <1>1, <1>3
<1> QED
  BY <1>4, TicketParts DEF page

LEMMA DocumentTyped ==
    ASSUME JobsTyped, NEW j \in Jobs
    PROVE  Document(j) \in Seq(Bytes) /\ Len(Document(j)) \in Nat \ {0}
<1>1. CASE j \in Tests
  <2>1. TestPage \in Seq(Bytes) /\ Len(TestPage) >= 1 /\ Len(TestPage) \in Nat
    BY TestPageBytes
  <2> QED
    BY <1>1, <2>1 DEF Document
<1>2. CASE j \notin Tests
  <2>1. job[j].ticket \in Tickets
    BY DEF JobsTyped
  <2>2. Ticket(job[j].ticket) \in Seq(Bytes) /\ Len(Ticket(job[j].ticket)) >= 1
    BY <2>1, TicketBytes, TicketNotEmpty
  <2>3. Len(Ticket(job[j].ticket)) \in Nat
    BY <2>2
  <2> QED
    BY <1>2, <2>2, <2>3 DEF Document
<1> QED
  BY <1>1, <1>2

LEMMA DocumentIsClean ==
    ASSUME JobsTyped, NEW j \in Jobs, ~Unruly(j)
    PROVE  Clean(Document(j))
<1>1. CASE j \in Tests
  <2>1. Part(FixedOrder \o <<Text>>)
    BY FixedPart, PlainPart, PartsTogether
  <2>2. Clean(TestPage)
    BY <2>1, FixedPart, PartsTogether DEF TestPage, Part
  <2> QED
    BY <1>1, <2>2 DEF Document
<1>2. CASE j \notin Tests
  <2>1. j \in Queued /\ job[j].ticket \in Tickets
    BY <1>2 DEF JobsTyped, Jobs
  <2>2. StoreLen(job[j].ticket.qr) < Byte * Byte
    <3>1. job[j].ticket.qr \in Nat /\ Byte \in Nat
      BY <2>1, PaperAssumption
    <3>2. StoreLen(job[j].ticket.qr) \in Nat /\ Byte * Byte \in Nat
      BY <3>1 DEF StoreLen
    <3>3. ~(StoreLen(job[j].ticket.qr) >= Byte * Byte)
      BY <2>1 DEF Unruly
    <3> QED
      BY <3>2, <3>3
  <2>3. ~job[j].ticket.controls
    BY <2>1 DEF Unruly
  <2> QED
    BY <1>2, <2>1, <2>2, <2>3, TicketIsClean DEF Document
<1> QED
  BY <1>1, <1>2

States == [need : Nat, damaged : BOOLEAN]

LEMMA StateMade == \A n \in Nat, d \in BOOLEAN : [need |-> n, damaged |-> d] \in States
  BY DEF States

LEMMA ReadByteTyped ==
    ASSUME NEW state \in States, NEW byte \in Bytes
    PROVE  ReadByte(state, byte) \in States
<1>1. state.need \in Nat /\ byte.takes \in Nat
  BY DEF States, Bytes
<1>2. CASE state.need > 0
  <2>1. state.need - 1 \in Nat
    BY <1>1, <1>2
  <2>2. (state.damaged \/ byte.kind # "data") \in BOOLEAN
    BY Zenon
  <2>3. ReadByte(state, byte)
            = [need |-> state.need - 1, damaged |-> state.damaged \/ byte.kind # "data"]
    BY <1>2, Zenon DEF ReadByte
  <2> QED
    BY <2>1, <2>2, <2>3, StateMade, Zenon
<1>3. CASE ~(state.need > 0)
  <2>1. (state.damaged \/ byte.kind = "data") \in BOOLEAN
    BY Zenon
  <2>2. ReadByte(state, byte)
            = [need |-> byte.takes, damaged |-> state.damaged \/ byte.kind = "data"]
    BY <1>3, Zenon DEF ReadByte
  <2> QED
    BY <1>1, <2>1, <2>2, StateMade, Zenon
<1> QED
  BY <1>2, <1>3

LEMMA ReadingTyped ==
    ASSUME NEW state \in States, NEW s \in Seq(Bytes), NEW n \in Nat, n =< Len(s)
    PROVE  AfterReading(state, s, n) \in States
<1> DEFINE N == {k \in Nat : k =< Len(s) => AfterReading(state, s, k) \in States}
<1>1. 0 \in N
  BY AfterNothing
<1>2. ASSUME NEW k \in Nat, k \in N PROVE k + 1 \in N
  <2> SUFFICES ASSUME k + 1 =< Len(s) PROVE AfterReading(state, s, k + 1) \in States
    OBVIOUS
  <2>1. k + 1 \in 1..Len(s) /\ k =< Len(s)
    OBVIOUS
  <2>2. s[k + 1] \in Bytes
    BY <2>1
  <2>3. AfterReading(state, s, k) \in States
    BY <1>2, <2>1
  <2>4. AfterReading(state, s, k + 1) = ReadByte(AfterReading(state, s, k), s[k + 1])
    BY AfterOneMore
  <2> QED
    BY <2>2, <2>3, <2>4, ReadByteTyped
<1> HIDE DEF N
<1>3. Nat \subseteq N
  BY <1>1, <1>2, AllNaturals
<1> QED
  BY <1>3 DEF N

\* A document depends on its ticket alone, and no job changes its ticket.
LEMMA SameDocument ==
    ASSUME NEW j \in Jobs, job'[j].ticket = job[j].ticket
    PROVE  Document(j)' = Document(j)
  BY DEF Document

LEMMA InitPaper == Init => PaperInv
<1> SUFFICES ASSUME Init PROVE PaperInv
  OBVIOUS
<1>1. IInv
  BY InitIInv
<1>2. \A lane \in Transports : line[lane] = <<>>
  BY DEF Init
<1>3. LineTyped
  <2>1. <<>> \in Seq(Entries)
    OBVIOUS
  <2>2. line \in [Transports -> Seq(Entries)]
    BY <2>1 DEF Init
  <2> QED
    BY <1>2, <2>2 DEF LineTyped
<1>4. PrinterTyped
  BY DEF Init, PrinterTyped
<1>5. \A j \in Jobs, lane \in Transports, k \in Nat : ~WholeCopy(j, lane, k)
  BY <1>2 DEF WholeCopy
<1>6. OnlyPrintedWait /\ OneWaits
  BY <1>5 DEF OnlyPrintedWait, OneWaits
<1>7. \A j \in Jobs : ~CameOut(j) /\ readable[j] = 0
  BY DEF Init, CameOut
<1>8. InStep
  BY <1>7 DEF InStep, Init
<1> QED
  BY <1>1, <1>3, <1>4, <1>6, <1>8 DEF PaperInv

\* A step that neither sends nor prints, and takes no job to or from "printed".
LEMMA QuietStep ==
    ASSUME PaperInv, IInv', UNCHANGED <<line, printer, readable, disturbed>>,
           \A j \in Jobs : /\ job'[j].ticket = job[j].ticket
                           /\ job'[j].pc = "printed" <=> job[j].pc = "printed"
    PROVE  PaperInv'
<1>1. \A j \in Jobs : Document(j)' = Document(j)
  BY SameDocument
<1>2. LineTyped'
  BY <1>1 DEF PaperInv, LineTyped
<1>3. PrinterTyped'
  BY DEF PaperInv, PrinterTyped
<1>4. \A j \in Jobs, lane \in Transports, k \in Nat :
          WholeCopy(j, lane, k)' <=> WholeCopy(j, lane, k)
  BY <1>1 DEF WholeCopy
<1>5. OnlyPrintedWait'
  BY <1>4 DEF PaperInv, OnlyPrintedWait
<1>6. OneWaits'
  BY <1>4 DEF PaperInv, OneWaits
<1>7. \A j \in Jobs : CameOut(j)' <=> CameOut(j)
  BY <1>4 DEF CameOut, WholeWaits
<1>8. InStep'
  BY <1>7 DEF PaperInv, InStep
<1> QED
  BY <1>2, <1>3, <1>5, <1>6, <1>8 DEF PaperInv

LEMMA BeginPaper ==
    ASSUME PaperInv, IInv', NEW j \in Jobs, Begin(j)
    PROVE  PaperInv'
<1>1. job \in [Jobs -> [pc : {"new", "sending", "printed", "failed"},
                        ticket : Tickets, attempt : 1..MaxRetries]]
  BY DEF PaperInv, IInv, JobsTyped
<1>2. \A k \in Jobs : /\ job'[k].ticket = job[k].ticket
                      /\ job'[k].pc = "printed" <=> job[k].pc = "printed"
  BY <1>1 DEF Begin
<1>3. UNCHANGED <<line, printer, readable, disturbed>>
  BY DEF Begin
<1> QED
  BY <1>2, <1>3, QuietStep

\* One of the ways an attempt goes.
Sends(j, lane, sent, length) ==
    /\ line' = IF sent = 0 THEN line
               ELSE [line EXCEPT ![lane] = Append(@, [job |-> j, sent |-> sent])]
    /\ Attempted(j, AllAccepted(sent, length))

LEMMA DispatchPaper ==
    ASSUME PaperInv, IInv', NEW j \in Jobs, DispatchRaw(j)
    PROVE  PaperInv'
<1>0. JobsTyped /\ job[j].pc = "sending"
  BY DEF PaperInv, IInv, DispatchRaw
<1>1. PICK length : /\ length = Len(Document(j))
                    /\ \E lane \in Transports, sent \in 0..length : Sends(j, lane, sent, length)
  BY DEF DispatchRaw, Sends
<1> PICK lane \in Transports, sent \in 0..length : Sends(j, lane, sent, length)
  BY <1>1
<1>1a. /\ line' = IF sent = 0 THEN line
                 ELSE [line EXCEPT ![lane] = Append(line[lane], [job |-> j, sent |-> sent])]
      /\ Attempted(j, AllAccepted(sent, length))
  BY DEF Sends
<1>2. UNCHANGED <<printer, readable, disturbed>>
  BY DEF DispatchRaw
<1>3. length \in Nat \ {0} /\ sent \in Nat /\ sent =< length
  BY <1>0, <1>1, DocumentTyped
<1>4. PICK success \in BOOLEAN : success <=> sent = length
  OBVIOUS
<1>5. Attempted(j, success)
  BY <1>1a, <1>4 DEF Attempted, AllAccepted
<1>6. /\ job'[j].pc = "printed" <=> success
      /\ \A k \in Jobs \ {j} : job'[k] = job[k]
      /\ \A k \in Jobs : job'[k].ticket = job[k].ticket
  BY <1>0, <1>5, AttemptOutcome
<1>7. CASE sent = 0
  <2>1. line' = line /\ ~success
    BY <1>1a, <1>3, <1>4, <1>7
  <2>2. \A k \in Jobs : job'[k].pc = "printed" <=> job[k].pc = "printed"
    BY <1>0, <1>6, <2>1
  <2> QED
    BY <1>2, <1>6, <2>1, <2>2, QuietStep
<1>8. CASE sent # 0
  <2> DEFINE entry == [job |-> j, sent |-> sent]
  <2>0. /\ line \in [Transports -> Seq(Entries)]
        /\ line[lane] \in Seq(Entries) /\ Len(line[lane]) \in Nat
    BY DEF PaperInv, LineTyped
  <2> PICK n \in Nat : n = Len(line[lane])
    BY <2>0
  <2>1. \A k \in Jobs : Document(k)' = Document(k)
    BY <1>6, SameDocument
  <2>2. entry \in Entries /\ entry.job = j /\ entry.sent = sent
    BY <1>3, <1>8 DEF Entries
  <2> HIDE DEF entry
  <2>3. /\ line' \in [Transports -> Seq(Entries)]
        /\ \A m \in Transports \ {lane} : line'[m] = line[m]
        /\ Len(line'[lane]) = n + 1
        /\ line'[lane][n + 1] = entry
        /\ \A k \in 1..n : line'[lane][k] = line[lane][k]
    <3>1. line' = [line EXCEPT ![lane] = Append(line[lane], entry)]
      BY <1>1a, <1>8 DEF entry
    <3>2. line'[lane] = Append(line[lane], entry) /\ line[lane] \in Seq(Entries)
      BY <2>0, <2>2, <3>1
    <3> QED
      BY <2>0, <2>2, <3>1, <3>2
  <2>4. LineTyped'
    <3>1. ASSUME NEW k \in Jobs, NEW m \in Transports, NEW i \in 1..Len(line'[m]),
                 line'[m][i].job = k
          PROVE  line'[m][i].sent =< Len(Document(k)')
      <4>1. CASE m # lane \/ i \in 1..n
        <5>1. i \in 1..Len(line[m]) /\ line'[m][i] = line[m][i]
          BY <2>2, <2>3, <4>1
        <5> QED
          BY <2>1, <3>1, <5>1 DEF PaperInv, LineTyped
      <4>2. CASE m = lane /\ i = n + 1
        BY <1>1, <1>3, <2>1, <2>2, <2>3, <3>1, <4>2
      <4> QED
        BY <2>2, <2>3, <4>1, <4>2
    <3> QED
      BY <2>3, <3>1 DEF LineTyped
  <2>5. PrinterTyped'
    BY <1>2 DEF PaperInv, PrinterTyped
  <2>6. \A k \in Jobs, m \in Transports, i \in Nat :
            WholeCopy(k, m, i)' <=>
                \/ WholeCopy(k, m, i)
                \/ k = j /\ m = lane /\ i = n + 1 /\ sent = length
    <3> TAKE k \in Jobs, m \in Transports, i \in Nat
    <3>1. CASE m # lane
      BY <2>1, <2>3, <3>1 DEF WholeCopy
    <3>2. CASE m = lane /\ i \in 1..n
      BY <2>1, <2>2, <2>3, <3>2 DEF WholeCopy
    <3>3. CASE m = lane /\ i = n + 1
      <4>1. ~WholeCopy(k, m, i)
        BY <2>2, <3>3 DEF WholeCopy
      <4>2. i \in 1..Len(line'[m]) /\ line'[m][i] = entry
        BY <2>2, <2>3, <3>3
      <4>3. Document(k)' = Document(k)
        BY <2>1
      <4> QED
        BY <1>1, <2>2, <3>3, <4>1, <4>2, <4>3 DEF WholeCopy
    <3>4. CASE m = lane /\ i \notin 1..(n + 1)
      BY <2>2, <2>3, <3>4 DEF WholeCopy
    <3> QED
      BY <2>2, <3>1, <3>2, <3>3, <3>4
  <2>7. \A m \in Transports, i \in Nat : ~WholeCopy(j, m, i)
    BY <1>0 DEF PaperInv, OnlyPrintedWait
  <2>8. OnlyPrintedWait'
    BY <1>4, <1>6, <2>6, <2>7 DEF PaperInv, OnlyPrintedWait
  <2>9. OneWaits'
    BY <2>6, <2>7 DEF PaperInv, OneWaits
  <2>10. \A k \in Jobs : CameOut(k)' <=> CameOut(k)
    <3>1. ASSUME NEW k \in Jobs, k # j PROVE CameOut(k)' <=> CameOut(k)
      BY <1>6, <2>6, <3>1 DEF CameOut, WholeWaits
    <3>2. ~CameOut(j)
      BY <1>0 DEF CameOut
    <3>3. ~CameOut(j)'
      <4>1. CASE success
        <5>1. n + 1 \in Nat
          OBVIOUS
        <5>2. WholeCopy(j, lane, n + 1)'
          BY <1>4, <2>6, <4>1, <5>1
        <5> QED
          BY <5>1, <5>2 DEF CameOut, WholeWaits
      <4>2. CASE ~success
        BY <1>6, <4>2 DEF CameOut
      <4> QED
        BY <4>1, <4>2
    <3> QED
      BY <3>1, <3>2, <3>3
  <2>11. InStep'
    BY <1>2, <2>10 DEF PaperInv, InStep
  <2> QED
    BY <2>4, <2>5, <2>8, <2>9, <2>11 DEF PaperInv
<1> QED
  BY <1>7, <1>8

LEMMA PrintPaper ==
    ASSUME PaperInv, IInv', NEW lane \in Transports, PrintNext(lane)
    PROVE  PaperInv'
<1>0. /\ JobsTyped /\ line[lane] # <<>> /\ UNCHANGED job
      /\ line' = [line EXCEPT ![lane] = Tail(line[lane])]
      /\ line \in [Transports -> Seq(Entries)]
      /\ line[lane] \in Seq(Entries) /\ Len(line[lane]) \in Nat
  BY DEF PaperInv, IInv, LineTyped, PrintNext
<1> PICK n \in Nat : n = Len(line[lane])
  BY <1>0
<1>1. n >= 1 /\ 1 \in 1..n /\ Head(line[lane]) = line[lane][1]
  BY <1>0
<1> PICK next \in Entries : next = line[lane][1]
  BY <1>0, <1>1
<1> PICK j \in Jobs : j = next.job
  BY DEF Entries
<1> PICK length, end : /\ length = Len(Document(j))
                       /\ end = AfterReading([printer EXCEPT !.damaged = FALSE], Document(j), next.sent)
  OBVIOUS
<1>2. length \in Nat \ {0} /\ next.sent \in Nat /\ next.sent =< length /\ next.sent # 0
  <2>1. length \in Nat \ {0}
    BY <1>0, DocumentTyped
  <2>2. next.sent \in Nat \ {0}
    BY DEF Entries
  <2>3. next.sent =< length
    BY <1>0, <1>1 DEF PaperInv, LineTyped
  <2> QED
    BY <2>1, <2>2, <2>3
<1>3. PICK whole \in BOOLEAN : whole <=> next.sent = length
  OBVIOUS
<1>4. PICK good \in BOOLEAN : good <=> (whole /\ end.need = 0 /\ ~end.damaged)
  BY Zenon
<1>5. /\ printer' = end
      /\ readable' = [readable EXCEPT ![j] = @ + (IF good THEN 1 ELSE 0)]
      /\ disturbed' = (disturbed \/ Unruly(j) \/ (~whole /\ end.need > 0))
  BY <1>1, <1>3, <1>4 DEF PrintNext
<1>6. \A k \in Jobs : Document(k)' = Document(k)
  BY <1>0, SameDocument
<1>7. /\ line' \in [Transports -> Seq(Entries)]
      /\ \A m \in Transports \ {lane} : line'[m] = line[m]
      /\ Len(line'[lane]) = n - 1
      /\ \A i \in 1..(n - 1) : line'[lane][i] = line[lane][i + 1]
  <2>1. line'[lane] = Tail(line[lane])
    BY <1>0
  <2>2. /\ Tail(line[lane]) \in Seq(Entries) /\ Len(Tail(line[lane])) = n - 1
        /\ \A i \in 1..(n - 1) : Tail(line[lane])[i] = line[lane][i + 1]
    BY <1>0, <1>1
  <2> QED
    BY <1>0, <2>1, <2>2
<1>8. LineTyped'
  <2>1. ASSUME NEW k \in Jobs, NEW m \in Transports, NEW i \in 1..Len(line'[m]),
               line'[m][i].job = k
        PROVE  line'[m][i].sent =< Len(Document(k)')
    <3>1. CASE m # lane
      BY <1>6, <1>7, <2>1, <3>1 DEF PaperInv, LineTyped
    <3>2. CASE m = lane
      <4>1. i + 1 \in 1..Len(line[m]) /\ line'[m][i] = line[m][i + 1]
        BY <1>7, <3>2
      <4> QED
        BY <1>6, <2>1, <4>1 DEF PaperInv, LineTyped
    <3> QED
      BY <3>1, <3>2
  <2> QED
    BY <1>7, <2>1 DEF LineTyped
<1>9. end \in States
  <2>1. [printer EXCEPT !.damaged = FALSE] \in States
    BY DEF PaperInv, PrinterTyped, States
  <2>2. Document(j) \in Seq(Bytes)
    BY <1>0, DocumentTyped
  <2> QED
    BY <1>2, <2>1, <2>2, ReadingTyped
<1>10. PrinterTyped'
  <2>1. readable' \in [Jobs -> Nat]
    BY <1>5 DEF PaperInv, PrinterTyped
  <2>2. disturbed' \in BOOLEAN
    BY <1>5, Zenon
  <2> QED
    BY <1>5, <1>9, <2>1, <2>2 DEF PrinterTyped, States
<1>11. \A k \in Jobs, m \in Transports \ {lane}, i \in Nat :
           WholeCopy(k, m, i)' <=> WholeCopy(k, m, i)
  BY <1>6, <1>7 DEF WholeCopy
<1>12. \A k \in Jobs, i \in Nat \ {0} : WholeCopy(k, lane, i)' <=> WholeCopy(k, lane, i + 1)
  <2> TAKE k \in Jobs, i \in Nat \ {0}
  <2>1. CASE i \in 1..(n - 1)
    <3>1. /\ i \in 1..Len(line'[lane]) /\ i + 1 \in 1..Len(line[lane])
          /\ line'[lane][i] = line[lane][i + 1]
      BY <1>7, <2>1
    <3>2. Document(k)' = Document(k)
      BY <1>6
    <3> QED
      BY <3>1, <3>2 DEF WholeCopy
  <2>2. CASE i \notin 1..(n - 1)
    BY <1>7, <2>2 DEF WholeCopy
  <2> QED
    BY <2>1, <2>2
<1>13. \A k \in Jobs, m \in Transports, i \in Nat :
           /\ WholeCopy(k, m, i) => i # 0
           /\ WholeCopy(k, m, i)' => i # 0
  BY DEF WholeCopy
<1>14. \A k \in Jobs : WholeCopy(k, lane, 1) <=> k = j /\ whole
  BY <1>1, <1>3 DEF WholeCopy
<1> DEFINE Was(m, i) == IF m = lane THEN i + 1 ELSE i
<1>15. \A m \in Transports, i \in Nat : Was(m, i) \in Nat
  OBVIOUS
<1>16. \A k \in Jobs, m \in Transports, i \in Nat :
           WholeCopy(k, m, i)' => WholeCopy(k, m, Was(m, i))
  <2> SUFFICES ASSUME NEW k \in Jobs, NEW m \in Transports, NEW i \in Nat, WholeCopy(k, m, i)'
               PROVE  WholeCopy(k, m, Was(m, i))
    OBVIOUS
  <2>1. CASE m # lane
    BY <1>11, <2>1
  <2>2. CASE m = lane
    <3>1. i \in Nat \ {0}
      BY <1>13
    <3>2. WholeCopy(k, lane, i)'
      BY <2>2
    <3>3. WholeCopy(k, lane, i + 1)
      BY <1>12, <3>1, <3>2
    <3> QED
      BY <2>2, <3>3
  <2> QED
    BY <2>1, <2>2
<1>17. \A m, o \in Transports, i, q \in Nat : m = o /\ Was(m, i) = Was(o, q) => i = q
  OBVIOUS
<1> HIDE DEF Was
<1>18. OnlyPrintedWait'
  BY <1>0, <1>15, <1>16 DEF PaperInv, OnlyPrintedWait
<1>19. OneWaits'
  <2> SUFFICES ASSUME NEW k \in Jobs, NEW m \in Transports, NEW o \in Transports,
                      NEW i \in Nat, NEW q \in Nat, WholeCopy(k, m, i)', WholeCopy(k, o, q)'
               PROVE  m = o /\ i = q
    BY DEF OneWaits
  <2>1. WholeCopy(k, m, Was(m, i)) /\ WholeCopy(k, o, Was(o, q))
    BY <1>16
  <2>2. m = o /\ Was(m, i) = Was(o, q)
    BY <1>15, <2>1 DEF PaperInv, OneWaits
  <2> QED
    BY <1>17, <2>2
<1>20. ASSUME NEW k \in Jobs, ~(k = j /\ whole)
       PROVE  CameOut(k)' <=> CameOut(k)
  <2>1. WholeWaits(k)' => WholeWaits(k)
    BY <1>15, <1>16 DEF WholeWaits
  <2>2. ASSUME NEW m \in Transports, NEW i \in Nat, WholeCopy(k, m, i)
        PROVE  WholeWaits(k)'
    <3>1. CASE m # lane
      BY <1>11, <2>2, <3>1 DEF WholeWaits
    <3>2. CASE m = lane
      <4>1. i # 0 /\ i # 1
        BY <1>13, <1>14, <1>20, <2>2, <3>2
      <4>2. i - 1 \in Nat \ {0} /\ (i - 1) + 1 = i
        BY <4>1
      <4>3. WholeCopy(k, lane, i - 1)'
        BY <1>12, <2>2, <3>2, <4>2
      <4> QED
        BY <4>2, <4>3 DEF WholeWaits
    <3> QED
      BY <3>1, <3>2
  <2>3. WholeWaits(k) => WholeWaits(k)'
    BY <2>2 DEF WholeWaits
  <2> QED
    BY <1>0, <2>1, <2>3 DEF CameOut
<1>21. ASSUME whole PROVE CameOut(j)' /\ ~CameOut(j)
  <2>1. WholeCopy(j, lane, 1)
    BY <1>14, <1>21
  <2>2. job[j].pc = "printed" /\ WholeWaits(j)
    BY <2>1 DEF PaperInv, OnlyPrintedWait, WholeWaits
  <2>3. ASSUME NEW m \in Transports, NEW i \in Nat, WholeCopy(j, m, i)' PROVE FALSE
    <3>1. WholeCopy(j, m, Was(m, i))
      BY <1>16, <2>3
    <3>2. m = lane /\ Was(m, i) = 1
      BY <1>15, <2>1, <3>1 DEF PaperInv, OneWaits
    <3>3. i = 0
      BY <3>2 DEF Was
    <3> QED
      BY <1>13, <2>3, <3>3
  <2>4. ~WholeWaits(j)'
    BY <2>3 DEF WholeWaits
  <2> QED
    BY <1>0, <2>2, <2>4 DEF CameOut
<1>22. InStep'
  <2> SUFFICES ASSUME ~disturbed'
               PROVE  /\ printer'.need = 0
                      /\ \A k \in Jobs : readable'[k] = IF CameOut(k)' THEN 1 ELSE 0
    BY DEF InStep
  <2>1. ~disturbed /\ ~Unruly(j) /\ ~(~whole /\ end.need > 0)
    BY <1>5
  <2>2. /\ printer.need = 0
        /\ \A k \in Jobs : readable[k] = IF CameOut(k) THEN 1 ELSE 0
    BY <2>1 DEF PaperInv, InStep
  <2>3. readable \in [Jobs -> Nat]
    BY DEF PaperInv, PrinterTyped
  <2>4. CASE whole
    <3>1. [printer EXCEPT !.damaged = FALSE] = Fresh
      <4>1. printer \in [need : Nat, damaged : BOOLEAN] /\ printer.need = 0
        BY <2>2 DEF PaperInv, PrinterTyped
      <4> DEFINE fresh == [printer EXCEPT !.damaged = FALSE]
      <4>2. /\ fresh \in [need : Nat, damaged : BOOLEAN]
            /\ fresh.need = 0 /\ fresh.damaged = FALSE
        BY <4>1
      <4>3. \A state \in [need : Nat, damaged : BOOLEAN] :
                state = [need |-> state.need, damaged |-> state.damaged]
        OBVIOUS
      <4> HIDE DEF fresh
      <4>4. fresh = [need |-> fresh.need, damaged |-> fresh.damaged]
        BY <4>2, <4>3
      <4>5. fresh = [need |-> 0, damaged |-> FALSE]
        BY <4>2, <4>4, Zenon
      <4> QED
        BY <4>5 DEF fresh, Fresh, Printer
    <3>2. Clean(Document(j))
      BY <1>0, <2>1, DocumentIsClean
    <3>3. next.sent = Len(Document(j))
      BY <1>3, <2>4
    <3>4. end = Fresh
      BY <3>1, <3>2, <3>3 DEF Clean, Wants, Fresh
    <3>5. end.need = 0 /\ ~end.damaged
      BY <3>4 DEF Fresh, Printer
    <3>6. good
      BY <1>4, <2>4, <3>5
    <3>7. readable' = [readable EXCEPT ![j] = @ + 1]
      BY <1>5, <3>6
    <3>8. readable'[j] = 1 /\ CameOut(j)'
      BY <1>21, <2>2, <2>3, <2>4, <3>7
    <3>9. \A k \in Jobs \ {j} : readable'[k] = readable[k] /\ (CameOut(k)' <=> CameOut(k))
      BY <1>20, <2>3, <3>7
    <3> QED
      BY <1>5, <2>2, <3>5, <3>8, <3>9
  <2>5. CASE ~whole
    <3>1. end.need = 0 /\ ~good
      BY <1>4, <1>9, <2>1, <2>5 DEF States
    <3>2. \A k \in Jobs : readable'[k] = readable[k]
      BY <1>5, <2>3, <3>1
    <3>3. \A k \in Jobs : CameOut(k)' <=> CameOut(k)
      BY <1>20, <2>5
    <3> QED
      BY <1>5, <2>2, <3>1, <3>2, <3>3
  <2> QED
    BY <2>4, <2>5
<1> QED
  BY <1>8, <1>10, <1>18, <1>19, <1>22 DEF PaperInv

LEMMA StepPaper == PaperInv /\ [Next]_vars => PaperInv'
<1> SUFFICES ASSUME PaperInv, [Next]_vars PROVE PaperInv'
  OBVIOUS
<1>1. IInv'
  BY StepIInv DEF PaperInv
<1>2. ASSUME NEW j \in Jobs, Begin(j) PROVE PaperInv'
  BY <1>1, <1>2, BeginPaper
<1>3. ASSUME NEW j \in Jobs, DispatchRaw(j) PROVE PaperInv'
  BY <1>1, <1>3, DispatchPaper
<1>4. ASSUME NEW lane \in Transports, PrintNext(lane) PROVE PaperInv'
  BY <1>1, <1>4, PrintPaper
<1>5. CASE AtRest \/ UNCHANGED vars
  <2>1. UNCHANGED <<job, line, printer, readable, disturbed>>
    BY <1>5 DEF AtRest, vars
  <2> QED
    BY <1>1, <2>1, QuietStep
<1> QED
  BY <1>2, <1>3, <1>4, <1>5 DEF Next

\* Whatever the tickets carry, however their attempts are cut off and however
\* the two transports are interleaved, a job called printed comes out once, as it
\* was meant, as long as nothing the properties name put the printer out of
\* step: the encoding announces exactly the data it sends, and a transport never
\* has two whole copies of a job (ticket_logo.go:41-73, printer_windows.go:229-280).
THEOREM PrintedIsReadableAlways == Safety => []PrintedIsReadable
<1>1. Init => PaperInv
  BY InitPaper
<1>2. PaperInv /\ [Next]_vars => PaperInv'
  BY StepPaper
<1>3. PaperInv => PrintedIsReadable
  <2> SUFFICES ASSUME PaperInv, ~disturbed PROVE PrintedIsReadable
    BY DEF PrintedIsReadable
  <2>1. \A j \in Jobs : WholeWaits(j) => Waiting(j)
    BY DEF WholeWaits, WholeCopy, Waiting
  <2>2. \A j \in Jobs : job[j].pc = "printed" /\ ~Waiting(j) => CameOut(j)
    BY <2>1 DEF CameOut
  <2> QED
    BY <2>2 DEF PaperInv, InStep, PrintedIsReadable
<1> QED
  BY <1>1, <1>2, <1>3, PTL DEF Safety

\* Every document on a line is a whole one or the beginning of one, of a job
\* that exists, and the counters count.
THEOREM PaperTypes == Safety => []TypeOK
<1>1. Init => PaperInv
  BY InitPaper
<1>2. PaperInv /\ [Next]_vars => PaperInv'
  BY StepPaper
<1>3. PaperInv => TypeOK
  <2> SUFFICES ASSUME PaperInv PROVE TypeOK
    OBVIOUS
  <2>1. \A lane \in Transports : \A k \in 1..Len(line[lane]) :
            line[lane][k] \in [job : Jobs, sent : Nat \ {0}]
    <3>1. line \in [Transports -> Seq(Entries)]
      BY DEF PaperInv, LineTyped
    <3>2. \A lane \in Transports : \A k \in 1..Len(line[lane]) : line[lane][k] \in Entries
      <4> TAKE lane \in Transports
      <4>1. line[lane] \in Seq(Entries)
        BY <3>1
      <4> QED
        BY <4>1
    <3> QED
      BY <3>2 DEF Entries
  <2> QED
    BY <2>1 DEF PaperInv, IInv, JobsTyped, PrinterTyped, TypeOK
<1> QED
  BY <1>1, <1>2, <1>3, PTL DEF Safety

=============================================================================
